--------------------------- MODULE Notifications ---------------------------
(***************************************************************************)
(* The listener of core/notifications.py, a daemon thread that reads what  *)
(* dbus-monitor prints and keeps the last notifications.                   *)
(*                                                                         *)
(* Of a line the loop asks two things: does it contain member=Notify, and  *)
(* does it match _STR_RE.  A line of neither kind changes nothing and is   *)
(* left out of the pipe; the others are a head, or a string.  The strings  *)
(* of a notification are its app, icon, summary and body, and the texts    *)
(* after them (actions, hints).  Any of the four is missing from what is   *)
(* printed if it holds a quote or a newline or ends in a backslash; a text *)
(* of several lines may have lines that match, and any string that holds   *)
(* member=Notify is a head.  Such a notification is entered with other     *)
(* strings of its own in their place, twice, or not at all.                *)
(*                                                                         *)
(* dbus-monitor may end at any time, in the midst of a notification too:   *)
(* the listener reads what is in the pipe, waits two seconds and starts it *)
(* again.  If reading itself fails, what is in the pipe is lost.           *)
(* Notifications are numbered; a line is its kind and that number.         *)
(***************************************************************************)
EXTENDS Integers, SequencesExt

CONSTANTS
  HistoryMax,        \* maxlen of _HISTORY
  Printings,         \* the ways a notification may be printed: kinds of lines
  MaxNotifications,  \* bound of the model: notifications that are sent
  MaxDeaths          \* bound of the model: how often the listener starts again

Kinds == {"head", "app", "icon", "summary", "body", "text"}

ASSUME NotificationAssumption ==
  HistoryMax \in Nat \ {0} /\ MaxNotifications \in Nat /\ MaxDeaths \in Nat

ASSUME PrintingAssumption ==
  \A p \in Printings : p \in Seq(Kinds) /\ p # <<>> /\ p[1] = "head"

VARIABLES
  sent,     \* number of notifications printed so far
  deaths,   \* how often dbus-monitor has ended, or reading it has failed
  monitor,  \* whether a dbus-monitor runs that the listener reads
  pipe,     \* its output that is not read yet
  inNotify, \* in_notify of the listener
  strings,  \* strings of the listener
  history,  \* _HISTORY, the newest first
  plain,    \* history: the notifications whose four strings match
  whole,    \* history: those of them that were printed in full
  heard,    \* history: the notifications that were ever entered
  lost      \* history: those that were in the pipe when reading it failed

notifVars == <<sent, deaths, monitor, pipe, inNotify, strings, history,
               plain, whole, heard, lost>>

Line(kind, n) == [kind |-> kind, n |-> n]

\* What dbus-monitor prints of notification n, as p says.
Printed(p, n) == [i \in 1..Len(p) |-> Line(p[i], n)]

\* The four strings come first, and nothing after them looks like a head.
Told == <<"head", "app", "icon", "summary", "body">>

Plain(p) ==
  /\ Len(p) >= 5
  /\ \A k \in 1..Len(p) : p[k] = IF k <= 5 THEN Told[k] ELSE "text"

NotifInit ==
  /\ sent = 0 /\ deaths = 0
  /\ monitor = TRUE
  /\ pipe = <<>>
  /\ inNotify = FALSE /\ strings = <<>>
  /\ history = <<>>
  /\ plain = {} /\ whole = {} /\ heard = {} /\ lost = {}

-----------------------------------------------------------------------------
\* A notification is sent and printed.
Notify(p) ==
  /\ monitor /\ sent < MaxNotifications
  /\ sent' = sent + 1
  /\ pipe' = pipe \o Printed(p, sent')
  /\ plain' = IF Plain(p) THEN plain \cup {sent'} ELSE plain
  /\ whole' = IF Plain(p) THEN whole \cup {sent'} ELSE whole
  /\ UNCHANGED <<deaths, monitor, inNotify, strings, history, heard, lost>>

\* dbus-monitor ends between two notifications, or having printed the first
\* lines of one.
MonitorEnds ==
  /\ monitor /\ deaths < MaxDeaths
  /\ monitor' = FALSE
  /\ deaths' = deaths + 1
  /\ \/ UNCHANGED <<sent, pipe, plain>>
     \/ /\ sent < MaxNotifications
        /\ sent' = sent + 1
        /\ \E p \in Printings : \E k \in 1..(Len(p) - 1) :
             /\ pipe' = pipe \o SubSeq(Printed(p, sent'), 1, k)
             /\ plain' = IF Plain(p) THEN plain \cup {sent'} ELSE plain
  /\ UNCHANGED <<inNotify, strings, history, whole, heard, lost>>

\* Reading raises, say on bytes that are no text: the except clause logs it.
\* Nobody reads that dbus-monitor any more, whether it runs or not.
ReadFails ==
  /\ pipe # <<>> /\ deaths < MaxDeaths
  /\ deaths' = deaths + 1
  /\ monitor' = FALSE
  /\ pipe' = <<>>
  /\ lost' = lost \cup {pipe[i].n : i \in 1..Len(pipe)}
  /\ UNCHANGED <<sent, inNotify, strings, history, plain, whole, heard>>

\* appendleft on a deque of HistoryMax.
Entered(entry) ==
  LET all == <<entry>> \o history
  IN  SubSeq(all, 1, IF Len(all) > HistoryMax THEN HistoryMax ELSE Len(all))

NoReset == \* mutant: a head does not drop the strings of what came before it
  /\ pipe # <<>>
  /\ pipe' = Tail(pipe)
  /\ LET line == Head(pipe)
         got  == Append(strings, line)
     IN  IF line.kind = "head"
           THEN inNotify' = TRUE /\ UNCHANGED <<strings, history, heard>>
         ELSE IF ~inNotify
           THEN UNCHANGED <<inNotify, strings, history, heard>>
         ELSE IF Len(got) < 4
           THEN strings' = got /\ UNCHANGED <<inNotify, history, heard>>
         ELSE /\ history' = Entered([app |-> got[1], summary |-> got[3], body |-> got[4]])
              /\ heard' = heard \cup {got[1].n}
              /\ inNotify' = FALSE /\ strings' = <<>>
  /\ UNCHANGED <<sent, deaths, monitor, plain, whole, lost>>

SkipsPlain == \* mutant: the entry is made at the fifth string
  /\ pipe # <<>>
  /\ pipe' = Tail(pipe)
  /\ LET line == Head(pipe)
         got  == Append(strings, line)
     IN  IF line.kind = "head"
           THEN inNotify' = TRUE /\ strings' = <<>> /\ UNCHANGED <<history, heard>>
         ELSE IF ~inNotify
           THEN UNCHANGED <<inNotify, strings, history, heard>>
         ELSE IF Len(got) < 5
           THEN strings' = got /\ UNCHANGED <<inNotify, history, heard>>
         ELSE /\ history' = Entered([app |-> got[1], summary |-> got[3], body |-> got[4]])
              /\ heard' = heard \cup {got[1].n}
              /\ inNotify' = FALSE /\ strings' = <<>>
  /\ UNCHANGED <<sent, deaths, monitor, plain, whole, lost>>

\* The listener reads a line: a head starts a notification, and the fourth
\* string after it makes an entry of the first, the third and the fourth.
ReadLine ==
  /\ pipe # <<>>
  /\ pipe' = Tail(pipe)
  /\ LET line == Head(pipe)
         got  == Append(strings, line)
     IN  IF line.kind = "head"
           THEN inNotify' = TRUE /\ strings' = <<>> /\ UNCHANGED <<history, heard>>
         ELSE IF ~inNotify
           THEN UNCHANGED <<inNotify, strings, history, heard>>
         ELSE IF Len(got) < 4
           THEN strings' = got /\ UNCHANGED <<inNotify, history, heard>>
         ELSE /\ history' = Entered([app |-> got[1], summary |-> got[3], body |-> got[4]])
              /\ heard' = heard \cup {got[1].n}
              /\ inNotify' = FALSE /\ strings' = <<>>
  /\ UNCHANGED <<sent, deaths, monitor, plain, whole, lost>>

\* The pipe has ended or was given up: after a while dbus-monitor is started.
StartMonitor ==
  /\ ~monitor /\ pipe = <<>>
  /\ monitor' = TRUE
  /\ inNotify' = FALSE /\ strings' = <<>>
  /\ UNCHANGED <<sent, deaths, pipe, history, plain, whole, heard, lost>>

\* clear_history, for a request of /api/notif/clear.
ClearHistory ==
  /\ history' = <<>>
  /\ UNCHANGED <<sent, deaths, monitor, pipe, inNotify, strings, plain, whole, heard, lost>>

NotifNext ==
  \/ \E p \in Printings : Notify(p)
  \/ MonitorEnds
  \/ ReadFails
  \/ ReadLine
  \/ StartMonitor
  \/ ClearHistory

-----------------------------------------------------------------------------
(* An entry is made of the strings of one notification, whatever did not   *)
(* match in it, was cut off or lost before it; and the entry of one whose  *)
(* strings all match has its own app, summary and body.  The newest come   *)
(* first, no such one is entered twice, and the history stays bounded.     *)
HistoryTrue ==
  /\ Len(history) <= HistoryMax
  /\ \A i \in DOMAIN history :
       LET e == history[i] IN
       /\ e.summary.n = e.app.n /\ e.body.n = e.app.n
       /\ e.app.n \in plain =>
            e.app.kind = "app" /\ e.summary.kind = "summary" /\ e.body.kind = "body"
       /\ \A j \in DOMAIN history : i < j =>
            IF e.app.n \in plain THEN history[j].app.n < e.app.n
                                 ELSE history[j].app.n <= e.app.n

(* A notification whose strings all match and that was printed in full is  *)
(* entered, whatever else is printed or cut off, unless reading failed     *)
(* while it was in the pipe; and dbus-monitor is started again whenever it *)
(* ends or reading it fails (core/notifications.py:30).                    *)
Heard ==
  /\ \A n \in 1..MaxNotifications : n \in whole ~> n \in heard \cup lost
  /\ ~monitor ~> monitor
=============================================================================
