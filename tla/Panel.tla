-------------------------------- MODULE Panel --------------------------------
(***************************************************************************)
(* The panel, static/app.js: one page in one browser.  It shows one of     *)
(* three cards (login, lock, app), asks /api/status from several places,   *)
(* polls while it is signed in, and listens to an EventSource that makes   *)
(* some of the polling unnecessary.  JavaScript runs one task at a time;   *)
(* what can interleave are the tasks, cut at each `await`, timer and event.*)
(*                                                                         *)
(* The server is modelled by what the page can learn of it: what           *)
(* screen_locked() returns, a cached value or a failed call's FALSE too,   *)
(* (the screen itself is in LockState), and whether the browser's cookie   *)
(* is a session (Sessions).  The timers of ping, battery, sysinfo, app     *)
(* states and updates start together and stop together; they are "data".   *)
(***************************************************************************)
EXTENDS Naturals, FiniteSets

CONSTANTS
  Checks, Polls, Events,   \* status requests that may be under way, by sender
  Sources, NoSource,       \* EventSource objects, none in an ancient browser; sse.es is null
  MaxStarting, MaxDue      \* bounds: overlapping initApp calls, pending checkAuth timers

ASSUME SlotsAssumption  == /\ Checks \cap Polls = {}
                           /\ Checks \cap Events = {}
                           /\ Polls \cap Events = {}
                           /\ Checks # {}
ASSUME SourceAssumption == NoSource \notin Sources
ASSUME BoundAssumption  == MaxStarting \in Nat \ {0} /\ MaxDue \in Nat \ {0, 1}

VARIABLES
  session, screen,         \* the browser's cookie is a session; what screen_locked() returns
  card, last,              \* the visible card; lastStatus
  initialized, starting,   \* initialized; the initApp calls still in their awaits
  running, held,           \* intervals that tick; timer variables that are not null
  live, es, connected,     \* the EventSources; sse.es and sse.connected
  fetch, due               \* status requests; pending setTimeout(checkAuth)

world == <<session, screen>>
page  == <<card, last, initialized, starting>>
loops == <<running, held, live, es, connected>>
asked == <<fetch, due>>
vars  == <<world, page, loops, asked>>

Timers  == {"data", "lock"}
Screens == {"locked", "unlocked"}
Slots   == Checks \cup Polls \cup Events

(* An answer of /api/status; NoAnswer is the null of a failed request,     *)
(* which checkAuth reads as "not signed in, screen unknown".  A request    *)
(* carries the cookie of the moment it is sent.                            *)
Status   == [authed : BOOLEAN, screen : Screens \cup {"unknown"}]
NoAnswer == [authed |-> FALSE, screen |-> "unknown"]
Idle     == [step |-> "idle", answer |-> NoAnswer]
Sent     == [step |-> "sent", answer |-> [NoAnswer EXCEPT !.authed = session]]
Fetch    == [step : {"idle", "sent", "answered"}, answer : Status]

TypeOK ==
  /\ session \in BOOLEAN /\ screen \in Screens
  /\ card \in {"blank", "login", "lock", "app"} /\ last \in Status
  /\ initialized \in BOOLEAN /\ starting \in 0..MaxStarting
  /\ running \in [Timers -> 0..1] /\ held \subseteq Timers
  /\ live \in [Sources -> {"closed", "connecting", "open"}]
  /\ es \in Sources \cup {NoSource} /\ connected \in BOOLEAN
  /\ fetch \in [Slots -> Fetch] /\ due \in 0..MaxDue

(* The page is loaded; the last line of the script is a checkAuth().       *)
Loaded ==
  /\ card = "blank" /\ last = [authed |-> FALSE, screen |-> "unlocked"]
  /\ initialized = FALSE /\ starting = 0
  /\ running = [t \in Timers |-> 0] /\ held = {}
  /\ live = [s \in Sources |-> "closed"] /\ es = NoSource /\ connected = FALSE
  /\ \E c \in Checks : fetch = [i \in Slots |-> IF i = c THEN Sent ELSE Idle]
  /\ due = 0

Init == session \in BOOLEAN /\ screen \in Screens /\ Loaded

-----------------------------------------------------------------------------
(* clearInterval, setInterval and the EventSource.                         *)

Cleared(t) == IF t \in held /\ running[t] > 0 THEN running[t] - 1 ELSE running[t]

StartAgain(T) == \* mutant: the old interval is left running
  /\ running' = [t \in Timers |-> IF t \in T THEN running[t] + 1 ELSE running[t]]
  /\ held' = held \cup T

(* startPing, startBatteryPolling, ..., startLockPolling                   *)
Start(T) ==
  /\ running' = [t \in Timers |-> IF t \in T THEN Cleared(t) + 1 ELSE running[t]]
  /\ held' = held \cup T

Closed == [s \in Sources |-> IF s = es THEN "closed" ELSE live[s]]

openEventStreamAgain == \* mutant: the old stream is left open
  LET s == CHOOSE x \in Sources : live[x] = "closed"
  IN  live' = [live EXCEPT ![s] = "connecting"] /\ es' = s /\ connected' = FALSE

openEventStream ==
  IF Sources = {} THEN UNCHANGED <<live, es, connected>>
  ELSE LET s == CHOOSE x \in Sources : Closed[x] = "closed"
       IN  live' = [Closed EXCEPT ![s] = "connecting"] /\ es' = s /\ connected' = FALSE

stopAllPollingOpen == \* mutant: sse.connected keeps its value
  /\ running' = [t \in Timers |-> Cleared(t)] /\ held' = {}
  /\ live' = Closed /\ es' = NoSource /\ UNCHANGED connected

stopAllPolling ==
  /\ running' = [t \in Timers |-> Cleared(t)] /\ held' = {}
  /\ live' = Closed /\ es' = NoSource /\ connected' = FALSE

-----------------------------------------------------------------------------
(* initApp, up to its first await.                                         *)
initApp ==
  /\ initialized' = TRUE
  /\ IF initialized THEN starting' = starting
     ELSE starting < MaxStarting /\ starting' = starting + 1

(* What applyAuthState shows for an answer.                                *)
CardOf(d) == IF ~d.authed THEN "login" ELSE IF d.screen = "locked" THEN "lock" ELSE "app"

applyAuthStateOnce(d) == \* mutant: `initialized` stays TRUE on the login card
  /\ last' = d
  /\ card' = CardOf(d)
  /\ CASE card' = "login" -> stopAllPolling /\ UNCHANGED <<initialized, starting>>
       [] card' = "lock"  -> /\ Start({"lock"})
                             /\ UNCHANGED <<initialized, starting, live, es, connected>>
       [] card' = "app"   -> /\ Start({"lock"}) /\ initApp
                             /\ UNCHANGED <<live, es, connected>>

applyAuthState(d) ==
  /\ last' = d
  /\ card' = CardOf(d)
  /\ CASE card' = "login" -> /\ stopAllPolling
                             /\ initialized' = FALSE /\ starting' = starting
       [] card' = "lock"  -> /\ Start({"lock"})
                             /\ UNCHANGED <<initialized, starting, live, es, connected>>
       [] card' = "app"   -> /\ Start({"lock"}) /\ initApp
                             /\ UNCHANGED <<live, es, connected>>

(* initApp after its awaits: capabilities and grid are loaded.             *)
Started ==
  /\ starting > 0 /\ starting' = starting - 1
  /\ Start({"data"}) /\ openEventStream
  /\ UNCHANGED <<world, card, last, initialized, asked>>

-----------------------------------------------------------------------------
(* /api/status                                                             *)

Send(i) == fetch[i].step = "idle" /\ fetch' = [fetch EXCEPT ![i] = Sent]

(* A timer that calls checkAuth is due.                                    *)
checkAuth ==
  /\ due > 0 /\ due' = due - 1
  /\ \E c \in Checks : Send(c)
  /\ UNCHANGED <<world, page, loops>>

(* A tick of startLockPolling's interval.                                  *)
LockPoll ==
  /\ running["lock"] > 0 /\ ~connected
  /\ \E p \in Polls : Send(p)
  /\ UNCHANGED <<world, page, loops, due>>

(* The server judges the cookie it was sent: if the session has ended since*)
(* then by a sign-out, which leaves that cookie good, or by its expiry.    *)
Answer(i) ==
  /\ fetch[i].step = "sent"
  /\ \E good \in {TRUE, session} :
       fetch' = [fetch EXCEPT ![i] =
                   [step |-> "answered",
                    answer |-> [authed |-> @.answer.authed /\ good, screen |-> screen]]]
  /\ UNCHANGED <<world, page, loops, due>>

UseUnseen(i, d) == \* mutant: a poll notes the answer and forgets to show it
  \/ i \in Checks /\ applyAuthState(d)
  \/ i \in Events /\ d # NoAnswer /\ applyAuthState(d)
  \/ i \in Polls  /\ d # NoAnswer /\ last' = d
                  /\ UNCHANGED <<card, initialized, starting, loops>>
  \/ i \notin Checks /\ d = NoAnswer /\ UNCHANGED <<page, loops>>

UseScreen(i, d) == \* mutant: a poll looks for changes of the screen only
  \/ i \in Checks /\ applyAuthState(d)
  \/ i \in Events /\ d # NoAnswer /\ applyAuthState(d)
  \/ i \in Polls  /\ d # NoAnswer /\ d.screen # last.screen /\ applyAuthState(d)
  \/ /\ i \notin Checks /\ (d = NoAnswer \/ (i \in Polls /\ d.screen = last.screen))
     /\ UNCHANGED <<page, loops>>

(* What the sender does with the answer: checkAuth shows it, whatever it   *)
(* is; an event's request shows it if there is one; a poll compares first. *)
Use(i, d) ==
  \/ i \in Checks /\ applyAuthState(d)
  \/ i \in Events /\ d # NoAnswer /\ applyAuthState(d)
  \/ i \in Polls  /\ d # NoAnswer /\ d # last /\ applyAuthState(d)
  \/ /\ i \notin Checks /\ (d = NoAnswer \/ (i \in Polls /\ d = last))
     /\ UNCHANGED <<page, loops>>

(* An answer to a signed-in browser renews the session's cookie.           *)
Arrive(i) ==
  /\ fetch[i].step = "answered"
  /\ fetch' = [fetch EXCEPT ![i] = Idle]
  /\ session' = (session \/ fetch[i].answer.authed)
  /\ Use(i, fetch[i].answer)
  /\ UNCHANGED <<screen, due>>

(* The request or its answer is lost: fetchStatus returns null.            *)
Fail(i) ==
  /\ fetch[i].step = "sent"
  /\ fetch' = [fetch EXCEPT ![i] = Idle]
  /\ Use(i, NoAnswer)
  /\ UNCHANGED <<world, due>>

-----------------------------------------------------------------------------
(* The buttons.  The handlers of those that sign in and out do nothing to  *)
(* the page before the server has answered; the answer is taken to find    *)
(* the card that the button is on.                                         *)

(* A code or a passkey was accepted; a passkey unlocks the screen as well, *)
(* which screen_locked() may return at once or later.                      *)
SignedIn ==
  /\ card \in {"login", "lock"}
  /\ session' = TRUE
  /\ screen' \in {screen, "unlocked"}
  /\ \E c \in Checks : Send(c)
  /\ UNCHANGED <<page, loops, due>>

(* /api/logout has answered, with a cookie that is no session.             *)
SignedOut ==
  /\ card = "app"
  /\ session' = FALSE
  /\ stopAllPolling /\ initialized' = FALSE
  /\ due < MaxDue /\ due' = due + 1
  /\ UNCHANGED <<screen, card, last, starting, fetch>>

(* The lock button schedules two checks; the screen locks soon after.      *)
Lock ==
  /\ card = "app"
  /\ due + 2 <= MaxDue /\ due' = due + 2
  /\ UNCHANGED <<world, page, loops, fetch>>

(* "Use code instead": the cookie is HttpOnly, so the browser ignores the  *)
(* script that sets it to expire; then checkAuth.                          *)
UseCode ==
  /\ card = "lock"
  /\ \E c \in Checks : Send(c)
  /\ UNCHANGED <<world, page, loops, due>>

-----------------------------------------------------------------------------
(* The EventSource.                                                        *)

(* The server accepts the connection: the event `open`.                    *)
StreamOpens(s) ==
  /\ live[s] = "connecting" /\ session
  /\ live' = [live EXCEPT ![s] = "open"] /\ connected' = TRUE
  /\ UNCHANGED <<world, page, running, held, es, asked>>

(* A response that is not 200, from the server (no session) or from the    *)
(* tunnel before it: the event `error`, and the EventSource gives up.      *)
StreamRefused(s) ==
  /\ live[s] = "connecting"
  /\ live' = [live EXCEPT ![s] = "closed"] /\ connected' = FALSE
  /\ UNCHANGED <<world, page, running, held, es, asked>>

StreamBreaksUnseen(s) == \* mutant: no handler for the event `error`
  /\ live[s] = "open"
  /\ live' = [live EXCEPT ![s] = "connecting"] /\ UNCHANGED connected
  /\ UNCHANGED <<world, page, running, held, es, asked>>

(* The connection is lost: `error`, and the browser connects again.        *)
StreamBreaks(s) ==
  /\ live[s] = "open"
  /\ live' = [live EXCEPT ![s] = "connecting"] /\ connected' = FALSE
  /\ UNCHANGED <<world, page, running, held, es, asked>>

(* The event `lock`, published every 3 s, with what screen_locked()        *)
(* returned then: news is only a reason to ask.                            *)
LockEvent(s, sc) ==
  /\ live[s] = "open" /\ sc # last.screen
  /\ \E e \in Events : Send(e)
  /\ UNCHANGED <<world, page, loops, due>>

-----------------------------------------------------------------------------
(* What happens elsewhere.                                                 *)

(* The session expires, or ends in another tab of the browser.             *)
SessionEnds == session /\ session' = FALSE
               /\ UNCHANGED <<screen, page, loops, asked>>

(* The screen is locked or unlocked at the PC, or the query fails.         *)
ScreenMoves == /\ screen' \in Screens \ {screen}
               /\ UNCHANGED <<session, page, loops, asked>>

-----------------------------------------------------------------------------
Next ==
  \/ Started \/ checkAuth \/ LockPoll
  \/ \E i \in Slots : Answer(i) \/ Fail(i) \/ Arrive(i)
  \/ SignedIn \/ SignedOut \/ Lock \/ UseCode
  \/ \E s \in Sources : StreamOpens(s) \/ StreamRefused(s) \/ StreamBreaks(s)
  \/ \E s \in Sources, sc \in Screens : LockEvent(s, sc)
  \/ SessionEnds \/ ScreenMoves

(* Timers go off, awaits end, requests end in one way or another, and a    *)
(* request made again and again is answered at last.  A stream that stays  *)
(* open brings an event published since the screen was what it is.         *)
(* Nothing is assumed of the user, the session, the screen, and the        *)
(* stream's connection.                                                    *)
Fairness ==
  /\ WF_vars(Started) /\ WF_vars(checkAuth) /\ WF_vars(LockPoll)
  /\ \A i \in Slots : SF_vars(Answer(i)) /\ WF_vars(Arrive(i))
  /\ \A s \in Sources : WF_vars(LockEvent(s, screen))

Spec     == Init /\ [][Next]_vars
FairSpec == Spec /\ Fairness

-----------------------------------------------------------------------------
(* Nothing ticks or streams that the page could not stop: a running        *)
(* interval is the one its variable names, and so is an EventSource,       *)
(* however often the page signs in and out while initApp waits.            *)
OneOfEach ==
  /\ \A t \in Timers : running[t] > 0 => t \in held
  /\ \A s \in Sources : live[s] # "closed" => s = es

(* The card shows lastStatus.  Polls and lock events only compare with     *)
(* lastStatus, so a card that showed something else would stay wrong.      *)
CardShowsLast == card \in {"blank", CardOf(last)}

(* "sse.connected gates" the polling (app.js:1643): it is set only while a *)
(* stream is open, or the fallback would be off with nothing in its place. *)
GateIsTrue == connected => \E s \in Sources : s = es /\ live[s] = "open"

(* A browser that lost its session sees the login card, if no stream is    *)
(* open: the fallback polls, or the checks, find out.                      *)
SignOutIsSeen ==
  <>[](~session /\ ~connected) => <>[](card = "login")

(* A panel that stays signed in shows in the end what screen_locked()      *)
(* returns, over the stream or by polling, whatever answers and events of  *)
(* before overtook one another on the way.                                 *)
LockIsSeen ==
  \A sc \in Screens :
    <>[](screen = sc /\ card \in {"lock", "app"})
      /\ (<>[]connected \/ <>[]~connected)
      => <>[](card = CardOf([authed |-> TRUE, screen |-> sc]))

(* "They restart from initApp() after auth" (app.js:297).                  *)
PollsAgain ==
  <>[](card = "app") => []<>(running["data"] > 0)

(* "Stop every polling timer -- no point hitting the server while we sit   *)
(* on the login card" (app.js:296).                                        *)
NothingPollsOnLogin ==
  card = "login" /\ starting = 0
    => \A t \in Timers : running[t] = 0
=============================================================================
