------------------------------ MODULE Switches ------------------------------
(***************************************************************************)
(* Do-not-disturb and the power profile: core/system.py below the handlers *)
(* of routes/system.py.                                                    *)
(*                                                                         *)
(* A request reads the state of the desktop, and changes it by commands    *)
(* that may fail and during which other requests run.  Do-not-disturb is   *)
(* kept twice: as a key of plasmanotifyrc, which the desktop's own button  *)
(* changes too, and as an inhibition for which the server holds a cookie,  *)
(* a module global.  A cookie is lost when the server restarts or when two *)
(* requests overlap; whether the notification daemon then still inhibits   *)
(* is not modelled.                                                        *)
(***************************************************************************)
EXTENDS HostClock, SequencesExt

CONSTANT POWER_PROFILES  \* the profiles, in the order of the button

ASSUME ProfilesAssumption ==
  POWER_PROFILES \in Seq(STRING) /\ "balanced" \in ToSet(POWER_PROFILES)

VARIABLES
  until,   \* whether plasmanotifyrc has the key Until
  cookie,  \* whether _DND_COOKIE holds the cookie of an inhibition
  profile, \* ActiveProfile of the power-profiles daemon
  press    \* per thread: the request

switchVars == <<until, cookie, profile, press>>

NotPressed == [op |-> "none", step |-> "idle", want |-> "none", clean |-> FALSE]
On  == "on"
Off == "off"

SwitchInit ==
  /\ until \in BOOLEAN
  /\ cookie = FALSE
  /\ profile \in ToSet(POWER_PROFILES)
  /\ press = [t \in Threads |-> NotPressed]

\* The buttons of the desktop.
DesktopSwitches ==
  /\ \/ until' \in BOOLEAN /\ UNCHANGED profile
     \/ profile' \in ToSet(POWER_PROFILES) /\ UNCHANGED until
  /\ press' = [t \in Threads |-> [press[t] EXCEPT !.clean = FALSE]]
  /\ UNCHANGED cookie

SwitchesForgotten ==  \* the server restarts
  /\ cookie' = FALSE
  /\ press' = [t \in Threads |-> NotPressed]
  /\ UNCHANGED <<until, profile>>

\* A request arrives.  It is clean as long as nobody else interferes and no
\* command fails.
Press(t, op) ==
  /\ press[t].step = "idle"
  /\ press' = [u \in Threads |->
       IF u = t
         THEN [op |-> op, step |-> "read", want |-> "none",
               clean |-> \A v \in Threads \ {t} : press[v].step \in {"idle", "reply"}]
       ELSE [press[u] EXCEPT !.clean = FALSE]]
  /\ UNCHANGED <<until, cookie, profile>>

\* A command of t does its work or fails; t goes on with the next step.
Done(t, step) == press' = [press EXCEPT ![t].step = step]
Spoilt(t, step) == press' = [press EXCEPT ![t].step = step, ![t].clean = FALSE]

-----------------------------------------------------------------------------
\* notif_toggle: what dnd_active() does not find is switched on.
ReadSwitch(t) ==
  /\ press[t].step = "read" /\ press[t].op = "dnd"
  /\ press' = [press EXCEPT ![t].step = "key", ![t].want = IF until THEN Off ELSE On]
  /\ UNCHANGED <<until, cookie, profile>>

\* dnd_set: kwriteconfig writes or deletes the key; its failure is ignored.
WriteKey(t) ==
  /\ press[t].step = "key"
  /\ \/ until' = (press[t].want = On) /\ Done(t, "look")
     \/ UNCHANGED until /\ Spoilt(t, "look")
  /\ UNCHANGED <<cookie, profile>>

\* Then the cookie decides whether there is something to inhibit or release.
LookAtCookie(t) ==
  /\ press[t].step = "look"
  /\ press' = [press EXCEPT ![t].step =
                 IF cookie = (press[t].want = On) THEN "reply" ELSE "call"]
  /\ UNCHANGED <<until, cookie, profile>>

CookieKept(t) == \* mutant: a released cookie is not forgotten
  /\ press[t].step = "call"
  /\ \/ cookie' = TRUE /\ Done(t, "reply")
     \/ cookie' \in {cookie, FALSE} /\ Spoilt(t, "reply")
  /\ UNCHANGED <<until, profile>>

\* Inhibit and UnInhibit.  A call that cannot be made leaves the cookie; an
\* answer of Inhibit that is no cookie, and a refused UnInhibit, drop it.
CallDaemon(t) ==
  /\ press[t].step = "call"
  /\ \/ cookie' = (press[t].want = On) /\ Done(t, "reply")
     \/ cookie' \in {cookie, FALSE} /\ Spoilt(t, "reply")
  /\ UNCHANGED <<until, profile>>

-----------------------------------------------------------------------------
\* The profile after p; one that cannot be read or is unknown counts as the
\* one at index 1.
Following(p) ==
  LET i == IF p \in ToSet(POWER_PROFILES)
             THEN CHOOSE j \in DOMAIN POWER_PROFILES : POWER_PROFILES[j] = p
             ELSE 2
  IN  POWER_PROFILES[(i % Len(POWER_PROFILES)) + 1]

FailurePassedOn(t) == \* mutant: a profile that cannot be read is set as it is
  /\ press[t].step = "read" /\ press[t].op = "power"
  /\ \E p \in {profile, "unknown"} :
       press' = [press EXCEPT ![t].step = "set", ![t].clean = @ /\ p = profile,
                   ![t].want = IF p = "unknown" THEN p ELSE Following(p)]
  /\ UNCHANGED <<until, cookie, profile>>

\* power_cycle: power_profile() is read, a failure is "balanced".
ReadProfile(t) ==
  /\ press[t].step = "read" /\ press[t].op = "power"
  /\ \E p \in {profile, "balanced"} :
       press' = [press EXCEPT ![t].step = "set", ![t].want = Following(p),
                   ![t].clean = @ /\ p = profile]
  /\ UNCHANGED <<until, cookie, profile>>

\* power_set: a failure ends the request with an error.
SetProfile(t) ==
  /\ press[t].step = "set"
  /\ \/ profile' = press[t].want /\ Done(t, "reply")
     \/ UNCHANGED profile /\ press' = [press EXCEPT ![t] = NotPressed]
  /\ UNCHANGED <<until, cookie>>

\* The request is answered.
ReplySwitch(t) ==
  /\ press[t].step = "reply"
  /\ press' = [press EXCEPT ![t] = NotPressed]
  /\ UNCHANGED <<until, cookie, profile>>

SwitchNext ==
  \/ DesktopSwitches
  \/ SwitchesForgotten
  \/ \E t \in Threads : Press(t, "dnd") \/ Press(t, "power")
  \/ \E t \in Threads : ReadSwitch(t) \/ WriteKey(t) \/ LookAtCookie(t) \/ CallDaemon(t)
  \/ \E t \in Threads : ReadProfile(t) \/ SetProfile(t)
  \/ \E t \in Threads : ReplySwitch(t)

-----------------------------------------------------------------------------
SwitchTypeOK ==
  /\ until \in BOOLEAN /\ cookie \in BOOLEAN
  /\ profile \in ToSet(POWER_PROFILES)
  /\ press \in [Threads ->
       [op : {"none", "dnd", "power"},
        step : {"idle", "read", "key", "look", "call", "set", "reply"},
        want : {"none", On, Off} \cup ToSet(POWER_PROFILES), clean : BOOLEAN]]

(* The two records of do-not-disturb come apart when a command fails, the  *)
(* server restarts, the desktop's button is used or requests overlap.      *)
(* Whatever happened before, the next request that nothing disturbs brings *)
(* them together again and answers what then holds: the key is there, and  *)
(* an inhibition is held, exactly if do-not-disturb was switched on; the   *)
(* profile is the one in the answer (routes/system.py:90,110).             *)
AnswersTrue ==
  \A t \in Threads :
    press[t].step = "reply" /\ press[t].clean =>
      IF press[t].op = "power" THEN profile = press[t].want
      ELSE until = cookie /\ until = (press[t].want = On)
=============================================================================
