---------------------------- MODULE WindowStates ----------------------------
(***************************************************************************)
(* core/kwin.py and the handlers of routes/apps.py for installed web apps, *)
(* which are told by their windows and not by a process.                   *)
(*                                                                         *)
(* query_states() returns a recent answer of the cache; else it has KWin   *)
(* run a script that prints the windows and looks for the line in the      *)
(* journal.  The lock is held for the look at the cache and for the write  *)
(* only, so queries overlap and a slow one stores an older answer over a   *)
(* newer one.  A script may run although the call that started it timed    *)
(* out; a query that fails returns what the cache holds, however old.      *)
(*                                                                         *)
(* Each app has at most one window.  KWin and the journal are external:    *)
(* a script sees and moves all windows at one moment.                      *)
(***************************************************************************)
EXTENDS HostClock, FiniteSets

CONSTANTS
  WebApps,     \* the installed web apps of the configuration
  WindowTTL,   \* _CACHE_TTL
  QueryTime,   \* longest duration of a query, by its time-outs
  MaxPending   \* bound of the model: launches whose window is yet to come

ASSUME WindowAssumption ==
  WindowTTL \in 1..Start /\ QueryTime \in Nat /\ MaxPending \in Nat

VARIABLES
  windows,   \* per app: its window
  arranged,  \* history: when a window last changed
  opening,   \* the apps that were launched and have no window yet
  winCache,  \* _STATE_CACHE
  winReq     \* per thread: the request

winState == <<windows, arranged, opening, winCache, winReq>>

Window  == {"none", "hidden", "shown"}
Closed  == [a \in WebApps |-> "none"]
NoReq   == [op |-> "none", app |-> "none", step |-> "idle", began |-> 0,
            left |-> {}, data |-> Closed, good |-> FALSE]

WinInit ==
  /\ clock = Start
  /\ windows \in [WebApps -> Window]
  /\ arranged = 0
  /\ opening = {}
  /\ winCache = [data |-> Closed, ts |-> 0]
  /\ winReq = [t \in Threads |-> NoReq]

Querying(t) == winReq[t].step \in {"script", "journal"}

WinTick ==
  /\ clock < MaxClock
  /\ \A t \in Threads : Querying(t) => clock < winReq[t].began + QueryTime
  /\ clock' = clock + 1
  /\ UNCHANGED <<windows, arranged, opening, winCache, winReq>>

Arrange(w) == windows' = w /\ arranged' = IF w = windows THEN arranged ELSE clock

\* The user opens, hides, shows or closes a window.
WindowMoves(a, s) ==
  /\ s # windows[a]
  /\ Arrange([windows EXCEPT ![a] = s])
  /\ UNCHANGED <<clock, opening, winCache, winReq>>

\* An app that was launched opens its window.
WindowOpens(a) ==
  /\ a \in opening
  /\ opening' = opening \ {a}
  /\ Arrange([windows EXCEPT ![a] = "shown"])
  /\ UNCHANGED <<clock, winCache, winReq>>

-----------------------------------------------------------------------------
\* A request of /api/app/<a>/... or of /api/apps/status.  For a web app close
\* and kill close its window at once, the others ask for the windows first.
Request(t, op, a) ==
  /\ winReq[t].step = "idle"
  /\ winReq' = [winReq EXCEPT ![t] =
       [NoReq EXCEPT !.op = op, !.app = a,
          !.step = IF op = "close" THEN "act" ELSE "query",
          !.left = IF op = "batch" THEN WebApps
                   ELSE IF op = "status" THEN {a} ELSE {}]]
  /\ UNCHANGED <<clock, windows, arranged, opening, winCache>>

\* query_states() returns d to t; whether KWin answered the query that d
\* stems from is history.
Back(t, d, good) ==
  winReq' = [winReq EXCEPT ![t].step = "use", ![t].data = d, ![t].good = good,
                           ![t].began = clock]
FallBack(t) == Back(t, winCache.data, FALSE)

\* The cache is recent enough, or a script is loaded and started.
Query(t) ==
  /\ winReq[t].step = "query"
  /\ IF clock - winCache.ts < WindowTTL THEN Back(t, winCache.data, TRUE)
     ELSE winReq' = [winReq EXCEPT ![t].step = "script", ![t].began = clock]
  /\ UNCHANGED <<clock, windows, arranged, opening, winCache>>

\* The script prints the windows; or run_script raises and the cache is used.
Script(t) ==
  /\ winReq[t].step = "script"
  /\ \/ winReq' = [winReq EXCEPT ![t].step = "journal", ![t].data = windows]
     \/ FallBack(t)
  /\ UNCHANGED <<clock, windows, arranged, opening, winCache>>

StampOnFailure(t) == \* mutant: a query that found nothing renews the old answer
  /\ winReq[t].step = "journal"
  /\ \/ /\ winCache' = [data |-> winReq[t].data, ts |-> clock]
        /\ Back(t, winReq[t].data, TRUE)
     \/ winCache' = [winCache EXCEPT !.ts = clock] /\ FallBack(t)
  /\ UNCHANGED <<clock, windows, arranged, opening>>

\* The line is found in the journal, stored with the present time and
\* returned; or it is not found, in four looks, and the cache is used.
Journal(t) ==
  /\ winReq[t].step = "journal"
  /\ \/ /\ winCache' = [data |-> winReq[t].data, ts |-> clock]
        /\ Back(t, winReq[t].data, TRUE)
     \/ UNCHANGED winCache /\ FallBack(t)
  /\ UNCHANGED <<clock, windows, arranged, opening>>

-----------------------------------------------------------------------------
\* What the handler does with the answer.  A status of an app that runs asks
\* once more for how its window is shown; the batch asks again for each app.
UseAnswer(t) ==
  /\ winReq[t].step = "use"
  /\ LET r    == winReq[t]
         runs == r.app \in WebApps /\ r.data[r.app] # "none"
         next == [NoReq EXCEPT !.op = r.op, !.app = r.app]
     IN  winReq' = [winReq EXCEPT ![t] =
           CASE r.op = "toggle" -> [next EXCEPT !.step = IF runs THEN "act" ELSE "launch"]
             [] r.op = "status" /\ runs /\ r.left # {} -> [next EXCEPT !.step = "query"]
             [] r.op = "batch" /\ r.left # {} ->
                  [next EXCEPT !.step = "query",
                               !.left = r.left \ {CHOOSE a \in r.left : TRUE}]
             [] OTHER -> NoReq]
  /\ UNCHANGED <<clock, windows, arranged, opening, winCache>>

\* _TOGGLE_JS and _CLOSE_JS on the window, which an app may refuse to close.
Acted(op, s) ==
  IF op = "close" THEN {s, "none"}
  ELSE {CASE s = "shown" -> "hidden" [] s = "hidden" -> "shown" [] OTHER -> "none"}

\* for_each: the script runs, or does not, whatever run_script then reports.
Act(t) ==
  /\ winReq[t].step = "act"
  /\ \E s \in Acted(winReq[t].op, windows[winReq[t].app]) \cup {windows[winReq[t].app]} :
       Arrange([windows EXCEPT ![winReq[t].app] = s])
  /\ winReq' = [winReq EXCEPT ![t] = NoReq]
  /\ UNCHANGED <<clock, opening, winCache>>

\* The app is launched, or its launcher is not found.
LaunchWebApp(t) ==
  /\ winReq[t].step = "launch"
  /\ \/ opening' = opening \cup {winReq[t].app}
     \/ UNCHANGED opening
  /\ Cardinality(opening') <= MaxPending
  /\ winReq' = [winReq EXCEPT ![t] = NoReq]
  /\ UNCHANGED <<clock, windows, arranged, winCache>>

WinNext ==
  \/ WinTick
  \/ \E a \in WebApps, s \in Window : WindowMoves(a, s)
  \/ \E a \in WebApps : WindowOpens(a)
  \/ \E t \in Threads, a \in WebApps :
       \E op \in {"status", "toggle", "close"} : Request(t, op, a)
  \/ \E t \in Threads : Request(t, "batch", "none")
  \/ \E t \in Threads : Query(t) \/ Script(t) \/ Journal(t)
  \/ \E t \in Threads : UseAnswer(t) \/ Act(t) \/ LaunchWebApp(t)

-----------------------------------------------------------------------------
WinTypeOK ==
  /\ clock \in Nat
  /\ windows \in [WebApps -> Window]
  /\ arranged \in 0..clock
  /\ opening \subseteq WebApps
  /\ winCache \in [data : [WebApps -> Window], ts : Nat]
  /\ winReq \in [Threads ->
       [op : {"none", "status", "toggle", "close", "batch"}, app : WebApps \cup {"none"},
        step : {"idle", "query", "script", "journal", "use", "act", "launch"},
        began : Nat, left : SUBSET WebApps, data : [WebApps -> Window], good : BOOLEAN]]

(* Though queries overlap and store their answers in any order, each       *)
(* stamped as if it were new, what an answer shows is at most WindowTTL    *)
(* and one query old: if the windows were left alone since, and the query  *)
(* did not fail, a status shows them as they are, a toggle never launches  *)
(* an app that is open and never looks for the window of one that is not.  *)
WindowsSettled ==
  \A t \in Threads :
    /\ winReq[t].step = "use"
    /\ winReq[t].good
    /\ arranged <= winReq[t].began - WindowTTL - QueryTime
    => winReq[t].data = windows
=============================================================================
