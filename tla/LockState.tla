----------------------------- MODULE LockState -----------------------------
(***************************************************************************)
(* screen_locked() of routes/auth.py with its cache, and the handlers that *)
(* lock and unlock the session.                                            *)
(*                                                                         *)
(* The cache is a value and a stamp that every thread reads and writes     *)
(* apart, with no lock; between the look at the stamp and the write of the *)
(* value a thread waits for busctl.  The stamp is the time the thread took *)
(* BEFORE that call.  A call of screen_locked() lasts at most CallTime,    *)
(* the time-out of busctl.  The screen and loginctl are external: an order *)
(* of loginctl is carried out some time later, or never, and the user      *)
(* locks and unlocks the screen at the keyboard.                           *)
(***************************************************************************)
EXTENDS HostClock, FiniteSets

CONSTANTS
  LockTTL,   \* _LOCK_CACHE_TTL
  CallTime,  \* longest duration of a call of screen_locked
  MaxOrders  \* bound of the model: orders of loginctl under way at once

ASSUME LockAssumption ==
  LockTTL \in 1..Start /\ CallTime \in Nat /\ MaxOrders \in Nat

VARIABLES
  screen,    \* whether the screen is locked
  moved,     \* history: when it was last locked or unlocked
  orders,    \* what loginctl was asked to do and the desktop has not done
  lockCache, \* _LOCK_CACHE
  asking     \* per thread: the call of screen_locked

lockState == <<screen, moved, orders, lockCache, asking>>

\* A value; whether busctl answered at all is history.
Reading   == [value : BOOLEAN, good : BOOLEAN]
NoReading == [value |-> FALSE, good |-> FALSE]
NotAsking == [step |-> "idle", now |-> 0, read |-> NoReading]

LockInit ==
  /\ clock = Start
  /\ screen \in BOOLEAN
  /\ moved = 0
  /\ orders = {}
  /\ lockCache = [read |-> NoReading, ts |-> 0]
  /\ asking = [t \in Threads |-> NotAsking]

\* Time passes, but no call takes longer than CallTime.
LockTick ==
  /\ clock < MaxClock
  /\ \A t \in Threads : asking[t].step # "idle" => clock < asking[t].now + CallTime
  /\ clock' = clock + 1
  /\ UNCHANGED <<screen, moved, orders, lockCache, asking>>

\* The user locks or unlocks the screen at the keyboard.
ScreenMoves ==
  /\ screen' = ~screen
  /\ moved' = clock
  /\ UNCHANGED <<clock, orders, lockCache, asking>>

\* lock() starts loginctl and does not wait; unlock() swallows its failure.
Order(b) ==
  /\ orders' = orders \cup {b}
  /\ Cardinality(orders') <= MaxOrders
  /\ UNCHANGED <<clock, screen, moved, lockCache, asking>>

\* The desktop carries an order out.
Obey(b) ==
  /\ b \in orders
  /\ orders' = orders \ {b}
  /\ screen' = b
  /\ moved' = IF screen = b THEN moved ELSE clock
  /\ UNCHANGED <<clock, lockCache, asking>>

-----------------------------------------------------------------------------
\* screen_locked() takes the time ...
Enter(t) ==
  /\ asking[t].step = "idle"
  /\ asking' = [asking EXCEPT ![t].step = "look", ![t].now = clock]
  /\ UNCHANGED <<clock, screen, moved, orders, lockCache>>

\* ... and looks at the stamp: the cached value is recent, or busctl is asked.
Look(t) ==
  /\ asking[t].step = "look"
  /\ asking' = [asking EXCEPT ![t].step =
                  IF asking[t].now - lockCache.ts < LockTTL THEN "hit" ELSE "ask"]
  /\ UNCHANGED <<clock, screen, moved, orders, lockCache>>

\* The value is returned that the cache holds by now.
Hit(t) ==
  /\ asking[t].step = "hit"
  /\ asking' = [asking EXCEPT ![t] = NotAsking]
  /\ UNCHANGED <<clock, screen, moved, orders, lockCache>>

\* busctl answers; a failure counts as "not locked".
Ask(t) ==
  /\ asking[t].step = "ask"
  /\ \E good \in BOOLEAN :
       asking' = [asking EXCEPT ![t].step = "store",
                    ![t].read = [value |-> good /\ screen, good |-> good]]
  /\ UNCHANGED <<clock, screen, moved, orders, lockCache>>

StampFirst(t) == \* mutant: the stamp is written before the value
  /\ \/ /\ asking[t].step = "store"
        /\ lockCache' = [lockCache EXCEPT !.ts = asking[t].now]
        /\ asking' = [asking EXCEPT ![t].step = "stamp"]
     \/ /\ asking[t].step = "stamp"
        /\ lockCache' = [lockCache EXCEPT !.read = asking[t].read]
        /\ asking' = [asking EXCEPT ![t] = NotAsking]
  /\ UNCHANGED <<clock, screen, moved, orders>>

\* The value is written, then the stamp, and the value is returned.
Write(t) ==
  /\ \/ /\ asking[t].step = "store"
        /\ lockCache' = [lockCache EXCEPT !.read = asking[t].read]
        /\ asking' = [asking EXCEPT ![t].step = "stamp"]
     \/ /\ asking[t].step = "stamp"
        /\ lockCache' = [lockCache EXCEPT !.ts = asking[t].now]
        /\ asking' = [asking EXCEPT ![t] = NotAsking]
  /\ UNCHANGED <<clock, screen, moved, orders>>

LockNext ==
  \/ LockTick
  \/ ScreenMoves
  \/ \E b \in BOOLEAN : Order(b)
  \/ \E b \in BOOLEAN : Obey(b)
  \/ \E t \in Threads : Enter(t) \/ Look(t) \/ Hit(t) \/ Ask(t) \/ Write(t)

-----------------------------------------------------------------------------
LockTypeOK ==
  /\ clock \in Nat
  /\ screen \in BOOLEAN
  /\ moved \in 0..clock
  /\ orders \subseteq BOOLEAN
  /\ lockCache \in [read : Reading, ts : Nat]
  /\ asking \in [Threads -> [step : {"idle", "look", "hit", "ask", "store", "stamp"},
                             now : Nat, read : Reading]]

(* Though value and stamp are written apart and by several threads, in any *)
(* order, a cached answer is at most LockTTL and one call old: if busctl   *)
(* answered the call it stems from, and the screen was left alone since,   *)
(* it shows the screen as it is.                                           *)
LockSettled ==
  \A t \in Threads :
    /\ asking[t].step = "hit"
    /\ lockCache.read.good
    /\ moved <= asking[t].now - LockTTL - CallTime
    => lockCache.read.value = screen
=============================================================================
