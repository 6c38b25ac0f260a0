----------------------------- MODULE HostClock -----------------------------
(***************************************************************************)
(* What the small components of the host share: the request threads of the *)
(* server and the clock.  Host composes the components.                    *)
(***************************************************************************)
EXTENDS Integers

CONSTANTS
  Threads,  \* request threads
  Start,    \* the time at which the server starts
  MaxClock  \* bound of the model: the clock stops here

ASSUME ClockAssumption == Start \in Nat /\ MaxClock \in Nat

VARIABLE clock  \* time.time()
=============================================================================
