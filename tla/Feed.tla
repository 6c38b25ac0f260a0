-------------------------------- MODULE Feed --------------------------------
(***************************************************************************)
(* What live updates promise a viewer: it may miss states, but it is never *)
(* shown a state that was not published, nor an older one after a newer.   *)
(***************************************************************************)
EXTENDS Integers

CONSTANTS Conns, Names

VARIABLES
  last,  \* the newest state published under each name, 0 for none
  seen   \* what each viewer shows for each name, 0 for nothing

vars == <<last, seen>>

Blank == [n \in Names |-> 0]

Init == last = Blank /\ seen = [c \in Conns |-> Blank]

Publish(n) ==
  /\ last[n]' >= last[n]
  /\ last' = [last EXCEPT ![n] = last[n]']
  /\ UNCHANGED seen

\* The viewer shows a state at least as new as the one it showed before.
Show(c, n) ==
  /\ seen[c][n] <= seen[c][n]' /\ seen[c][n]' <= last[n]
  /\ seen' = [seen EXCEPT ![c] = [@ EXCEPT ![n] = seen[c][n]']]
  /\ UNCHANGED last

\* The viewer is gone; the next one starts with nothing.
Leave(c) ==
  /\ seen' = [seen EXCEPT ![c] = Blank]
  /\ UNCHANGED last

Next ==
  \/ \E n \in Names : Publish(n)
  \/ \E c \in Conns, n \in Names : Show(c, n)
  \/ \E c \in Conns : Leave(c)

Spec == Init /\ [][Next]_vars
=============================================================================
