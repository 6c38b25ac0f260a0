---------------------------- MODULE PasskeyStore ----------------------------
(***************************************************************************)
(* What state/passkeys.json is meant to be: a bounded set of passkeys with *)
(* a use counter each, changed one passkey at a time, or lost as a whole   *)
(* when the process dies while the file is rewritten.                      *)
(***************************************************************************)
EXTENDS Integers, FiniteSets

CONSTANTS Creds, MaxPasskeys

VARIABLE passkeys   \* a function from the registered ids to their uses

Init == passkeys = [c \in {} |-> 0]

Add(c) ==
  /\ Cardinality(DOMAIN passkeys) < MaxPasskeys
  /\ c \notin DOMAIN passkeys
  /\ passkeys' = [x \in DOMAIN passkeys \cup {c} |-> IF x = c THEN 0 ELSE passkeys[x]]

Remove(c) ==
  /\ c \in DOMAIN passkeys
  /\ passkeys' = [x \in DOMAIN passkeys \ {c} |-> passkeys[x]]

Use(c) ==
  /\ c \in DOMAIN passkeys
  /\ passkeys' = [passkeys EXCEPT ![c] = @ + 1]

\* The process dies in the middle of a save.
Wipe == passkeys' = [c \in {} |-> 0]

Next == Wipe \/ \E c \in Creds : Add(c) \/ Remove(c) \/ Use(c)

Spec == Init /\ [][Next]_passkeys
=============================================================================
