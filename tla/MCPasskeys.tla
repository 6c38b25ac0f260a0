----------------------------- MODULE MCPasskeys -----------------------------
(* PasskeysAlone for TLC: threads, credentials and tokens are              *)
(* interchangeable.                                                        *)
EXTENDS PasskeysAlone, Functions, TLC

Symmetry == Permutations(Threads) \cup Permutations(Creds) \cup Permutations(Tokens)

\* Bound of the model, once requests have overlapped: one crash, and four
\* registrations and sign-ins, so up to two sign-ins with two passkeys or one.
Few ==
  /\ crashes <= 1
  /\ Cardinality({c \in Creds : status[c] # "new"}) + SumFunction(signins) <= 4

MCNext == AloneNext /\ (alone' \/ Few')
MCSpec == AloneInit /\ [][MCNext]_<<vars, alone>>
=============================================================================
