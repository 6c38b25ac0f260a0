---------------------------- MODULE OneTimeTokens ---------------------------
(***************************************************************************)
(* What a store of one-time challenges promises: a token is granted for    *)
(* one kind of ceremony and at most TTL ticks, and is redeemed, in one     *)
(* step, at most once, by that ceremony and before its deadline.           *)
(***************************************************************************)
EXTENDS Integers

CONSTANTS Tokens, Kinds, TTL

VARIABLES
  clock,    \* the wall clock
  granted,  \* granted tokens, a function to their kind and deadline
  open,     \* the tokens that may still be redeemed
  uses      \* how often each token was redeemed

vars == <<clock, granted, open, uses>>

Init ==
  /\ clock \in Nat
  /\ granted = [x \in {} |-> {}]
  /\ open = {}
  /\ uses = [x \in Tokens |-> 0]

Tick == clock' = clock + 1 /\ UNCHANGED <<granted, open, uses>>

\* A new token for ceremony k; the store may forget tokens that have expired.
Grant(x, k, d) ==
  /\ x \notin DOMAIN granted
  /\ granted' = [y \in DOMAIN granted \cup {x} |->
                   IF y = x THEN [kind |-> k, expires |-> d] ELSE granted[y]]
  /\ x \in open' /\ open' \subseteq open \cup {x}
  /\ \A y \in open \ open' : granted[y].expires < clock
  /\ UNCHANGED <<clock, uses>>

\* The ceremony of kind k goes on with token x.
Redeem(x, k) ==
  /\ x \in open
  /\ granted[x].kind = k
  /\ clock <= granted[x].expires
  /\ open' = open \ {x}
  /\ uses' = [uses EXCEPT ![x] = @ + 1]
  /\ UNCHANGED <<clock, granted>>

\* Tokens that expired, were presented in vain or were lost with the process.
Void == open' \subseteq open /\ UNCHANGED <<clock, granted, uses>>

Next ==
  \/ Tick
  \/ \E x \in Tokens, k \in Kinds, d \in 0..(clock + TTL) : Grant(x, k, d)
  \/ \E x \in Tokens, k \in Kinds : Redeem(x, k)
  \/ Void

Spec == Init /\ [][Next]_vars
=============================================================================
