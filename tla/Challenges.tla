----------------------------- MODULE Challenges -----------------------------
(***************************************************************************)
(* routes/auth.py: _CHALLENGES, the WebAuthn challenges between a begin    *)
(* and a finish request.                                                   *)
(*                                                                         *)
(* Both functions use the clock on both sides of the lock.                 *)
(* _challenge_store() computes the deadline before it takes the lock, and  *)
(* prunes by a clock read under it; _challenge_take() removes the entry    *)
(* under the lock and judges it, by a clock read, after the release.       *)
(* A thread may wait for any time at each of these points.                 *)
(*                                                                         *)
(* A token is 16 random bytes: it is modelled as new (secrets is           *)
(* external).  The challenge bytes and "extra" are left out.               *)
(***************************************************************************)
EXTENDS Integers

CONSTANTS
  Threads,   \* request threads
  Tokens,    \* tokens that can be drawn
  NoToken,   \* no token: the thread is in no call
  TTL,       \* _CHALLENGE_TTL
  MaxClock   \* bound of the model: the clock stops here

ASSUME TokenAssumption == NoToken \notin Tokens
ASSUME TTLAssumption   == TTL \in Nat
ASSUME ClockAssumption == MaxClock \in Nat

VARIABLES
  clock,    \* time.time()
  store,    \* _CHALLENGES, a function whose domain is the known tokens
  call,     \* per thread: its call [step, token, kind, entry]
  granted,  \* history: per token handed out, its kind and deadline
  gone,     \* history: tokens that were taken, or lost with the process
  uses      \* history: how often _challenge_take returned each token

vars == <<clock, store, call, granted, gone, uses>>

Kinds == {"register", "auth"}
Entry == [kind : Kinds, expires : Nat]
Idle  == [step |-> "idle", token |-> NoToken, kind |-> "auth",
          entry |-> [kind |-> "auth", expires |-> 0]]

Nothing      == [x \in {} |-> {}]
Put(f, x, e) == [y \in DOMAIN f \cup {x} |-> IF y = x THEN e ELSE f[y]]
Drop(f, xs)  == [y \in DOMAIN f \ xs |-> f[y]]

\* The entries that the loop in _challenge_store deletes.
ExpiredInclusive(f, time) == {x \in DOMAIN f : f[x].expires <= time + 1} \* mutant
Expired(f, time) == {x \in DOMAIN f : f[x].expires < time}

\* A token that no client and no thread has.
IsNew(x) == x \notin DOMAIN granted /\ \A t \in Threads : call[t].token # x

-----------------------------------------------------------------------------
Init ==
  /\ clock = 0
  /\ store = Nothing
  /\ call = [t \in Threads |-> Idle]
  /\ granted = Nothing
  /\ gone = {}
  /\ uses = [x \in Tokens |-> 0]

Tick ==
  /\ clock < MaxClock
  /\ clock' = clock + 1
  /\ UNCHANGED <<store, call, granted, gone, uses>>

\* _challenge_store up to the lock: the token is drawn, the deadline set.
Draw(t, x, k) ==
  /\ call[t] = Idle
  /\ IsNew(x)
  /\ call' = [call EXCEPT ![t] = [step |-> "store", token |-> x, kind |-> k,
                                  entry |-> [kind |-> k, expires |-> clock + TTL]]]
  /\ UNCHANGED <<clock, store, granted, gone, uses>>

StoreByKind(t) == \* mutant: the entry is filed under its kind
  /\ call[t].step = "store"
  /\ store' = Put(Drop(store, Expired(store, clock)), call[t].kind, call[t].entry)
  /\ granted' = Put(granted, call[t].token, call[t].entry)
  /\ call' = [call EXCEPT ![t] = Idle]
  /\ UNCHANGED <<clock, gone, uses>>

\* Under the lock: prune, insert; the token goes to the client.
Store(t) ==
  LET x == call[t].token
  IN  /\ call[t].step = "store"
      /\ store' = Put(Drop(store, Expired(store, clock)), x, call[t].entry)
      /\ granted' = Put(granted, x, call[t].entry)
      /\ call' = [call EXCEPT ![t] = Idle]
      /\ UNCHANGED <<clock, gone, uses>>

TakePeek(t, x, k) == \* mutant: get() in place of pop()
  /\ call[t] = Idle
  /\ x \in DOMAIN store
  /\ call' = [call EXCEPT ![t] = [step |-> "judge", token |-> x, kind |-> k,
                                  entry |-> store[x]]]
  /\ gone' = gone \cup {x}
  /\ UNCHANGED <<clock, store, granted, uses>>

\* _challenge_take under the lock: pop, whatever the kind of the entry.
Take(t, x, k) ==
  /\ call[t] = Idle
  /\ x \in DOMAIN store
  /\ call' = [call EXCEPT ![t] = [step |-> "judge", token |-> x, kind |-> k,
                                  entry |-> store[x]]]
  /\ store' = Drop(store, {x})
  /\ gone' = gone \cup {x}
  /\ UNCHANGED <<clock, granted, uses>>

Good(c, time) == c.entry.kind = c.kind /\ ~(c.entry.expires < time)

AcceptAnyKind(t) == \* mutant: the kind is not compared
  /\ call[t].step = "judge"
  /\ ~(call[t].entry.expires < clock)
  /\ uses' = [uses EXCEPT ![call[t].token] = @ + 1]
  /\ call' = [call EXCEPT ![t] = Idle]
  /\ UNCHANGED <<clock, store, granted, gone>>

\* _challenge_take after the release: the entry is returned ...
Accept(t) ==
  /\ call[t].step = "judge"
  /\ Good(call[t], clock)
  /\ uses' = [uses EXCEPT ![call[t].token] = @ + 1]
  /\ call' = [call EXCEPT ![t] = Idle]
  /\ UNCHANGED <<clock, store, granted, gone>>

\* ... or None: the wrong kind, or too late.
Refuse(t) ==
  /\ call[t].step = "judge"
  /\ ~Good(call[t], clock)
  /\ call' = [call EXCEPT ![t] = Idle]
  /\ UNCHANGED <<clock, store, granted, gone, uses>>

\* The server is killed and starts again: the dict was in memory.
Restart ==
  /\ store' = Nothing
  /\ call' = [t \in Threads |-> Idle]
  /\ gone' = gone \cup DOMAIN store
  /\ UNCHANGED <<clock, granted, uses>>

Next ==
  \/ Tick
  \/ \E t \in Threads, x \in Tokens, k \in Kinds : Draw(t, x, k)
  \/ \E t \in Threads : Store(t)
  \/ \E t \in Threads, x \in Tokens, k \in Kinds : Take(t, x, k)
  \/ \E t \in Threads : Accept(t)
  \/ \E t \in Threads : Refuse(t)
  \/ Restart

Spec == Init /\ [][Next]_vars

-----------------------------------------------------------------------------
Calls == [step : {"idle", "store", "judge"}, token : Tokens \cup {NoToken},
          kind : Kinds, entry : Entry]

Partial(f) == DOMAIN f \subseteq Tokens /\ f \in [DOMAIN f -> Entry]

(* Type correctness, and a thread in a call has the token of that call.    *)
TypeOK ==
  /\ clock \in 0..MaxClock
  /\ Partial(store) /\ Partial(granted)
  /\ call \in [Threads -> Calls]
  /\ \A t \in Threads : call[t].step # "idle" => call[t].token \in Tokens
  /\ gone \subseteq DOMAIN granted
  /\ uses \in [Tokens -> Nat]

\* Thread t is between the removal of token x and the judgement of it.
Judging(t, x) == call[t].step = "judge" /\ call[t].token = x

(* A challenge is single-use, for any number of finish requests that       *)
(* present it at the same time: no two threads hold it, and once it was    *)
(* returned no thread can hold it again.                                   *)
SingleUse ==
  \A x \in Tokens :
    /\ uses[x] <= 1
    /\ \A t \in Threads : Judging(t, x) =>
         uses[x] = 0 /\ \A u \in Threads : Judging(u, x) => u = t

(* Pruning on behalf of another client never removes a challenge within    *)
(* its time-to-live: until it is presented it is there to be taken.        *)
LiveChallengeKept ==
  \A x \in DOMAIN granted \ gone : clock <= granted[x].expires => x \in DOMAIN store

(* The deadline of a challenge runs from the begin request, and pruning    *)
(* and judging agree: a token that is returned was granted for that kind   *)
(* of ceremony and its time had not run out, however long the threads      *)
(* waited for the lock.                                                    *)
ReturnedInTime ==
  [][\A x \in Tokens : uses'[x] # uses[x] =>
       /\ granted[x].expires >= clock
       /\ \E t \in Threads : Judging(t, x) /\ call[t].kind = granted[x].kind]_vars

\* The tokens that are in the dict or held by a thread that will judge them.
Open == DOMAIN store \cup {x \in Tokens : \E t \in Threads : Judging(t, x)}

Abstract == INSTANCE OneTimeTokens WITH open <- Open

(* Although removal and judgement are two steps, the store is an atomic    *)
(* store of one-time tokens.                                               *)
ImplementsOneTimeTokens == Abstract!Spec
=============================================================================
