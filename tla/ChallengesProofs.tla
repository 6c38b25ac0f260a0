-------------------------- MODULE ChallengesProofs --------------------------
(***************************************************************************)
(* For any number of request threads and any time-to-live: a challenge is  *)
(* returned at most once, in time and to its own kind of ceremony, and a   *)
(* live one is not pruned.                                                 *)
(***************************************************************************)
EXTENDS Challenges, TLAPS

(* The threads between two steps, against the store and the histories.     *)
Drawn ==
  \A t \in Threads : call[t].step = "store" =>
    /\ call[t].token \notin DOMAIN granted
    /\ call[t].entry.expires <= clock + TTL
    /\ call[t].entry.kind = call[t].kind
    /\ \A u \in Threads \ {t} : call[u].token # call[t].token

Judged ==
  \A t \in Threads : call[t].step = "judge" =>
    /\ call[t].token \in gone
    /\ call[t].entry = granted[call[t].token]
    /\ uses[call[t].token] = 0
    /\ \A u \in Threads : Judging(u, call[t].token) => u = t

(* What is stored was granted, and was never taken.                        *)
Stored ==
  \A x \in DOMAIN store :
    /\ x \in DOMAIN granted /\ x \notin gone
    /\ store[x] = granted[x]

(* A token counts as used only after it was taken.                         *)
UsedIsGone == \A x \in Tokens : uses[x] <= 1 /\ (uses[x] # 0 => x \in gone)

IInv == TypeOK /\ Drawn /\ Judged /\ Stored /\ UsedIsGone /\ LiveChallengeKept

-----------------------------------------------------------------------------
(* The partial functions that stand for the dict.                          *)
LEMMA PutType ==
  ASSUME NEW f, Partial(f), NEW x \in Tokens, NEW e \in Entry
  PROVE  Partial(Put(f, x, e)) /\ DOMAIN Put(f, x, e) = DOMAIN f \cup {x}
BY DEF Partial, Put

LEMMA DropType ==
  ASSUME NEW f, Partial(f), NEW xs
  PROVE  /\ Partial(Drop(f, xs))
         /\ DOMAIN Drop(f, xs) = DOMAIN f \ xs
         /\ \A y \in DOMAIN f \ xs : Drop(f, xs)[y] = f[y]
BY DEF Partial, Drop

LEMMA NothingType == Partial(Nothing) /\ DOMAIN Nothing = {}
BY DEF Partial, Nothing

LEMMA IdleType == Idle \in Calls /\ Idle.step = "idle" /\ Idle.token = NoToken
BY DEF Idle, Calls, Kinds, Entry

LEMMA InitIInv == Init => IInv
<1> SUFFICES ASSUME Init PROVE IInv
  OBVIOUS
<1>1. TypeOK
  BY NothingType, IdleType, ClockAssumption DEF Init, TypeOK
<1>2. Drawn /\ Judged
  BY IdleType DEF Init, Drawn, Judged
<1>3. Stored /\ UsedIsGone /\ LiveChallengeKept
  BY NothingType DEF Init, Stored, UsedIsGone, LiveChallengeKept
<1> QED BY <1>1, <1>2, <1>3 DEF IInv

(* A thread returns to idle: nothing else is asked of it.                  *)
LEMMA TickStep == IInv /\ Tick => IInv'
<1> SUFFICES ASSUME IInv, Tick PROVE IInv'
  OBVIOUS
<1> USE DEF IInv, Tick
<1>1. TypeOK'
  BY ClockAssumption DEF TypeOK, Partial
<1>2. Drawn'
  <2>1. ASSUME NEW t \in Threads, call[t].step = "store"
        PROVE  call[t].entry.expires <= clock + 1 + TTL
    BY <2>1, TTLAssumption DEF Drawn, TypeOK, Calls, Entry
  <2> QED BY <2>1 DEF Drawn
<1>3. Judged' /\ Stored' /\ UsedIsGone'
  BY DEF Judged, Judging, Stored, UsedIsGone
<1>4. LiveChallengeKept'
  <2>1. ASSUME NEW x \in DOMAIN granted \ gone, clock + 1 <= granted[x].expires
        PROVE  x \in DOMAIN store
    <3>1. granted[x].expires \in Nat /\ clock \in Nat
      BY DEF TypeOK, Partial, Entry
    <3> QED BY <2>1, <3>1 DEF LiveChallengeKept
  <2> QED BY <2>1 DEF LiveChallengeKept
<1> QED BY <1>1, <1>2, <1>3, <1>4

LEMMA DrawStep ==
  ASSUME IInv, NEW t \in Threads, NEW x \in Tokens, NEW k \in Kinds, Draw(t, x, k)
  PROVE  IInv'
<1> USE DEF IInv
<1> DEFINE c == [step |-> "store", token |-> x, kind |-> k,
                 entry |-> [kind |-> k, expires |-> clock + TTL]]
<1>1. c \in Calls /\ c.step = "store" /\ c.token = x /\ c.kind = k
  BY TTLAssumption DEF Calls, Entry, TypeOK
<1>2. c.entry.expires = clock + TTL /\ c.entry.kind = k
  OBVIOUS
<1>3. /\ call' = [call EXCEPT ![t] = c] /\ IsNew(x)
      /\ UNCHANGED <<clock, store, granted, gone, uses>>
  BY DEF Draw
<1> HIDE DEF c
<1>4. call'[t] = c /\ \A u \in Threads \ {t} : call'[u] = call[u]
  BY <1>3 DEF TypeOK
<1>5. TypeOK'
  BY <1>1, <1>3, <1>4 DEF TypeOK, Partial
<1>6. Drawn'
  <2>1. ASSUME NEW u \in Threads, call'[u].step = "store"
        PROVE  /\ call'[u].token \notin DOMAIN granted
               /\ call'[u].entry.expires <= clock + TTL
               /\ call'[u].entry.kind = call'[u].kind
               /\ \A v \in Threads \ {u} : call'[v].token # call'[u].token
    <3>1. CASE u = t
      BY <3>1, <1>1, <1>2, <1>3, <1>4, TTLAssumption DEF IsNew, TypeOK
    <3>2. CASE u # t
      BY <2>1, <3>2, <1>1, <1>3, <1>4 DEF IsNew, Drawn
    <3> QED BY <3>1, <3>2
  <2> QED BY <2>1, <1>3 DEF Drawn
<1>7. Judged'
  <2>1. ASSUME NEW u \in Threads, call'[u].step = "judge"
        PROVE  u # t /\ call'[u] = call[u]
    BY <2>1, <1>1, <1>4
  <2> QED BY <2>1, <1>3 DEF Judged, Judging
<1>8. Stored' /\ UsedIsGone' /\ LiveChallengeKept'
  BY <1>3 DEF Stored, UsedIsGone, LiveChallengeKept
<1> QED BY <1>5, <1>6, <1>7, <1>8

LEMMA StoreStep ==
  ASSUME IInv, NEW t \in Threads, Store(t)
  PROVE  IInv'
<1> USE DEF IInv
<1> DEFINE x == call[t].token
           e == call[t].entry
           kept == Drop(store, Expired(store, clock))
<1>1. call[t].step = "store" /\ x \in Tokens /\ e \in Entry /\ x \notin DOMAIN granted
  BY DEF Store, TypeOK, Drawn, Calls
<1>2. /\ store' = Put(kept, x, e) /\ granted' = Put(granted, x, e)
      /\ call' = [call EXCEPT ![t] = Idle] /\ UNCHANGED <<clock, gone, uses>>
  BY DEF Store
<1>3. x \notin DOMAIN store /\ x \notin gone
  BY <1>1 DEF Stored, TypeOK
<1>4. /\ Partial(kept) /\ DOMAIN kept = DOMAIN store \ Expired(store, clock)
      /\ \A y \in DOMAIN kept : kept[y] = store[y]
  BY DropType DEF TypeOK
<1>5. /\ call'[t] = Idle /\ \A u \in Threads \ {t} : call'[u] = call[u] /\ call[u].token # x
  BY <1>1, <1>2 DEF TypeOK, Drawn
<1> HIDE DEF x, e, kept
<1>6. /\ Partial(store') /\ DOMAIN store' = DOMAIN kept \cup {x} /\ store'[x] = e
      /\ \A y \in DOMAIN kept \ {x} : store'[y] = kept[y]
  <2>1. Partial(Put(kept, x, e)) /\ DOMAIN Put(kept, x, e) = DOMAIN kept \cup {x}
    BY <1>1, <1>4, PutType
  <2>2. /\ Put(kept, x, e)[x] = e
        /\ \A y \in DOMAIN kept \ {x} : Put(kept, x, e)[y] = kept[y]
    BY DEF Put
  <2>3. store' = Put(kept, x, e)
    BY <1>2
  <2> QED BY <2>1, <2>2, <2>3, Zenon
<1>7. /\ Partial(granted') /\ DOMAIN granted' = DOMAIN granted \cup {x} /\ granted'[x] = e
      /\ \A y \in DOMAIN granted \ {x} : granted'[y] = granted[y]
  <2>1. /\ Partial(Put(granted, x, e))
        /\ DOMAIN Put(granted, x, e) = DOMAIN granted \cup {x}
    BY <1>1, PutType DEF TypeOK
  <2>2. /\ Put(granted, x, e)[x] = e
        /\ \A y \in DOMAIN granted \ {x} : Put(granted, x, e)[y] = granted[y]
    BY DEF Put
  <2>3. granted' = Put(granted, x, e)
    BY <1>2
  <2> QED BY <2>1, <2>2, <2>3, Zenon
<1>8. TypeOK'
  BY <1>2, <1>6, <1>7, <1>5, IdleType DEF TypeOK
<1>9. Drawn'
  <2>1. ASSUME NEW u \in Threads, call'[u].step = "store"
        PROVE  u # t /\ call'[u] = call[u] /\ call[u].token # x
    BY <2>1, <1>5, IdleType
  <2>2. \A u \in Threads : call[u].step = "store" => call[u].token \in Tokens
    BY DEF TypeOK
  <2>3. ASSUME NEW u \in Threads, call'[u].step = "store", NEW v \in Threads \ {u}
        PROVE  call'[v].token # call'[u].token
    BY <2>1, <2>2, <2>3, <1>5, IdleType, TokenAssumption DEF Drawn
  <2> QED BY <2>1, <2>3, <1>2, <1>7 DEF Drawn
<1>10. Judged'
  <2>1. ASSUME NEW u \in Threads, call'[u].step = "judge"
        PROVE  u # t /\ call'[u] = call[u] /\ call[u].token # x
    BY <2>1, <1>5, IdleType
  <2>2. ASSUME NEW u \in Threads, call'[u].step = "judge"
        PROVE  call[u].token \in DOMAIN granted
    BY <2>1, <2>2 DEF Judged, TypeOK
  <2> QED BY <2>1, <2>2, <1>2, <1>7 DEF Judged, Judging
<1>11. Stored' /\ UsedIsGone'
  BY <1>2, <1>3, <1>4, <1>6, <1>7 DEF Stored, UsedIsGone
<1>12. LiveChallengeKept'
  <2>1. ASSUME NEW y \in DOMAIN granted' \ gone, clock <= granted'[y].expires
        PROVE  y \in DOMAIN store'
    <3>1. CASE y = x
      BY <3>1, <1>6
    <3>2. CASE y # x
      <4>1. y \in DOMAIN store /\ granted'[y] = granted[y] /\ store[y] = granted[y]
        BY <2>1, <3>2, <1>7 DEF LiveChallengeKept, Stored
      <4>2. store[y].expires \in Nat /\ clock \in Nat
        BY <4>1 DEF TypeOK, Partial, Entry
      <4>3. y \notin Expired(store, clock)
        BY <2>1, <4>1, <4>2 DEF Expired
      <4> QED BY <4>1, <4>3, <1>4, <1>6
    <3> QED BY <3>1, <3>2
  <2> QED BY <2>1, <1>2 DEF LiveChallengeKept
<1> QED BY <1>8, <1>9, <1>10, <1>11, <1>12

LEMMA TakeStep ==
  ASSUME IInv, NEW t \in Threads, NEW x \in Tokens, NEW k \in Kinds, Take(t, x, k)
  PROVE  IInv'
<1> USE DEF IInv
<1> DEFINE c == [step |-> "judge", token |-> x, kind |-> k, entry |-> store[x]]
<1>1. /\ x \in DOMAIN store /\ call' = [call EXCEPT ![t] = c]
      /\ store' = Drop(store, {x}) /\ gone' = gone \cup {x}
      /\ UNCHANGED <<clock, granted, uses>>
  BY DEF Take
<1>2. x \in DOMAIN granted /\ x \notin gone /\ store[x] = granted[x] /\ store[x] \in Entry
  BY <1>1 DEF Stored, TypeOK, Partial
<1>3. c \in Calls /\ c.step = "judge" /\ c.token = x /\ c.entry = granted[x]
  BY <1>2 DEF Calls
<1> HIDE DEF c
<1>4. call'[t] = c /\ \A u \in Threads \ {t} : call'[u] = call[u]
  BY <1>1 DEF TypeOK
<1>5. /\ Partial(store') /\ DOMAIN store' = DOMAIN store \ {x}
      /\ \A y \in DOMAIN store' : store'[y] = store[y]
  <2>1. /\ Partial(Drop(store, {x})) /\ DOMAIN Drop(store, {x}) = DOMAIN store \ {x}
        /\ \A y \in DOMAIN store \ {x} : Drop(store, {x})[y] = store[y]
    BY DropType DEF TypeOK
  <2> QED BY <1>1, <2>1
<1>6. TypeOK'
  BY <1>1, <1>2, <1>3, <1>4, <1>5 DEF TypeOK
<1>7. Drawn'
  <2>1. ASSUME NEW u \in Threads, call'[u].step = "store"
        PROVE  u # t /\ call'[u] = call[u] /\ call[u].token # x
    BY <2>1, <1>2, <1>3, <1>4 DEF Drawn
  <2> QED BY <2>1, <1>1, <1>3, <1>4 DEF Drawn
<1>8. Judged'
  <2>1. \A u \in Threads : ~Judging(u, x)
    BY <1>2 DEF Judged, Judging
  <2>2. ASSUME NEW u \in Threads, call'[u].step = "judge"
        PROVE  /\ call'[u].token \in gone'
               /\ call'[u].entry = granted[call'[u].token]
               /\ uses[call'[u].token] = 0
               /\ \A v \in Threads :
                    call'[v].step = "judge" /\ call'[v].token = call'[u].token => v = u
    <3>1. CASE u = t
      <4>1. uses[x] = 0
        BY <1>2 DEF UsedIsGone
      <4> QED BY <3>1, <4>1, <2>1, <1>1, <1>3, <1>4 DEF Judging
    <3>2. CASE u # t
      BY <2>1, <2>2, <3>2, <1>1, <1>3, <1>4 DEF Judged, Judging
    <3> QED BY <3>1, <3>2
  <2> QED BY <2>2, <1>1 DEF Judged, Judging
<1>9. Stored' /\ UsedIsGone' /\ LiveChallengeKept'
  BY <1>1, <1>5 DEF Stored, UsedIsGone, LiveChallengeKept
<1> QED BY <1>6, <1>7, <1>8, <1>9

(* A thread that ends its call, with the token returned or not.            *)
LEMMA JudgeStep ==
  ASSUME IInv, NEW t \in Threads, Accept(t) \/ Refuse(t)
  PROVE  IInv'
<1> USE DEF IInv
<1> DEFINE x == call[t].token
<1>1. /\ call[t].step = "judge" /\ call' = [call EXCEPT ![t] = Idle]
      /\ UNCHANGED <<clock, store, granted, gone>>
      /\ uses' = uses \/ uses' = [uses EXCEPT ![x] = @ + 1]
  BY DEF Accept, Refuse
<1>2. /\ x \in Tokens /\ x \in gone /\ uses[x] = 0
      /\ \A u \in Threads : Judging(u, x) => u = t
  BY <1>1 DEF Judged, TypeOK
<1>3. call'[t] = Idle /\ \A u \in Threads \ {t} : call'[u] = call[u]
  BY <1>1 DEF TypeOK
<1> HIDE DEF x
<1>4. /\ uses' \in [Tokens -> Nat] /\ uses'[x] \in {0, 1}
      /\ \A y \in Tokens \ {x} : uses'[y] = uses[y]
  BY <1>1, <1>2 DEF TypeOK
<1>5. TypeOK'
  BY <1>1, <1>3, <1>4, IdleType DEF TypeOK, Partial
<1>6. Drawn'
  <2>1. ASSUME NEW u \in Threads, call'[u].step = "store"
        PROVE  u # t /\ call'[u] = call[u] /\ call[u].token \in Tokens
    BY <2>1, <1>3, IdleType DEF TypeOK
  <2> QED BY <2>1, <1>1, <1>3, IdleType, TokenAssumption DEF Drawn
<1>7. Judged'
  <2>1. ASSUME NEW u \in Threads, call'[u].step = "judge"
        PROVE  /\ u # t /\ call'[u] = call[u] /\ call[u].token # x
               /\ call[u].token \in Tokens
    BY <2>1, <1>2, <1>3, IdleType DEF Judging, TypeOK
  <2> QED BY <2>1, <1>1, <1>3, <1>4, IdleType DEF Judged, Judging
<1>8. Stored' /\ UsedIsGone' /\ LiveChallengeKept'
  BY <1>1, <1>2, <1>4 DEF Stored, UsedIsGone, LiveChallengeKept
<1> QED BY <1>5, <1>6, <1>7, <1>8

LEMMA RestartStep == IInv /\ Restart => IInv'
<1> SUFFICES ASSUME IInv, Restart PROVE IInv'
  OBVIOUS
<1> USE DEF IInv
<1>1. /\ store' = Nothing /\ call' = [t \in Threads |-> Idle]
      /\ gone' = gone \cup DOMAIN store /\ UNCHANGED <<clock, granted, uses>>
  BY DEF Restart
<1>2. TypeOK'
  BY <1>1, NothingType, IdleType DEF TypeOK, Stored
<1>3. Drawn' /\ Judged'
  BY <1>1, IdleType DEF Drawn, Judged
<1>4. Stored' /\ UsedIsGone' /\ LiveChallengeKept'
  BY <1>1, NothingType DEF Stored, UsedIsGone, LiveChallengeKept
<1> QED BY <1>2, <1>3, <1>4

LEMMA NextIInv == IInv /\ [Next]_vars => IInv'
<1> SUFFICES ASSUME IInv, [Next]_vars PROVE IInv'
  OBVIOUS
<1>1. CASE UNCHANGED vars
  BY <1>1 DEF vars, IInv, TypeOK, Drawn, Judged, Judging, Stored, UsedIsGone,
              LiveChallengeKept, Partial
<1> QED BY <1>1, TickStep, DrawStep, StoreStep, TakeStep, JudgeStep, RestartStep DEF Next

-----------------------------------------------------------------------------
(* The invariant holds for every interleaving of the threads.              *)
THEOREM InductiveInvariant == Spec => []IInv
BY InitIInv, NextIInv, PTL DEF Spec

(* Every state is well typed, calls between their steps included.          *)
THEOREM TypeCorrect == Spec => []TypeOK
<1>1. IInv => TypeOK
  BY DEF IInv
<1> QED BY <1>1, InductiveInvariant, PTL

(* No challenge is returned twice, and no two threads hold the same one.   *)
THEOREM ChallengesSingleUse == Spec => []SingleUse
<1>1. IInv => SingleUse
  BY DEF IInv, UsedIsGone, Judged, Judging, SingleUse
<1> QED BY <1>1, InductiveInvariant, PTL

(* Pruning keeps every challenge whose time has not run out.               *)
THEOREM LiveKept == Spec => []LiveChallengeKept
<1>1. IInv => LiveChallengeKept
  BY DEF IInv
<1> QED BY <1>1, InductiveInvariant, PTL

(* What a finish request is given was granted for it and is still valid.   *)
THEOREM InTime == Spec => ReturnedInTime
<1>1. ASSUME IInv, [Next]_vars
      PROVE  [\A x \in Tokens : uses'[x] # uses[x] =>
                /\ granted[x].expires >= clock
                /\ \E t \in Threads : Judging(t, x) /\ call[t].kind = granted[x].kind]_vars
  <2>1. CASE \E t \in Threads : Accept(t)
    <3>1. PICK t \in Threads : Accept(t)
      BY <2>1
    <3>2. /\ call[t].token \in Tokens /\ call[t].token \in DOMAIN granted
          /\ call[t].entry = granted[call[t].token]
      BY <1>1, <3>1 DEF Accept, IInv, TypeOK, Judged
    <3>3. \A x \in Tokens : uses'[x] # uses[x] => x = call[t].token
      BY <1>1, <3>1 DEF Accept, IInv, TypeOK
    <3>4. call[t].entry.expires \in Nat /\ clock \in Nat
      BY <1>1, <3>2 DEF IInv, TypeOK, Calls, Entry
    <3>5. call[t].entry.expires >= clock /\ call[t].entry.kind = call[t].kind
      BY <3>1, <3>4 DEF Accept, Good
    <3> QED BY <3>1, <3>2, <3>3, <3>5 DEF Accept, Judging
  <2>2. CASE UNCHANGED uses
    BY <2>2
  <2> QED BY <1>1, <2>1, <2>2 DEF Next, vars, Tick, Draw, Store, Take, Refuse, Restart
<1> QED BY <1>1, InductiveInvariant, PTL DEF Spec, ReturnedInTime

-----------------------------------------------------------------------------
(* Steps of one thread leave the tokens that others judge.                 *)
LEMMA JudgingStep ==
  ASSUME IInv, NEW t \in Threads, NEW c, call' = [call EXCEPT ![t] = c]
  PROVE  \A x \in Tokens, u \in Threads :
           Judging(u, x)' <=> IF u = t THEN c.step = "judge" /\ c.token = x
                                       ELSE Judging(u, x)
BY DEF IInv, TypeOK, Judging

LEMMA StoreGrants ==
  ASSUME IInv, NEW t \in Threads, Store(t)
  PROVE  Abstract!Next
<1> USE DEF IInv
<1> DEFINE x == call[t].token
           k == call[t].entry.kind
           d == call[t].entry.expires
<1>1. /\ call[t].step = "store" /\ x \in Tokens /\ x \notin DOMAIN granted
      /\ k \in Kinds /\ d \in 0..(clock + TTL) /\ call[t].entry = [kind |-> k, expires |-> d]
  <2>1. /\ call[t].step = "store" /\ x \in Tokens /\ call[t].entry \in Entry
        /\ x \notin DOMAIN granted /\ d <= clock + TTL
    BY DEF Store, TypeOK, Drawn, Calls
  <2> QED BY <2>1, TTLAssumption DEF Entry, TypeOK
<1>2. /\ store' = Put(Drop(store, Expired(store, clock)), x, call[t].entry)
      /\ granted' = Put(granted, x, [kind |-> k, expires |-> d])
      /\ call' = [call EXCEPT ![t] = Idle] /\ UNCHANGED <<clock, gone, uses>>
  BY <1>1 DEF Store
<1>3. DOMAIN store' = (DOMAIN store \ Expired(store, clock)) \cup {x}
  BY <1>2 DEF Put, Drop
<1>4. \A y \in Tokens, u \in Threads : Judging(u, y)' <=> u # t /\ Judging(u, y)
  BY <1>2, JudgingStep, IdleType
<1>5. \A y \in Tokens : ~Judging(t, y)
  BY <1>1 DEF Judging
<1>6. x \in Open' /\ Open' \subseteq Open \cup {x} /\ Open \ Open' \subseteq Expired(store, clock)
  BY <1>3, <1>4, <1>5 DEF Open
<1>7. \A y \in Expired(store, clock) : granted[y].expires < clock
  BY DEF Expired, Stored
<1>8. granted' = [y \in DOMAIN granted \cup {x} |->
                    IF y = x THEN [kind |-> k, expires |-> d] ELSE granted[y]]
  BY <1>2 DEF Put
<1> HIDE DEF x, k, d
<1>9. Abstract!Grant(x, k, d)
  BY <1>1, <1>2, <1>6, <1>7, <1>8 DEF Abstract!Grant
<1> QED BY <1>1, <1>9 DEF Abstract!Next, Kinds

(* The two steps of a finish request: the second one redeems the token.    *)
LEMMA AcceptRedeems ==
  ASSUME IInv, NEW t \in Threads, Accept(t)
  PROVE  Abstract!Next
<1> USE DEF IInv
<1> DEFINE x == call[t].token
           k == call[t].kind
<1>1. /\ call[t].step = "judge" /\ x \in Tokens /\ k \in Kinds
      /\ call[t].entry \in Entry /\ call[t].entry = granted[x] /\ x \in gone
      /\ \A u \in Threads : Judging(u, x) => u = t
  BY DEF Accept, TypeOK, Judged, Calls
<1>2. /\ uses' = [uses EXCEPT ![x] = @ + 1] /\ call' = [call EXCEPT ![t] = Idle]
      /\ UNCHANGED <<clock, store, granted, gone>>
  BY DEF Accept
<1>3. granted[x].kind = k /\ clock <= granted[x].expires
  <2>1. call[t].entry.kind = k /\ ~(call[t].entry.expires < clock)
    BY DEF Accept, Good
  <2> QED BY <1>1, <2>1 DEF Entry, TypeOK
<1>4. \A y \in Tokens, u \in Threads : Judging(u, y)' <=> u # t /\ Judging(u, y)
  BY <1>2, JudgingStep, IdleType
<1>5. \A y \in Tokens : Judging(t, y) <=> y = x
  BY <1>1 DEF Judging
<1>6. x \notin DOMAIN store
  BY <1>1 DEF Stored
<1>7. x \in Open /\ Open' = Open \ {x}
  BY <1>1, <1>2, <1>4, <1>5, <1>6 DEF Open
<1> HIDE DEF x, k
<1>8. Abstract!Redeem(x, k)
  BY <1>2, <1>3, <1>7 DEF Abstract!Redeem
<1> QED BY <1>1, <1>8 DEF Abstract!Next, Kinds

(* Every step is a step of the abstract store, or stutters.                *)
LEMMA StepRefines == IInv /\ [Next]_vars => [Abstract!Next]_(Abstract!vars)
<1> SUFFICES ASSUME IInv, [Next]_vars PROVE [Abstract!Next]_(Abstract!vars)
  OBVIOUS
<1>1. CASE Tick
  <2>1. Open' = Open
    BY <1>1 DEF Tick, Open, Judging
  <2> QED BY <1>1, <2>1 DEF Tick, Abstract!Next, Abstract!Tick
<1>2. ASSUME NEW t \in Threads, NEW x \in Tokens, NEW k \in Kinds, Draw(t, x, k)
      PROVE  UNCHANGED Abstract!vars
  <2> DEFINE c == [step |-> "store", token |-> x, kind |-> k,
                   entry |-> [kind |-> k, expires |-> clock + TTL]]
  <2>1. /\ call' = [call EXCEPT ![t] = c] /\ c.step = "store" /\ call[t].step = "idle"
        /\ UNCHANGED <<clock, store, granted, uses>>
    BY <1>2, IdleType DEF Draw
  <2> HIDE DEF c
  <2>2. \A y \in Tokens, u \in Threads : Judging(u, y)' <=> Judging(u, y)
    BY <2>1, JudgingStep DEF Judging
  <2> QED BY <2>1, <2>2 DEF Open, Abstract!vars
<1>3. ASSUME NEW t \in Threads, Store(t) PROVE Abstract!Next
  BY <1>3, StoreGrants
<1>4. ASSUME NEW t \in Threads, NEW x \in Tokens, NEW k \in Kinds, Take(t, x, k)
      PROVE  UNCHANGED Abstract!vars
  <2> DEFINE c == [step |-> "judge", token |-> x, kind |-> k, entry |-> store[x]]
  <2>1. /\ call' = [call EXCEPT ![t] = c] /\ c.step = "judge" /\ c.token = x
        /\ call[t].step = "idle" /\ x \in DOMAIN store /\ store' = Drop(store, {x})
        /\ UNCHANGED <<clock, granted, uses>>
    BY <1>4, IdleType DEF Take
  <2> HIDE DEF c
  <2>2. \A y \in Tokens, u \in Threads :
          Judging(u, y)' <=> Judging(u, y) \/ (u = t /\ y = x)
    <3>1. \A y \in Tokens : ~Judging(t, y)
      BY <2>1 DEF Judging
    <3>2. \A y \in Tokens, u \in Threads :
            Judging(u, y)' <=> IF u = t THEN y = x ELSE Judging(u, y)
      BY <2>1, JudgingStep
    <3> QED BY <3>1, <3>2
  <2>3. DOMAIN store' = DOMAIN store \ {x}
    BY <2>1 DEF Drop
  <2>4. x \in Tokens /\ DOMAIN store \subseteq Tokens
    BY DEF IInv, TypeOK, Partial
  <2>5. Open' = Open
    <3>1. Open' = DOMAIN store' \cup {y \in Tokens : \E u \in Threads : Judging(u, y)'}
      BY DEF Open
    <3>2. \A y \in Tokens : (\E u \in Threads : Judging(u, y)') <=>
            (\E u \in Threads : Judging(u, y)) \/ y = x
      BY <2>2
    <3> QED BY <2>1, <2>3, <2>4, <3>1, <3>2 DEF Open
  <2> QED BY <2>1, <2>5 DEF Abstract!vars
<1>5. ASSUME NEW t \in Threads, Accept(t) PROVE Abstract!Next
  BY <1>5, AcceptRedeems
<1>6. ASSUME NEW t \in Threads, Refuse(t) PROVE Abstract!Next
  <2>1. call' = [call EXCEPT ![t] = Idle] /\ UNCHANGED <<clock, store, granted, uses>>
    BY <1>6 DEF Refuse
  <2>2. \A y \in Tokens, u \in Threads : Judging(u, y)' => Judging(u, y)
    BY <2>1, JudgingStep, IdleType
  <2>3. Open' \subseteq Open
    BY <2>1, <2>2 DEF Open
  <2> QED BY <2>1, <2>3 DEF Abstract!Next, Abstract!Void
<1>7. CASE Restart
  <2>1. Open' \subseteq Open
    BY <1>7, NothingType, IdleType DEF Restart, Open, Judging
  <2> QED BY <1>7, <2>1 DEF Restart, Abstract!Next, Abstract!Void
<1>8. CASE UNCHANGED vars
  BY <1>8 DEF vars, Abstract!vars, Open, Judging
<1> QED BY <1>1, <1>2, <1>3, <1>4, <1>5, <1>6, <1>7, <1>8 DEF Next

(* The store of challenges is an atomic store of one-time tokens.          *)
THEOREM Refinement == Spec => ImplementsOneTimeTokens
<1>1. Init => Abstract!Init
  BY NothingType, IdleType DEF Init, Abstract!Init, Open, Judging, Nothing
<1> QED BY <1>1, StepRefines, InductiveInvariant, PTL
        DEF Spec, ImplementsOneTimeTokens, Abstract!Spec

=============================================================================
