------------------------- MODULE RateLimiterProofs -------------------------
(***************************************************************************)
(* Proofs that hold for every set of keys and threads, every limit, window *)
(* and collection threshold: no Window - 2 * Delay ticks contain more than *)
(* Max admitted attempts of a key, no live attempt is forgotten, a refusal *)
(* outlasts what it says by less than a second, and the limiter implements AttemptWindow with *)
(* a slack of Delay.                                                       *)
(***************************************************************************)
EXTENDS RateLimiter, FiniteSetTheorems, TLAPS

(* A stamped thread has read the clock at most Delay ticks ago.            *)
StampsRecent ==
  \A t \in Threads : pc[t] = "stamped" => now[t] <= clock /\ clock <= now[t] + Delay

(* The history of a key: an attempt appended later is stamped at most      *)
(* Delay earlier than those before it.                                     *)
HistoryOrdered ==
  \A k \in Keys :
    /\ IsFiniteSet(admitted[k])
    /\ \A a \in admitted[k] : a.at <= clock /\ a.n <= Cardinality(admitted[k])
    /\ \A a, b \in admitted[k] : a.n <= b.n => a.at <= b.at + Delay

(* A bucket holds attempts of its key's history, never more than Max.      *)
BucketsBounded ==
  \A k \in Keys : BucketOf(k) \subseteq admitted[k] /\ Cardinality(BucketOf(k)) <= Max

(* A second after the time told to a key there is room in its bucket.      *)
RoomAfterBan ==
  \A k \in Keys :
    ban[k] # NoTime => Cardinality(Unexpired(BucketOf(k), ban[k] + Second - Window)) < Max

IInv ==
  /\ TypeOK
  /\ StampsRecent
  /\ HistoryOrdered
  /\ BucketsBounded
  /\ LiveAttemptsKept
  /\ SlidingWindow
  /\ RoomAfterBan

-----------------------------------------------------------------------------
(* Reading back a dict after an assignment, a deletion, a collection.      *)
LEMMA GetPut ==
  ASSUME NEW bs, NEW k, NEW b, NEW x
  PROVE  Get(Put(bs, k, b), x) = IF x = k THEN b ELSE Get(bs, x)
BY DEF Get, Put

LEMMA GetDrop ==
  ASSUME NEW bs, NEW ks, NEW x
  PROVE  Get(Drop(bs, ks), x) = IF x \in ks THEN {} ELSE Get(bs, x)
BY DEF Get, Drop

LEMMA GetCollect ==
  ASSUME NEW bs, NEW c, NEW x
  PROVE  \/ Get(Collect(bs, c), x) = Get(bs, x)
         \/ /\ Get(Collect(bs, c), x) = {}
            /\ x \in Abandoned(bs, c)
<1>1. CASE Collect(bs, c) = bs
  BY <1>1
<1>2. CASE Collect(bs, c) = Drop(bs, Abandoned(bs, c))
  BY <1>2, GetDrop
<1> QED BY <1>1, <1>2 DEF Collect

LEMMA CollectDomain ==
  ASSUME NEW bs, NEW c
  PROVE  DOMAIN Collect(bs, c) \subseteq DOMAIN bs
BY DEF Collect, Drop

LEMMA PutDomain ==
  ASSUME NEW bs, NEW k, NEW b
  PROVE  DOMAIN Put(bs, k, b) = DOMAIN bs \cup {k}
BY DEF Put

(* A subset of a finite set is finite and no larger.                       *)
LEMMA Smaller ==
  ASSUME NEW S, IsFiniteSet(S), NEW T, T \subseteq S
  PROVE  IsFiniteSet(T) /\ Cardinality(T) <= Cardinality(S)
                        /\ Cardinality(T) \in Nat /\ Cardinality(S) \in Nat
BY FS_Subset, FS_CardinalityType

(* One more element.                                                       *)
LEMMA OneMore ==
  ASSUME NEW S, IsFiniteSet(S), NEW x
  PROVE  /\ IsFiniteSet(S \cup {x})
         /\ Cardinality(S) \in Nat /\ Cardinality(S \cup {x}) \in Nat
         /\ Cardinality(S \cup {x}) <= Cardinality(S) + 1
         /\ x \notin S => Cardinality(S \cup {x}) = Cardinality(S) + 1
<1>1. IsFiniteSet(S \cup {x})
  BY FS_AddElement
<1>2. Cardinality(S) \in Nat /\ Cardinality(S \cup {x}) \in Nat
  BY <1>1, FS_CardinalityType
<1>3. Cardinality(S \cup {x}) = IF x \in S THEN Cardinality(S) ELSE Cardinality(S) + 1
  BY FS_AddElement
<1> QED BY <1>1, <1>2, <1>3

-----------------------------------------------------------------------------
LEMMA InitIInv == Init => IInv
<1> SUFFICES ASSUME Init PROVE IInv
  OBVIOUS
<1>. USE DEF Init, BucketOf, Get
<1>1. TypeOK
  BY LimitAssumption DEF TypeOK, NoTime
<1>2. StampsRecent /\ LiveAttemptsKept /\ SlidingWindow /\ RoomAfterBan
  BY DEF StampsRecent, LiveAttemptsKept, SlidingWindow, RoomAfterBan
<1>3. HistoryOrdered /\ BucketsBounded
  BY FS_EmptySet, MaxAssumption DEF HistoryOrdered, BucketsBounded
<1> QED BY <1>1, <1>2, <1>3 DEF IInv

(* What an admission does to the buckets: the caller's own bucket grows by *)
(* the new entry and survives the collection; any other is unchanged, or   *)
(* deleted because its newest attempt is out of the window.                *)
LEMMA AdmitBuckets ==
  ASSUME IInv, NEW t \in Threads, Admit(t)
  PROVE  LET k      == key[t]
             cutoff == now[t] - Window
             live   == Unexpired(BucketOf(k), cutoff)
             entry  == [n |-> Cardinality(admitted[k]) + 1, at |-> now[t]]
         IN  /\ k \in Keys /\ entry \in Entry /\ now[t] \in Nat
             /\ live \subseteq BucketOf(k) /\ IsFiniteSet(live)
             /\ entry \notin admitted[k]
             /\ IsFiniteSet(admitted[k]) /\ Cardinality(admitted[k]) \in Nat
             /\ Get(buckets', k) = live \cup {entry}
             /\ \A x \in Keys \ {k} :
                  \/ Get(buckets', x) = BucketOf(x)
                  \/ /\ Get(buckets', x) = {}
                     /\ \A a \in BucketOf(x) : a.at < cutoff + Delay
<1> DEFINE k      == key[t]
           cutoff == now[t] - Window
           live   == Unexpired(BucketOf(k), cutoff)
           entry  == [n |-> Cardinality(admitted[k]) + 1, at |-> now[t]]
           put    == Put(buckets, k, live \cup {entry})
<1>1. k \in Keys /\ now[t] \in Nat /\ clock \in Nat
  BY DEF IInv, TypeOK, Admit
<1>2. IsFiniteSet(admitted[k]) /\ Cardinality(admitted[k]) \in Nat
  BY <1>1, FS_CardinalityType DEF IInv, HistoryOrdered
<1>3. entry \in Entry
  BY <1>1, <1>2 DEF Entry
<1>4. entry \notin admitted[k]
  BY <1>1, <1>2 DEF IInv, HistoryOrdered
<1>5. live \subseteq BucketOf(k) /\ live \subseteq admitted[k]
  BY <1>1 DEF IInv, BucketsBounded, Unexpired
<1>6. IsFiniteSet(live)
  BY <1>2, <1>5, Smaller
<1>7. buckets' = Collect(put, cutoff)
  BY DEF Admit
<1>8. \A x : Get(put, x) = IF x = k THEN live \cup {entry} ELSE BucketOf(x)
  BY GetPut DEF BucketOf
<1>9. \A x : \/ Get(buckets', x) = Get(put, x)
             \/ Get(buckets', x) = {} /\ x \in Abandoned(put, cutoff)
  BY <1>7, GetCollect
<1>10. \A x \in Abandoned(put, cutoff) :
          \/ Get(put, x) = {}
          \/ \E e \in Get(put, x) : IsLast(e, Get(put, x)) /\ e.at < cutoff
  BY DEF Abandoned, Get
<1>11. k \notin Abandoned(put, cutoff)
  <2> SUFFICES ASSUME k \in Abandoned(put, cutoff) PROVE FALSE
    OBVIOUS
  <2>1. PICK e \in live \cup {entry} : IsLast(e, live \cup {entry}) /\ e.at < cutoff
    BY <1>8, <1>10
  <2>2. entry.n <= e.n
    BY <2>1 DEF IsLast
  <2>3. e = entry
    BY <2>1, <2>2, <1>1, <1>2, <1>5 DEF IInv, TypeOK, HistoryOrdered, Entry
  <2> QED BY <2>1, <2>3, <1>1, WindowAssumption
<1>12. Get(buckets', k) = live \cup {entry}
  BY <1>8, <1>9, <1>11
<1>13. ASSUME NEW x \in Keys \ {k}
       PROVE  \/ Get(buckets', x) = BucketOf(x)
              \/ /\ Get(buckets', x) = {}
                 /\ \A a \in BucketOf(x) : a.at < cutoff + Delay
  <2>1. CASE Get(buckets', x) = Get(put, x)
    BY <2>1, <1>8
  <2>2. CASE Get(buckets', x) = {} /\ x \in Abandoned(put, cutoff)
    <3>1. BucketOf(x) = Get(put, x)
      BY <1>8
    <3>2. CASE BucketOf(x) = {}
      BY <2>2, <3>2
    <3>3. ASSUME NEW e \in BucketOf(x), IsLast(e, BucketOf(x)), e.at < cutoff,
                 NEW a \in BucketOf(x)
          PROVE  a.at < cutoff + Delay
      <4>1. a \in admitted[x] /\ e \in admitted[x] /\ a.n <= e.n
        BY <3>3 DEF IInv, BucketsBounded, IsLast
      <4>2. a.at <= e.at + Delay
        BY <4>1 DEF IInv, HistoryOrdered
      <4>3. a.at \in Nat /\ e.at \in Nat
        BY <4>1 DEF IInv, TypeOK, Entry
      <4> QED BY <4>2, <4>3, <3>3, <1>1, WindowAssumption, DelayAssumption
    <3> QED BY <2>2, <1>10, <3>1, <3>2, <3>3
  <2> QED BY <2>1, <2>2, <1>9
<1> QED BY <1>1, <1>2, <1>3, <1>4, <1>5, <1>6, <1>12, <1>13


(* An admission preserves the invariant.  The heart is <1>5: an attempt    *)
(* within Span of the new stamp cannot have been forgotten, so it is in    *)
(* the bucket, and the bucket had fewer than Max entries.                  *)
LEMMA AdmitIInv == ASSUME IInv, NEW t \in Threads, Admit(t) PROVE IInv'
<1> DEFINE k      == key[t]
           cutoff == now[t] - Window
           live   == Unexpired(BucketOf(k), cutoff)
           entry  == [n |-> Cardinality(admitted[k]) + 1, at |-> now[t]]
<1>a. /\ k \in Keys /\ entry \in Entry /\ now[t] \in Nat
      /\ live \subseteq BucketOf(k) /\ IsFiniteSet(live)
      /\ entry \notin admitted[k]
      /\ IsFiniteSet(admitted[k]) /\ Cardinality(admitted[k]) \in Nat
      /\ Get(buckets', k) = live \cup {entry}
  BY AdmitBuckets
<1>b. \A x \in Keys \ {k} :
        \/ Get(buckets', x) = BucketOf(x)
        \/ /\ Get(buckets', x) = {}
           /\ \A a \in BucketOf(x) : a.at < cutoff + Delay
  BY AdmitBuckets
<1>c. /\ clock' = clock /\ key' = key /\ now' = now
      /\ pc' = [pc EXCEPT ![t] = "allowed"]
      /\ admitted' = [admitted EXCEPT ![k] = @ \cup {entry}]
      /\ ban' = [ban EXCEPT ![k] = NoTime]
      /\ pc[t] = "stamped" /\ Cardinality(live) < Max
  BY DEF Admit
<1>d. /\ admitted'[k] = admitted[k] \cup {entry}
      /\ \A x \in Keys \ {k} : admitted'[x] = admitted[x]
      /\ ban'[k] = NoTime
      /\ \A x \in Keys \ {k} : ban'[x] = ban[x]
  BY <1>a, <1>c DEF IInv, TypeOK
<1>e. now[t] <= clock /\ clock <= now[t] + Delay /\ clock \in Nat
  BY <1>c DEF IInv, StampsRecent, TypeOK
<1>f. Cardinality(live) \in Nat
  BY <1>a, FS_CardinalityType
<1>g. \A x \in Keys : admitted[x] \subseteq Entry
  BY DEF IInv, TypeOK
<1>1. TypeOK'
  <2>1. DOMAIN buckets' \subseteq Keys /\ \A x \in DOMAIN buckets' : buckets'[x] \in SUBSET Entry
    <3>1. DOMAIN buckets' \subseteq Keys
      <4>1. buckets' = Collect(Put(buckets, k, live \cup {entry}), cutoff)
        BY DEF Admit
      <4>2. DOMAIN buckets \subseteq Keys
        BY DEF IInv, TypeOK
      <4> DEFINE put == Put(buckets, k, live \cup {entry})
      <4>3. DOMAIN put = DOMAIN buckets \cup {k}
        BY PutDomain
      <4>4. DOMAIN buckets' \subseteq DOMAIN put
        <5> HIDE DEF put
        <5> QED BY <4>1, CollectDomain DEF put
      <4> HIDE DEF put
      <4> QED BY <1>a, <4>2, <4>3, <4>4
    <3>2. \A x \in DOMAIN buckets' : buckets'[x] = Get(buckets', x)
      BY DEF Get
    <3>3. \A x \in Keys : BucketOf(x) \subseteq Entry
      BY DEF BucketOf, Get, IInv, TypeOK
    <3> QED BY <3>1, <3>2, <3>3, <1>a, <1>b
  <2>2. admitted' \in [Keys -> SUBSET Entry]
    BY <1>a, <1>c DEF IInv, TypeOK
  <2>3. ban' \in [Keys -> Nat]
    BY <1>c DEF IInv, TypeOK, NoTime
  <2> QED BY <1>c, <2>1, <2>2, <2>3 DEF IInv, TypeOK
<1>2. StampsRecent'
  BY <1>c DEF IInv, StampsRecent, TypeOK
<1>3. HistoryOrdered'
  <2>1. ASSUME NEW x \in Keys \ {k}
        PROVE  /\ IsFiniteSet(admitted'[x])
               /\ \A a \in admitted'[x] : a.at <= clock' /\ a.n <= Cardinality(admitted'[x])
               /\ \A a, b \in admitted'[x] : a.n <= b.n => a.at <= b.at + Delay
    BY <1>c, <1>d DEF IInv, HistoryOrdered
  <2>2. IsFiniteSet(admitted'[k]) /\ Cardinality(admitted'[k]) = Cardinality(admitted[k]) + 1
    <3> DEFINE log == admitted[k]
    <3>1. IsFiniteSet(log) /\ entry \notin log /\ admitted'[k] = log \cup {entry}
      BY <1>a, <1>d
    <3> HIDE DEF k, live, entry, log
    <3>2. IsFiniteSet(log \cup {entry}) /\ Cardinality(log \cup {entry}) = Cardinality(log) + 1
      BY <3>1, OneMore
    <3> QED BY <3>1, <3>2 DEF log
  <2>3. /\ \A a \in admitted[k] : a.at <= clock /\ a.n <= Cardinality(admitted[k])
        /\ \A a, b \in admitted[k] : a.n <= b.n => a.at <= b.at + Delay
    BY <1>a DEF IInv, HistoryOrdered
  <2>4. \A a \in admitted'[k] : a.at <= clock' /\ a.n <= Cardinality(admitted'[k])
    BY <1>a, <1>c, <1>d, <1>e, <1>g, <2>2, <2>3 DEF Entry
  <2>5. \A a, b \in admitted'[k] : a.n <= b.n => a.at <= b.at + Delay
    BY <1>a, <1>d, <1>e, <1>g, <2>3, DelayAssumption DEF Entry
  <2> QED BY <2>1, <2>2, <2>4, <2>5 DEF HistoryOrdered
<1>4. BucketsBounded' /\ LiveAttemptsKept'
  <2>1. ASSUME NEW x \in Keys
        PROVE  /\ Get(buckets', x) \subseteq admitted'[x]
               /\ Cardinality(Get(buckets', x)) <= Max
    <3>1. CASE x = k
      <4>1. /\ Cardinality(live \cup {entry}) <= Cardinality(live) + 1
            /\ Cardinality(live \cup {entry}) \in Nat
        <5> HIDE DEF live, entry
        <5> QED BY <1>a, OneMore
      <4>2. BucketOf(k) \subseteq admitted[k]
        BY <1>a DEF IInv, BucketsBounded
      <4> QED BY <3>1, <4>1, <4>2, <1>a, <1>c, <1>d, <1>f, MaxAssumption
    <3>2. CASE x # k
      <4>1. /\ BucketOf(x) \subseteq admitted'[x] /\ Cardinality(BucketOf(x)) <= Max
        BY <3>2, <1>d DEF IInv, BucketsBounded
      <4>2. Get(buckets', x) = BucketOf(x) \/ Get(buckets', x) = {}
        BY <3>2, <1>b
      <4> QED BY <4>1, <4>2, FS_EmptySet, MaxAssumption
    <3> QED BY <3>1, <3>2
  <2>2. ASSUME NEW x \in Keys, NEW a \in admitted'[x] \ Get(buckets', x)
        PROVE  a.at <= clock' - Window + Delay
    <3>1. a \in admitted[x] /\ a.at \in Nat
      BY <1>a, <1>d, <1>g DEF Entry
    <3>2. CASE a \notin BucketOf(x)
      BY <3>1, <3>2, <1>c DEF IInv, LiveAttemptsKept
    <3>3. CASE a \in BucketOf(x) /\ x = k
      <4>1. a \notin live
        BY <3>3, <1>a
      <4>2. ~(a.at > cutoff)
        BY <3>3, <4>1 DEF Unexpired
      <4> QED BY <3>1, <4>2, <1>a, <1>c, <1>e, WindowAssumption, DelayAssumption
    <3>4. CASE a \in BucketOf(x) /\ x # k
      <4>1. a.at < cutoff + Delay
        BY <3>4, <1>b
      <4> QED BY <3>1, <4>1, <1>a, <1>c, <1>e, WindowAssumption, DelayAssumption
    <3> QED BY <3>2, <3>3, <3>4
  <2> QED BY <2>1, <2>2 DEF BucketsBounded, LiveAttemptsKept, BucketOf
<1>5. SlidingWindow'
  <2>1. ASSUME NEW x \in Keys \ {k}, NEW e \in admitted'[x]
        PROVE  Cardinality({a \in admitted'[x] : InSpan(a, e)}) <= Max
    BY <1>d DEF IInv, SlidingWindow
  <2>2. ASSUME NEW e \in admitted'[k]
        PROVE  Cardinality({a \in admitted'[k] : InSpan(a, e)}) <= Max
    <3> DEFINE A == {a \in admitted'[k] : InSpan(a, e)}
    <3>1. e.at \in Nat /\ \A a \in admitted[k] : a.at \in Nat
      BY <1>a, <1>d, <1>g DEF Entry
    <3>2. CASE ~InSpan(entry, e)
      <4>1. CASE e = entry
        <5>1. Span <= 0
          BY <3>2, <4>1, <1>a, WindowAssumption, DelayAssumption DEF InSpan, Span
        <5>2. A = {}
          BY <1>a, <1>d, <3>1, <5>1, WindowAssumption, DelayAssumption DEF InSpan, Span
        <5> QED BY <5>2, FS_EmptySet, MaxAssumption
      <4>2. CASE e # entry
        <5>1. e \in admitted[k]
          BY <4>2, <1>d
        <5>2. A = {a \in admitted[k] : InSpan(a, e)}
          BY <3>2, <1>d
        <5> QED BY <5>1, <5>2, <1>a DEF IInv, SlidingWindow
      <4> QED BY <4>1, <4>2
    <3>3. CASE InSpan(entry, e)
      <4>1. ASSUME NEW a \in A, a # entry
            PROVE  a \in live
        <5>1. a \in admitted[k] /\ InSpan(a, e)
          BY <4>1, <1>d
        <5>2. a.at > now[t] - Span
          BY <3>1, <3>3, <5>1, <1>a, WindowAssumption, DelayAssumption DEF InSpan, Span
        <5>3. a.at > clock - Window + Delay
          BY <3>1, <5>1, <5>2, <1>a, <1>e, WindowAssumption, DelayAssumption DEF Span
        <5>4. a \in BucketOf(k)
          BY <3>1, <5>1, <5>3, <1>a, <1>e, WindowAssumption, DelayAssumption
          DEF IInv, LiveAttemptsKept
        <5>5. a.at > cutoff
          BY <3>1, <5>1, <5>2, <1>a, WindowAssumption, DelayAssumption DEF Span
        <5> QED BY <5>4, <5>5 DEF Unexpired
      <4>2. A \subseteq live \cup {entry}
        BY <4>1
      <4>3. IsFiniteSet(live \cup {entry}) /\ Cardinality(live \cup {entry}) <= Cardinality(live) + 1
        <5> HIDE DEF live, entry
        <5> QED BY <1>a, OneMore
      <4>4. /\ Cardinality(A) <= Cardinality(live \cup {entry})
            /\ Cardinality(A) \in Nat /\ Cardinality(live \cup {entry}) \in Nat
        BY <4>2, <4>3, Smaller
      <4> QED BY <4>3, <4>4, <1>c, <1>f, MaxAssumption
    <3> QED BY <3>2, <3>3
  <2>3. \A x, a, e : InSpan(a, e)' = InSpan(a, e)
    BY DEF InSpan, Span
  <2> QED BY <2>1, <2>2 DEF SlidingWindow, InSpan, Span
<1>6. RoomAfterBan'
  <2>1. ASSUME NEW x \in Keys, ban'[x] # NoTime
        PROVE  Cardinality(Unexpired(Get(buckets', x), ban'[x] + Second - Window)) < Max
    <3>1. x # k /\ ban'[x] = ban[x]
      BY <2>1, <1>d
    <3>2. Cardinality(Unexpired(BucketOf(x), ban[x] + Second - Window)) < Max
      BY <2>1, <3>1 DEF IInv, RoomAfterBan
    <3>3. Unexpired({}, ban[x] + Second - Window) = {}
      BY DEF Unexpired
    <3>4. Get(buckets', x) = BucketOf(x) \/ Get(buckets', x) = {}
      BY <3>1, <1>b
    <3>5. CASE Get(buckets', x) = BucketOf(x)
      BY <3>1, <3>2, <3>5
    <3>6. CASE Get(buckets', x) = {}
      <4>1. Cardinality(Unexpired({}, ban[x] + Second - Window)) = 0
        BY <3>3, FS_EmptySet
      <4> QED BY <3>1, <3>6, <4>1, MaxAssumption
    <3> QED BY <3>4, <3>5, <3>6
  <2> QED BY <2>1 DEF RoomAfterBan, BucketOf, Unexpired
<1> QED BY <1>1, <1>2, <1>3, <1>4, <1>5, <1>6 DEF IInv


(* What a client is told of a wait is a whole number of seconds and less   *)
(* than a second short of it.                                              *)
LEMMA ToldInSeconds ==
  ASSUME NEW wait \in Nat
  PROVE  Told(wait) \in Nat /\ Told(wait) <= wait /\ wait < Told(wait) + Second
<1>1. wait % Second \in 0 .. Second - 1 /\ wait % Second <= wait
  BY SecondAssumption
<1> QED BY <1>1, SecondAssumption DEF Told

(* A refusal preserves the invariant: the bucket only loses entries that   *)
(* are out of the window, and the wait it tells ends when its first entry  *)
(* expires.                                                                *)
LEMMA RejectIInv == ASSUME IInv, NEW t \in Threads, Reject(t) PROVE IInv'
<1> DEFINE k    == key[t]
           live == Unexpired(BucketOf(k), now[t] - Window)
<1>1. PICK e \in live :
        /\ IsFirst(e, live)
        /\ ban' = [ban EXCEPT ![k] = now[t] + Told(e.at + Window - now[t])]
  BY DEF Reject
<1>2. /\ clock' = clock /\ key' = key /\ now' = now /\ admitted' = admitted
      /\ pc' = [pc EXCEPT ![t] = "rejected"]
      /\ buckets' = Put(buckets, k, live)
      /\ pc[t] = "stamped" /\ Cardinality(live) >= Max
  BY DEF Reject
<1>3. k \in Keys /\ now[t] \in Nat /\ clock \in Nat /\ now[t] <= clock
  BY <1>2 DEF IInv, TypeOK, StampsRecent
<1>4. live \subseteq BucketOf(k) /\ BucketOf(k) \subseteq admitted[k] /\ e \in Entry
  BY <1>1, <1>3 DEF Unexpired, IInv, BucketsBounded, TypeOK
<1>5. Get(buckets', k) = live /\ \A x \in Keys \ {k} : Get(buckets', x) = BucketOf(x)
  BY <1>2, GetPut DEF BucketOf
<1>6. /\ IsFiniteSet(BucketOf(k)) /\ IsFiniteSet(live)
      /\ Cardinality(live) \in Nat /\ Cardinality(live) <= Max
  <2>1. IsFiniteSet(admitted[k]) /\ Cardinality(BucketOf(k)) <= Max
    BY <1>3 DEF IInv, HistoryOrdered, BucketsBounded
  <2>2. IsFiniteSet(BucketOf(k)) /\ Cardinality(BucketOf(k)) \in Nat
    BY <1>4, <2>1, Smaller
  <2>3. IsFiniteSet(live) /\ Cardinality(live) <= Cardinality(BucketOf(k)) /\ Cardinality(live) \in Nat
    BY <1>4, <2>2, Smaller
  <2> QED BY <2>1, <2>2, <2>3, MaxAssumption
<1>0. LET wait == e.at + Window - now[t]
      IN  Told(wait) \in Nat /\ Told(wait) <= wait /\ wait < Told(wait) + Second
  <2>1. e.at + Window - now[t] \in Nat
    <3>1. e.at > now[t] - Window
      BY <1>1 DEF Unexpired
    <3> QED BY <3>1, <1>3, <1>4, WindowAssumption DEF Entry
  <2> QED BY <2>1, ToldInSeconds
<1>7. TypeOK'
  <2>1. DOMAIN buckets' \subseteq Keys /\ \A x \in DOMAIN buckets' : buckets'[x] \in SUBSET Entry
    <3>1. DOMAIN buckets' \subseteq Keys
      <4>1. DOMAIN buckets' = DOMAIN buckets \cup {k}
        BY <1>2, PutDomain
      <4> QED BY <4>1, <1>3 DEF IInv, TypeOK
    <3>2. \A x \in DOMAIN buckets' : buckets'[x] = Get(buckets', x)
      BY DEF Get
    <3>3. \A x \in Keys : BucketOf(x) \subseteq Entry
      BY DEF BucketOf, Get, IInv, TypeOK
    <3> QED BY <3>1, <3>2, <3>3, <1>4, <1>5
  <2>2. ban' \in [Keys -> Nat]
    <3>1. now[t] + Told(e.at + Window - now[t]) \in Nat
      BY <1>0, <1>3
    <3> HIDE DEF k, live
    <3> QED BY <1>1, <1>3, <3>1 DEF IInv, TypeOK
  <2> QED BY <1>2, <2>1, <2>2 DEF IInv, TypeOK
<1>8. StampsRecent' /\ HistoryOrdered' /\ SlidingWindow'
  BY <1>2 DEF IInv, TypeOK, StampsRecent, HistoryOrdered, SlidingWindow, InSpan, Span
<1>9. BucketsBounded'
  BY <1>2, <1>4, <1>5, <1>6 DEF IInv, BucketsBounded, BucketOf
<1>10. LiveAttemptsKept'
  <2>1. ASSUME NEW x \in Keys, NEW a \in admitted[x] \ Get(buckets', x)
        PROVE  a.at <= clock - Window + Delay
    <3>1. CASE a \notin BucketOf(x)
      BY <3>1 DEF IInv, LiveAttemptsKept
    <3>2. CASE a \in BucketOf(x)
      <4>1. x = k /\ a \notin live /\ a.at \in Nat
        BY <2>1, <3>2, <1>5 DEF IInv, TypeOK, Entry
      <4>2. ~(a.at > now[t] - Window)
        BY <3>2, <4>1 DEF Unexpired
      <4> QED BY <4>1, <4>2, <1>3, WindowAssumption, DelayAssumption
    <3> QED BY <3>1, <3>2
  <2> QED BY <2>1, <1>2 DEF LiveAttemptsKept, BucketOf
<1>11. RoomAfterBan'
  <2>1. ASSUME NEW x \in Keys \ {k}, ban'[x] # NoTime
        PROVE  Cardinality(Unexpired(Get(buckets', x), ban'[x] + Second - Window)) < Max
    <3>1. ban'[x] = ban[x]
      BY <1>1 DEF IInv, TypeOK
    <3> QED BY <2>1, <3>1, <1>5 DEF IInv, RoomAfterBan
  <2>2. Cardinality(Unexpired(Get(buckets', k), ban'[k] + Second - Window)) < Max
    <3> DEFINE told == now[t] + Told(e.at + Window - now[t])
               room == Unexpired(live, told + Second - Window)
    <3>1. ban'[k] = told
      BY <1>1, <1>3 DEF IInv, TypeOK
    <3>2. room \subseteq live \ {e}
      <4>1. e.at < told + Second - Window
        BY <1>0, <1>3, <1>4, WindowAssumption, SecondAssumption DEF Entry
      <4>2. e.at \in Nat /\ told \in Nat
        BY <1>0, <1>3, <1>4 DEF Entry
      <4> HIDE DEF told
      <4> QED BY <4>1, <4>2, WindowAssumption, SecondAssumption DEF Unexpired
    <3>3. IsFiniteSet(live \ {e}) /\ Cardinality(live \ {e}) = Cardinality(live) - 1
      <4> HIDE DEF live
      <4> QED BY <1>1, <1>6, FS_RemoveElement
    <3>4. Cardinality(room) <= Cardinality(live \ {e}) /\ Cardinality(room) \in Nat
      <4> HIDE DEF live, room
      <4> QED BY <3>2, <3>3, Smaller
    <3> QED BY <3>1, <3>3, <3>4, <1>5, <1>6, MaxAssumption
  <2> QED BY <2>1, <2>2 DEF RoomAfterBan, BucketOf, Unexpired
<1> QED BY <1>7, <1>8, <1>9, <1>10, <1>11 DEF IInv


(* A reset empties the bucket and the history of one key together.         *)
LEMMA ResetIInv == ASSUME IInv, NEW t \in Threads, Reset(t) PROVE IInv'
<1> DEFINE k == key[t]
<1>1. /\ clock' = clock /\ key' = [key EXCEPT ![t] = NoKey]
      /\ pc' = [pc EXCEPT ![t] = "idle"] /\ now' = [now EXCEPT ![t] = NoTime]
      /\ buckets' = Drop(buckets, {k})
      /\ admitted' = [admitted EXCEPT ![k] = {}]
      /\ ban' = [ban EXCEPT ![k] = NoTime]
  BY DEF Reset
<1>2. k \in Keys
  BY DEF Reset, IInv, TypeOK
<1>3. /\ Get(buckets', k) = {} /\ \A x \in Keys \ {k} : Get(buckets', x) = BucketOf(x)
      /\ admitted'[k] = {} /\ \A x \in Keys \ {k} : admitted'[x] = admitted[x]
      /\ ban'[k] = NoTime /\ \A x \in Keys \ {k} : ban'[x] = ban[x]
  BY <1>1, <1>2, GetDrop DEF BucketOf, IInv, TypeOK
<1>4. TypeOK'
  <2>1. DOMAIN buckets' \subseteq Keys /\ \A x \in DOMAIN buckets' : buckets'[x] \in SUBSET Entry
    BY <1>1 DEF Drop, IInv, TypeOK
  <2>2. admitted' \in [Keys -> SUBSET Entry] /\ ban' \in [Keys -> Nat]
    BY <1>1, <1>2 DEF IInv, TypeOK, NoTime
  <2> QED BY <1>1, <2>1, <2>2 DEF IInv, TypeOK, NoTime
<1>5. StampsRecent'
  BY <1>1 DEF IInv, TypeOK, StampsRecent
<1>6. HistoryOrdered'
  BY <1>1, <1>3, FS_EmptySet DEF IInv, HistoryOrdered
<1>7. BucketsBounded'
  <2>1. ASSUME NEW x \in Keys
        PROVE  Get(buckets', x) \subseteq admitted'[x] /\ Cardinality(Get(buckets', x)) <= Max
    <3>1. CASE x = k
      BY <3>1, <1>3, FS_EmptySet, MaxAssumption
    <3>2. CASE x # k
      BY <3>2, <1>3 DEF IInv, BucketsBounded
    <3> QED BY <3>1, <3>2
  <2> QED BY <2>1 DEF BucketsBounded, BucketOf
<1>8. LiveAttemptsKept'
  BY <1>1, <1>3 DEF IInv, LiveAttemptsKept, BucketOf
<1>9. SlidingWindow'
  BY <1>3 DEF IInv, SlidingWindow, InSpan, Span
<1>10. RoomAfterBan'
  BY <1>3 DEF IInv, RoomAfterBan, BucketOf, Unexpired
<1> QED BY <1>4, <1>5, <1>6, <1>7, <1>8, <1>9, <1>10 DEF IInv

(* The invariant is inductive.                                             *)
LEMMA NextIInv == IInv /\ [Next]_vars => IInv'
<1> SUFFICES ASSUME IInv, [Next]_vars PROVE IInv'
  OBVIOUS
<1>. USE DEF IInv, BucketOf
<1>1. CASE Tick
  <2>1. TypeOK' /\ StampsRecent'
    BY <1>1, DelayAssumption DEF Tick, TypeOK, StampsRecent
  <2>2. HistoryOrdered'
    <3>1. clock' = clock + 1 /\ clock \in Nat /\ admitted' = admitted
      BY <1>1 DEF Tick, TypeOK
    <3>2. \A k \in Keys : \A a \in admitted[k] : a.at \in Nat
      BY DEF TypeOK, Entry
    <3> QED BY <3>1, <3>2 DEF HistoryOrdered
  <2>3. BucketsBounded' /\ SlidingWindow' /\ RoomAfterBan'
    BY <1>1 DEF Tick, BucketsBounded, SlidingWindow, InSpan, Span, RoomAfterBan, Unexpired
  <2>4. LiveAttemptsKept'
    <3>1. /\ clock' = clock + 1 /\ clock \in Nat /\ admitted' = admitted
          /\ buckets' = buckets
      BY <1>1 DEF Tick, TypeOK
    <3>2. \A k \in Keys : \A a \in admitted[k] : a.at \in Nat
      BY DEF TypeOK, Entry
    <3> QED BY <3>1, <3>2, WindowAssumption, DelayAssumption DEF LiveAttemptsKept
  <2> QED BY <2>1, <2>2, <2>3, <2>4
<1>2. ASSUME NEW t \in Threads, NEW k \in Keys, ReadClock(t, k) PROVE IInv'
  <2>1. TypeOK' /\ StampsRecent'
    BY <1>2, DelayAssumption DEF ReadClock, TypeOK, StampsRecent
  <2>2. UNCHANGED <<clock, buckets, admitted, ban>>
    BY <1>2 DEF ReadClock
  <2> QED BY <2>1, <2>2
      DEF HistoryOrdered, BucketsBounded, LiveAttemptsKept, SlidingWindow, InSpan, Span,
          RoomAfterBan, Unexpired
<1>3. ASSUME NEW t \in Threads, Admit(t) PROVE IInv'
  BY <1>3, AdmitIInv
<1>4. ASSUME NEW t \in Threads, Reject(t) PROVE IInv'
  BY <1>4, RejectIInv
<1>5. ASSUME NEW t \in Threads, Reset(t) PROVE IInv'
  BY <1>5, ResetIInv
<1>6. ASSUME NEW t \in Threads, Leave(t) PROVE IInv'
  <2>1. TypeOK' /\ StampsRecent'
    BY <1>6 DEF Leave, TypeOK, StampsRecent, NoTime
  <2>2. UNCHANGED <<clock, buckets, admitted, ban>>
    BY <1>6 DEF Leave
  <2> QED BY <2>1, <2>2
      DEF HistoryOrdered, BucketsBounded, LiveAttemptsKept, SlidingWindow, InSpan, Span,
          RoomAfterBan, Unexpired
<1>7. CASE UNCHANGED vars
  BY <1>7 DEF vars, TypeOK, StampsRecent, HistoryOrdered, BucketsBounded, LiveAttemptsKept,
              SlidingWindow, InSpan, Span, RoomAfterBan, Unexpired
<1> QED BY <1>1, <1>2, <1>3, <1>4, <1>5, <1>6, <1>7 DEF Next

(* The inductive invariant holds in every reachable state of the limiter.  *)
THEOREM InductiveInvariant == Spec => []IInv
BY InitIInv, NextIInv, PTL DEF Spec

(* Buckets, stamps and histories keep their types.                         *)
THEOREM TypeCorrect == Spec => []TypeOK
<1>1. IInv => TypeOK
  BY DEF IInv
<1> QED BY <1>1, InductiveInvariant, PTL

(* The limiter limits: between two resets no Span ticks contain more than  *)
(* Max admitted attempts of a key, whatever the threads and the collection *)
(* do.                                                                     *)
THEOREM WindowRespected == Spec => []SlidingWindow
<1>1. IInv => SlidingWindow
  BY DEF IInv
<1> QED BY <1>1, InductiveInvariant, PTL

(* No attempt is dropped from its bucket, by expiry or by the collection   *)
(* that another key's call runs, before it is out of the window.           *)
THEOREM NothingForgotten == Spec => []LiveAttemptsKept
<1>1. IInv => LiveAttemptsKept
  BY DEF IInv
<1> QED BY <1>1, InductiveInvariant, PTL

(* A refused client that comes back a second after the whole seconds it    *)
(* was told is admitted, unless another attempt of its key was: refused    *)
(* attempts extend no ban, and the fraction the answer drops is all that   *)
(* it can be early by.                                                     *)
THEOREM BanNotExtended == Spec => BanEndsAsTold
<1>1. ASSUME IInv, [Next]_vars, NEW t \in Threads,
             pc[t] = "stamped", pc'[t] = "rejected"
      PROVE  ban[key[t]] = NoTime \/ now[t] < ban[key[t]] + Second
  <2>1. Reject(t)
    BY <1>1 DEF Next, vars, Tick, ReadClock, Admit, Reject, Reset, Leave, IInv, TypeOK
  <2> DEFINE k    == key[t]
             live == Unexpired(BucketOf(k), now[t] - Window)
             room == Unexpired(BucketOf(k), ban[k] + Second - Window)
  <2>2. SUFFICES ASSUME ban[k] # NoTime, now[t] >= ban[k] + Second PROVE FALSE
    BY <1>1, SecondAssumption DEF IInv, TypeOK
  <2>3. k \in Keys /\ now[t] \in Nat /\ ban[k] \in Nat
    BY <1>1 DEF IInv, TypeOK
  <2>4. Cardinality(live) >= Max
    BY <2>1 DEF Reject
  <2>5. Cardinality(room) < Max
    BY <1>1, <2>2, <2>3 DEF IInv, RoomAfterBan
  <2>6. live \subseteq room
    <3>1. \A a \in BucketOf(k) : a.at \in Nat
      BY <1>1, <2>3 DEF IInv, BucketsBounded, TypeOK, Entry
    <3> QED BY <2>2, <2>3, <3>1, WindowAssumption, SecondAssumption DEF Unexpired
  <2>7. IsFiniteSet(room)
    <3>1. room \subseteq admitted[k] /\ IsFiniteSet(admitted[k])
      BY <1>1, <2>3 DEF IInv, BucketsBounded, HistoryOrdered, Unexpired
    <3> HIDE DEF room
    <3> QED BY <3>1, Smaller
  <2>8. /\ Cardinality(live) <= Cardinality(room)
        /\ Cardinality(live) \in Nat /\ Cardinality(room) \in Nat
    <3> HIDE DEF live, room
    <3> QED BY <2>6, <2>7, Smaller
  <2> QED BY <2>4, <2>5, <2>8, MaxAssumption
<1>2. IInv /\ [Next]_vars =>
        [\A t \in Threads :
           pc[t] = "stamped" /\ pc'[t] = "rejected"
             => ban[key[t]] = NoTime \/ now[t] < ban[key[t]] + Second]_vars
  BY <1>1
<1> QED BY <1>2, InductiveInvariant, PTL DEF Spec, BanEndsAsTold


-----------------------------------------------------------------------------
(* The instance's cardinality is the cardinality.                          *)
LEMMA SameCardinality == \A S : Abstract!Cardinality(S) = Cardinality(S)
BY Zenon DEF Abstract!Cardinality, Cardinality

(* The unexpired part of a caller's bucket holds every attempt surely in   *)
(* the window, and none surely out of it.                                  *)
LEMMA BucketIsRecent ==
  ASSUME IInv, NEW t \in Threads, pc[t] = "stamped"
  PROVE  LET live == Unexpired(BucketOf(key[t]), now[t] - Window)
         IN  /\ key[t] \in Keys /\ now[t] \in clock - Delay .. clock
             /\ Abstract!Recent(key[t], Window - Delay) \subseteq live
             /\ live \subseteq Abstract!Recent(key[t], Window + Delay)
             /\ IsFiniteSet(live)
             /\ IsFiniteSet(Abstract!Recent(key[t], Window + Delay))
<1> DEFINE live == Unexpired(BucketOf(key[t]), now[t] - Window)
           sure == Abstract!Recent(key[t], Window - Delay)
           some == Abstract!Recent(key[t], Window + Delay)
<1>1. key[t] \in Keys /\ now[t] \in Nat /\ clock \in Nat
  BY DEF IInv, TypeOK
<1>2. now[t] <= clock /\ clock <= now[t] + Delay
  BY <1>1 DEF IInv, StampsRecent
<1>3. \A a \in admitted[key[t]] : a.at \in Nat
  BY <1>1 DEF IInv, TypeOK, Entry
<1>4. BucketOf(key[t]) \subseteq admitted[key[t]]
  BY <1>1 DEF IInv, BucketsBounded
<1>5. \A a \in admitted[key[t]] :
        a.at > clock - (Window - Delay) => a \in BucketOf(key[t])
  BY <1>1, <1>3, WindowAssumption, DelayAssumption DEF IInv, LiveAttemptsKept
<1>6. sure \subseteq live
  BY <1>1, <1>2, <1>3, <1>5, WindowAssumption, DelayAssumption DEF Unexpired, Abstract!Recent
<1>7. live \subseteq some
  BY <1>1, <1>2, <1>3, <1>4, WindowAssumption, DelayAssumption DEF Unexpired, Abstract!Recent
<1>8. IsFiniteSet(admitted[key[t]])
  BY <1>1 DEF IInv, HistoryOrdered
<1>9. some \subseteq admitted[key[t]]
  BY DEF Abstract!Recent
<1>10. IsFiniteSet(some)
  <2> HIDE DEF some
  <2> QED BY <1>8, <1>9, Smaller
<1>11. IsFiniteSet(live)
  <2> HIDE DEF live, some
  <2> QED BY <1>7, <1>10, Smaller
<1>12. now[t] \in clock - Delay .. clock
  BY <1>1, <1>2, DelayAssumption
<1> QED BY <1>1, <1>6, <1>7, <1>10, <1>11, <1>12

(* Every step of the limiter is a step of AttemptWindow or leaves its      *)
(* variables unchanged: expiry and collection are invisible in the         *)
(* verdicts.                                                               *)
LEMMA StepImplements ==
  ASSUME IInv, [Next]_vars
  PROVE  [Abstract!Next]_(Abstract!vars)
<1>. USE DEF Abstract!NoVerdict, Abstract!Verdict
<1>0. \A t \in Threads : Verdicts[t] =
        IF pc[t] \in {"allowed", "rejected"}
          THEN [key |-> key[t], answer |-> pc[t]]
          ELSE [key |-> NoKey, answer |-> "none"]
  BY DEF Verdicts
<1>1. CASE Tick
  BY <1>1 DEF Tick, Verdicts, Abstract!Next, Abstract!Tick
<1>2. ASSUME NEW t \in Threads, NEW k \in Keys, ReadClock(t, k)
      PROVE  UNCHANGED Abstract!vars
  <2>1. Verdicts' = Verdicts
    BY <1>2 DEF ReadClock, Verdicts, IInv, TypeOK
  <2> QED BY <1>2, <2>1 DEF ReadClock, Abstract!vars
<1>3. ASSUME NEW t \in Threads, Admit(t)
      PROVE  Abstract!Allow(t, key[t])
  <2> DEFINE live == Unexpired(BucketOf(key[t]), now[t] - Window)
             sure == Abstract!Recent(key[t], Window - Delay)
  <2>1. /\ key[t] \in Keys /\ now[t] \in clock - Delay .. clock
        /\ sure \subseteq live /\ IsFiniteSet(live)
    BY <1>3, BucketIsRecent DEF Admit
  <2>2. Verdicts' = [Verdicts EXCEPT ![t] = [key |-> key[t], answer |-> "allowed"]]
    BY <1>3 DEF Admit, Verdicts, IInv, TypeOK
  <2>3. Verdicts[t] = [key |-> NoKey, answer |-> "none"]
    BY <1>0, <1>3 DEF Admit
  <2>4. Cardinality(sure) < Max
    <3>1. Cardinality(live) < Max
      BY <1>3 DEF Admit
    <3> HIDE DEF live, sure
    <3>2. /\ Cardinality(sure) <= Cardinality(live)
          /\ Cardinality(sure) \in Nat /\ Cardinality(live) \in Nat
      BY <2>1, Smaller
    <3> QED BY <3>1, <3>2, MaxAssumption
  <2>5. /\ clock' = clock
        /\ admitted' = [admitted EXCEPT ![key[t]] =
             @ \cup {[n |-> Cardinality(admitted[key[t]]) + 1, at |-> now[t]]}]
    BY <1>3 DEF Admit
  <2> HIDE DEF live
  <2> QED BY <2>1, <2>2, <2>3, <2>4, <2>5, SameCardinality DEF Abstract!Allow
<1>4. ASSUME NEW t \in Threads, Reject(t)
      PROVE  Abstract!Refuse(t, key[t])
  <2> DEFINE live == Unexpired(BucketOf(key[t]), now[t] - Window)
             some == Abstract!Recent(key[t], Window + Delay)
  <2>1. key[t] \in Keys /\ live \subseteq some /\ IsFiniteSet(some)
    BY <1>4, BucketIsRecent DEF Reject
  <2>2. Verdicts' = [Verdicts EXCEPT ![t] = [key |-> key[t], answer |-> "rejected"]]
    BY <1>4 DEF Reject, Verdicts, IInv, TypeOK
  <2>3. Verdicts[t] = [key |-> NoKey, answer |-> "none"]
    BY <1>0, <1>4 DEF Reject
  <2>4. Cardinality(some) >= Max
    <3>1. Cardinality(live) >= Max
      BY <1>4 DEF Reject
    <3> HIDE DEF live, some
    <3>2. /\ Cardinality(live) <= Cardinality(some)
          /\ Cardinality(live) \in Nat /\ Cardinality(some) \in Nat
      BY <2>1, Smaller
    <3> QED BY <3>1, <3>2, MaxAssumption
  <2>5. clock' = clock /\ admitted' = admitted
    BY <1>4 DEF Reject
  <2> HIDE DEF live
  <2> QED BY <2>2, <2>3, <2>4, <2>5, SameCardinality DEF Abstract!Refuse
<1>5. ASSUME NEW t \in Threads, Reset(t) \/ Leave(t)
      PROVE  Abstract!Finish(t)
  <2>1. key[t] \in Keys /\ pc[t] \in {"allowed", "rejected"}
    BY <1>5 DEF Reset, Leave, IInv, TypeOK
  <2>2. Verdicts' = [Verdicts EXCEPT ![t] = [key |-> NoKey, answer |-> "none"]]
    BY <1>5 DEF Reset, Leave, Verdicts, IInv, TypeOK
  <2>3. Verdicts[t] = [key |-> key[t], answer |-> pc[t]]
    BY <1>0, <2>1, Zenon
  <2>4. Verdicts[t] # [key |-> NoKey, answer |-> "none"]
    BY <2>1, <2>3
  <2> QED BY <1>5, <2>2, <2>3, <2>4 DEF Reset, Leave, Abstract!Finish
<1>6. CASE UNCHANGED vars
  BY <1>6 DEF vars, Verdicts, Abstract!vars
<1>7. \A t \in Threads : Admit(t) \/ Reject(t) => key[t] \in Keys
  BY DEF Admit, Reject, IInv, TypeOK
<1> QED BY <1>1, <1>2, <1>3, <1>4, <1>5, <1>6, <1>7 DEF Next, Abstract!Next

(* The limiter implements AttemptWindow: to Delay ticks at the edge of the *)
(* window, and exactly when a thread never waits for the lock.             *)
THEOREM Refinement == Spec => ImplementsAttemptWindow
<1>1. Init => Abstract!Init
  BY DEF Init, Abstract!Init, Verdicts, Abstract!NoVerdict
<1>2. IInv /\ [Next]_vars => [Abstract!Next]_(Abstract!vars)
  BY StepImplements
<1> QED BY <1>1, <1>2, InductiveInvariant, PTL
        DEF Spec, ImplementsAttemptWindow, Abstract!Spec

=============================================================================
