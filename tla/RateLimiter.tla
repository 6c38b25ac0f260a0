---------------------------- MODULE RateLimiter ----------------------------
(***************************************************************************)
(* utils/ratelimit.py: the per-key sliding-window counter in front of the  *)
(* sign-in endpoints, used by the request threads of a threaded server.    *)
(*                                                                         *)
(* A call of check() reads the wall clock BEFORE it takes the lock, so     *)
(* that two calls may enter their critical sections in the opposite order  *)
(* of their time stamps.  Delay bounds how long a thread can sit between   *)
(* the two; with Delay = 0 stamps are in order.  Time is in whole ticks    *)
(* and does not run backwards (no clock adjustment is modelled).           *)
(*                                                                         *)
(* A bucket is the list self._buckets[key].  It is kept as a set of        *)
(* entries [n, at]: at is the stamp, n the position in which it was        *)
(* appended, so that attempts[0] is the entry of least n and v[-1] the one *)
(* of greatest n.                                                          *)
(***************************************************************************)
EXTENDS Integers, FiniteSets

CONSTANTS
  Keys,      \* client addresses
  NoKey,     \* no address: the thread is in no call
  Threads,   \* request threads
  Max,       \* max_attempts
  Window,    \* window_seconds, in ticks
  Second,    \* ticks of a second: a client is told whole seconds
  GcLimit,   \* number of buckets above which _gc runs (1024 in the code)
  Delay,     \* longest wait between reading the clock and holding the lock
  MaxClock   \* bound of the model: the clock stops here

ASSUME KeyAssumption    == NoKey \notin Keys
ASSUME MaxAssumption    == Max \in Nat \ {0}
ASSUME WindowAssumption == Window \in Nat \ {0}
ASSUME SecondAssumption == Second \in Nat \ {0}
ASSUME DelayAssumption  == Delay \in Nat
ASSUME LimitAssumption  == GcLimit \in Nat /\ MaxClock \in Nat

VARIABLES
  clock,     \* time.time()
  buckets,   \* self._buckets, a function whose domain is the known keys
  pc,        \* per thread: idle, stamped, allowed or rejected
  key,       \* per thread: the key of its call
  now,       \* per thread: the stamp of its call
  admitted,  \* history: per key, every entry admitted since its last reset
  ban        \* history: per key, the time at which its last refusal told it to
             \* come back, 0 when it was admitted or reset since

vars == <<clock, buckets, pc, key, now, admitted, ban>>

NoTime == 0
Entry  == [n : Nat, at : Nat]

-----------------------------------------------------------------------------
\* bs.get(k, []): the bucket of a key, empty for a key the dict lacks
Get(bs, k)  == IF k \in DOMAIN bs THEN bs[k] ELSE {}
BucketOf(k) == Get(buckets, k)

\* e is attempts[0], or v[-1], of bucket b
IsFirst(e, b) == e \in b /\ \A f \in b : e.n <= f.n
IsLast(e, b)  == e \in b /\ \A f \in b : f.n <= e.n

\* What the list comprehension under the lock leaves of a bucket.
UnexpiredInclusive(b, cutoff) == {e \in b : e.at >= cutoff} \* mutant
Unexpired(b, cutoff) == {e \in b : e.at > cutoff}

\* The keys _gc deletes: no attempt left, or the newest one has expired.
AbandonedByOldest(bs, cutoff) == \* mutant: v[0] in place of v[-1]
  {k \in DOMAIN bs :
     bs[k] = {} \/ \E e \in bs[k] : IsFirst(e, bs[k]) /\ e.at < cutoff}

Abandoned(bs, cutoff) ==
  {k \in DOMAIN bs :
     bs[k] = {} \/ \E e \in bs[k] : IsLast(e, bs[k]) /\ e.at < cutoff}

\* int(retry_in), in ticks: what is told of a wait has no fraction of a second.
Told(wait) == wait - (wait % Second)

\* A dict with one entry set, and with a set of keys deleted.
Put(bs, k, b) == [x \in DOMAIN bs \cup {k} |-> IF x = k THEN b ELSE bs[x]]
Drop(bs, ks)  == [x \in DOMAIN bs \ ks |-> bs[x]]

\* The dict after the periodic collection at the end of an admitted call.
Collect(bs, cutoff) ==
  IF Cardinality(DOMAIN bs) > GcLimit THEN Drop(bs, Abandoned(bs, cutoff)) ELSE bs

-----------------------------------------------------------------------------
Init ==
  /\ clock = 1
  /\ buckets = [k \in {} |-> {}]
  /\ pc = [t \in Threads |-> "idle"]
  /\ key = [t \in Threads |-> NoKey]
  /\ now = [t \in Threads |-> NoTime]
  /\ admitted = [k \in Keys |-> {}]
  /\ ban = [k \in Keys |-> NoTime]

\* Time passes, but a thread is not kept from the lock for more than Delay.
Tick ==
  /\ clock < MaxClock
  /\ \A t \in Threads : pc[t] = "stamped" => clock < now[t] + Delay
  /\ clock' = clock + 1
  /\ UNCHANGED <<buckets, pc, key, now, admitted, ban>>

\* check() is called: the clock is read, the lock is not yet held.
ReadClock(t, k) ==
  /\ pc[t] = "idle"
  /\ pc' = [pc EXCEPT ![t] = "stamped"]
  /\ key' = [key EXCEPT ![t] = k]
  /\ now' = [now EXCEPT ![t] = clock]
  /\ UNCHANGED <<clock, buckets, admitted, ban>>

AdmitOneMore(t) == \* mutant: compares with > in place of >=
  LET k      == key[t]
      cutoff == now[t] - Window
      live   == Unexpired(BucketOf(k), cutoff)
      entry  == [n |-> Cardinality(admitted[k]) + 1, at |-> now[t]]
  IN  /\ pc[t] = "stamped"
      /\ Cardinality(live) <= Max
      /\ buckets' = Collect(Put(buckets, k, live \cup {entry}), cutoff)
      /\ pc' = [pc EXCEPT ![t] = "allowed"]
      /\ admitted' = [admitted EXCEPT ![k] = @ \cup {entry}]
      /\ ban' = [ban EXCEPT ![k] = NoTime]
      /\ UNCHANGED <<clock, key, now>>

\* The critical section of a call that finds room in its bucket.
Admit(t) ==
  LET k      == key[t]
      cutoff == now[t] - Window
      live   == Unexpired(BucketOf(k), cutoff)
      entry  == [n |-> Cardinality(admitted[k]) + 1, at |-> now[t]]
  IN  /\ pc[t] = "stamped"
      /\ Cardinality(live) < Max
      /\ buckets' = Collect(Put(buckets, k, live \cup {entry}), cutoff)
      /\ pc' = [pc EXCEPT ![t] = "allowed"]
      /\ admitted' = [admitted EXCEPT ![k] = @ \cup {entry}]
      /\ ban' = [ban EXCEPT ![k] = NoTime]
      /\ UNCHANGED <<clock, key, now>>

RejectRecorded(t) == \* mutant: a refused attempt is recorded too
  LET k    == key[t]
      live == Unexpired(BucketOf(k), now[t] - Window)
  IN  /\ pc[t] = "stamped"
      /\ Cardinality(live) >= Max
      /\ buckets' = Put(buckets, k, live \cup {[n |-> clock + Max, at |-> now[t]]})
      /\ pc' = [pc EXCEPT ![t] = "rejected"]
      /\ \E e \in live :
           /\ IsFirst(e, live)
           /\ ban' = [ban EXCEPT ![k] = now[t] + Told(e.at + Window - now[t])]
      /\ UNCHANGED <<clock, key, now, admitted>>

\* The critical section of a call over the limit: the attempt is not
\* recorded, and the client is told the whole seconds until attempts[0]
\* expires, counted from the time stamp of its call.
Reject(t) ==
  LET k    == key[t]
      live == Unexpired(BucketOf(k), now[t] - Window)
  IN  /\ pc[t] = "stamped"
      /\ Cardinality(live) >= Max
      /\ buckets' = Put(buckets, k, live)
      /\ pc' = [pc EXCEPT ![t] = "rejected"]
      /\ \E e \in live :
           /\ IsFirst(e, live)
           /\ ban' = [ban EXCEPT ![k] = now[t] + Told(e.at + Window - now[t])]
      /\ UNCHANGED <<clock, key, now, admitted>>

\* The admitted sign-in succeeded: reset(key).
Reset(t) ==
  /\ pc[t] = "allowed"
  /\ buckets' = Drop(buckets, {key[t]})
  /\ pc' = [pc EXCEPT ![t] = "idle"]
  /\ key' = [key EXCEPT ![t] = NoKey]
  /\ now' = [now EXCEPT ![t] = NoTime]
  /\ admitted' = [admitted EXCEPT ![key[t]] = {}]
  /\ ban' = [ban EXCEPT ![key[t]] = NoTime]
  /\ UNCHANGED clock

\* The request ends without a reset: refused, or the credential was wrong.
Leave(t) ==
  /\ pc[t] \in {"allowed", "rejected"}
  /\ pc' = [pc EXCEPT ![t] = "idle"]
  /\ key' = [key EXCEPT ![t] = NoKey]
  /\ now' = [now EXCEPT ![t] = NoTime]
  /\ UNCHANGED <<clock, buckets, admitted, ban>>

Next ==
  \/ Tick
  \/ \E t \in Threads, k \in Keys : ReadClock(t, k)
  \/ \E t \in Threads : Admit(t)
  \/ \E t \in Threads : Reject(t)
  \/ \E t \in Threads : Reset(t)
  \/ \E t \in Threads : Leave(t)

Spec == Init /\ [][Next]_vars

-----------------------------------------------------------------------------
(* Type correctness: every bucket is a finite list of stamps.              *)
TypeOK ==
  /\ clock \in Nat
  /\ DOMAIN buckets \subseteq Keys
  /\ \A k \in DOMAIN buckets : buckets[k] \in SUBSET Entry
  /\ pc \in [Threads -> {"idle", "stamped", "allowed", "rejected"}]
  /\ key \in [Threads -> Keys \cup {NoKey}]
  /\ \A t \in Threads : pc[t] # "idle" => key[t] \in Keys
  /\ now \in [Threads -> Nat]
  /\ admitted \in [Keys -> SUBSET Entry]
  /\ ban \in [Keys -> Nat]

\* The attempts of a set stamped in the Span ticks that end with e.
Span == Window - 2 * Delay
InSpan(a, e) == e.at - Span < a.at /\ a.at <= e.at

(* The purpose of the limiter: between two resets of a key, no Span ticks  *)
(* contain more than Max admitted attempts, whatever the interleaving of   *)
(* check(), reset() and the collection by calls for other keys.  With      *)
(* stamps in order (Delay = 0) Span is the whole window; a late thread     *)
(* costs Delay once for the calls it overtakes and once for _gc, which     *)
(* judges a bucket by its last element.                                    *)
SlidingWindow ==
  \A k \in Keys : \A e \in admitted[k] :
    Cardinality({a \in admitted[k] : InSpan(a, e)}) <= Max

(* Neither the expiry in check() nor _gc, which any other key's call may   *)
(* run, forgets an attempt that still counts: an admitted attempt missing  *)
(* from its bucket has been out of the window for all but Delay ticks.     *)
LiveAttemptsKept ==
  \A k \in Keys : \A a \in admitted[k] \ BucketOf(k) :
    a.at <= clock - Window + Delay

(* A refusal does not outlast what the client was told by as much as a     *)
(* second: int(retry_in) drops a fraction, so a client that returns at the *)
(* very time told may be refused once more, but a check() one second later *)
(* is allowed unless another attempt of the key was admitted meanwhile.    *)
(* In particular refused retries do not extend the ban ("an already-       *)
(* blocked attacker can't extend their own ban", ratelimit.py:31).         *)
BanEndsAsTold ==
  [][\A t \in Threads :
       pc[t] = "stamped" /\ pc'[t] = "rejected"
         => ban[key[t]] = NoTime \/ now[t] < ban[key[t]] + Second]_vars

-----------------------------------------------------------------------------
\* The answers that request threads are acting on.
Verdicts ==
  [t \in Threads |->
     IF pc[t] \in {"allowed", "rejected"}
       THEN [key |-> key[t], answer |-> pc[t]]
       ELSE [key |-> NoKey, answer |-> "none"]]

Abstract ==
  INSTANCE AttemptWindow WITH log <- admitted, verdict <- Verdicts, Slack <- Delay

(* The buckets, the expiry and the collection are invisible: every verdict *)
(* of check() is that of AttemptWindow, exact to Delay at the edge of the  *)
(* window, and exact altogether when stamps are in order.                  *)
ImplementsAttemptWindow == Abstract!Spec
=============================================================================
