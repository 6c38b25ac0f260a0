--------------------------- MODULE RealtimeProofs ---------------------------
(***************************************************************************)
(* Proofs for Realtime: for any number of connections, names, queue sizes  *)
(* and versions, the hub misses nothing that a queue had room for and      *)
(* implements Feed.                                                        *)
(*                                                                         *)
(* What a connection has is a queue q, the event o being written, and the  *)
(* versions s it shows; l are the newest versions of the hub.  The lemmas  *)
(* about these four come first, and one per action applies them.           *)
(***************************************************************************)
EXTENDS Realtime, FiniteSetTheorems, TLAPS

Versions == [Names -> 0..MaxVersion]

(* What is shown, what is on its way and what waits rise to the newest.    *)
Rises(q, o, s, l) ==
  /\ \A n \in Names : s[n] <= l[n]
  /\ o # NoEvent => s[o.name] <= o.ver /\ o.ver <= l[o.name]
  /\ \A i \in 1..Len(q) :
       /\ s[q[i].name] <= q[i].ver /\ q[i].ver <= l[q[i].name]
       /\ o # NoEvent /\ o.name = q[i].name => o.ver <= q[i].ver
  /\ \A i, j \in 1..Len(q) : i <= j /\ q[i].name = q[j].name => q[i].ver <= q[j].ver

(* The last of n that waits, is on its way or is shown is the newest.      *)
Complete(q, o, s, l, n) ==
  \/ \E i \in 1..Len(q) :
       /\ q[i].name = n
       /\ \A j \in i..Len(q) : q[j].name = n => q[j].ver = l[n]
  \/ /\ \A i \in 1..Len(q) : q[i].name # n
     /\ IF o # NoEvent /\ o.name = n THEN o.ver = l[n] ELSE s[n] = l[n]

-----------------------------------------------------------------------------
(* A newer state of n is published and not offered.                        *)
LEMMA Published ==
  ASSUME NEW q \in Seq(Events), NEW o \in Events \cup {NoEvent}, NEW s \in Versions,
         NEW l \in Versions, NEW n \in Names, NEW v \in 1..MaxVersion,
         Rises(q, o, s, l), l[n] <= v
  PROVE  LET k == [l EXCEPT ![n] = v] IN
         /\ k \in Versions /\ Rises(q, o, s, k)
         /\ \A m \in Names \ {n} : Complete(q, o, s, l, m) => Complete(q, o, s, k, m)
<1> DEFINE k == [l EXCEPT ![n] = v]
<1>1. k \in Versions /\ \A m \in Names : l[m] <= k[m]
  BY VersionAssumption DEF Versions
<1>2. Rises(q, o, s, k)
  <2> HIDE DEF k
  <2>1. \A i \in 1..Len(q) : q[i] \in Events
    OBVIOUS
  <2>2. \A e \in Events : e.name \in Names /\ e.ver \in 1..MaxVersion
    BY DEF Events
  <2> QED
    BY <1>1, <2>1, <2>2, VersionAssumption DEF Rises, Versions
<1>3. \A m \in Names \ {n} : k[m] = l[m]
  BY DEF Versions
<1>4. ASSUME NEW m \in Names \ {n}, Complete(q, o, s, l, m)
      PROVE  Complete(q, o, s, k, m)
  <2> HIDE DEF k
  <2> QED
    BY <1>3, <1>4 DEF Complete
<1> QED
  BY <1>1, <1>2, <1>4

(* A newer state of n is published and the queue has room.                 *)
LEMMA Offered ==
  ASSUME NEW q \in Seq(Events), NEW o \in Events \cup {NoEvent}, NEW s \in Versions,
         NEW l \in Versions, NEW n \in Names, NEW v \in 1..MaxVersion,
         Rises(q, o, s, l), l[n] <= v
  PROVE  LET k == [l EXCEPT ![n] = v]
             r == Append(q, Event(n, v)) IN
         /\ r \in Seq(Events) /\ Rises(r, o, s, k)
         /\ Complete(r, o, s, k, n)
         /\ \A m \in Names \ {n} : Complete(q, o, s, l, m) => Complete(r, o, s, k, m)
<1> DEFINE k == [l EXCEPT ![n] = v]
           e == Event(n, v)
           r == Append(q, e)
<1>1. e \in Events /\ e.name = n /\ e.ver = v
  BY DEF Event, Events
<1>2. \A d \in Events : d.name \in Names /\ d.ver \in 1..MaxVersion
  BY DEF Events
<1>3. k \in Versions /\ Rises(q, o, s, k)
      /\ \A m \in Names \ {n} : Complete(q, o, s, l, m) => Complete(q, o, s, k, m)
  BY Published
<1>4. k[n] = v
  BY DEF Versions
<1> HIDE DEF k, e
<1>5. /\ r \in Seq(Events) /\ Len(r) = Len(q) + 1 /\ r[Len(q) + 1] = e
      /\ \A i \in 1..Len(q) : r[i] = q[i] /\ q[i] \in Events
  BY <1>1
<1> HIDE DEF r
<1>6. Rises(r, o, s, k)
  <2>1. s[n] <= v /\ v \in Nat /\ (o # NoEvent /\ o.name = n => o.ver <= v)
    BY <1>3, <1>4 DEF Rises
  <2>2. \A i \in 1..Len(q) : q[i].name = n => q[i].ver <= v
    BY <1>3, <1>4 DEF Rises
  <2>3. \A i \in 1..Len(r) : i \in 1..Len(q) \/ i = Len(q) + 1
    BY <1>5
  <2>4. ASSUME NEW i \in 1..Len(r)
        PROVE  /\ s[r[i].name] <= r[i].ver /\ r[i].ver <= k[r[i].name]
               /\ o # NoEvent /\ o.name = r[i].name => o.ver <= r[i].ver
    <3>1. CASE i \in 1..Len(q)
      BY <1>3, <1>5, <3>1 DEF Rises
    <3>2. CASE i = Len(q) + 1
      BY <1>1, <1>4, <1>5, <2>1, <3>2
    <3> QED
      BY <2>3, <3>1, <3>2
  <2>5. ASSUME NEW i \in 1..Len(r), NEW j \in 1..Len(r), i <= j, r[i].name = r[j].name
        PROVE  r[i].ver <= r[j].ver
    <3>1. CASE j \in 1..Len(q)
      <4>1. i \in 1..Len(q)
        BY <2>5, <3>1
      <4> QED
        BY <1>3, <1>5, <2>5, <3>1, <4>1 DEF Rises
    <3>2. CASE j = Len(q) + 1
      <4>1. CASE i \in 1..Len(q)
        BY <1>1, <1>5, <2>2, <2>5, <3>2, <4>1
      <4>2. CASE i = j
        BY <1>1, <1>5, <2>1, <3>2, <4>2
      <4> QED
        BY <2>3, <3>2, <4>1, <4>2
    <3> QED
      BY <2>3, <3>1, <3>2
  <2> QED
    BY <1>3, <2>4, <2>5 DEF Rises
<1>7. Complete(r, o, s, k, n)
  <2>1. Len(q) + 1 \in 1..Len(r)
    BY <1>5
  <2>2. \A j \in (Len(q) + 1)..Len(r) : r[j].ver = k[n]
    BY <1>1, <1>4, <1>5
  <2> QED
    BY <1>1, <1>5, <2>1, <2>2 DEF Complete
<1>8. ASSUME NEW m \in Names \ {n}, Complete(q, o, s, k, m)
      PROVE  Complete(r, o, s, k, m)
  <2>1. ASSUME NEW i \in 1..Len(q), q[i].name = m,
               \A j \in i..Len(q) : q[j].name = m => q[j].ver = k[m]
        PROVE  Complete(r, o, s, k, m)
    <3>1. i \in 1..Len(r) /\ r[i].name = m
      BY <1>5, <2>1
    <3>2. ASSUME NEW j \in i..Len(r), r[j].name = m
          PROVE  r[j].ver = k[m]
      <4>1. j # Len(q) + 1
        BY <1>1, <1>5, <3>2
      <4>2. j \in i..Len(q) /\ j \in 1..Len(q)
        BY <1>5, <4>1
      <4> QED
        BY <1>5, <2>1, <3>2, <4>2
    <3> QED
      BY <3>1, <3>2 DEF Complete
  <2>2. CASE /\ \A i \in 1..Len(q) : q[i].name # m
             /\ IF o # NoEvent /\ o.name = m THEN o.ver = k[m] ELSE s[m] = k[m]
    <3>1. \A i \in 1..Len(r) : r[i].name # m
      BY <1>1, <1>5, <2>2
    <3> QED
      BY <2>2, <3>1 DEF Complete
  <2> QED
    BY <1>8, <2>1, <2>2 DEF Complete
<1> QED
  BY <1>3, <1>5, <1>6, <1>7, <1>8 DEF k, r, e

(* The head of the queue is taken.                                         *)
LEMMA Taken ==
  ASSUME NEW q \in Seq(Events), q # <<>>, NEW s \in Versions, NEW l \in Versions,
         Rises(q, NoEvent, s, l)
  PROVE  /\ Tail(q) \in Seq(Events) /\ Head(q) \in Events
         /\ Rises(Tail(q), Head(q), s, l)
         /\ \A n \in Names : Complete(q, NoEvent, s, l, n)
                               => Complete(Tail(q), Head(q), s, l, n)
<1> DEFINE r == Tail(q)
           e == Head(q)
<1>1. /\ r \in Seq(Events) /\ e \in Events /\ e = q[1] /\ Len(q) = Len(r) + 1
      /\ \A i \in 1..Len(r) : r[i] = q[i + 1]
  OBVIOUS
<1>2. e # NoEvent
  BY <1>1, EventAssumption
<1> HIDE DEF r, e
<1>3. 1 \in 1..Len(q) /\ \A i \in 1..Len(r) : i + 1 \in 1..Len(q)
  BY <1>1
<1>4. Rises(r, e, s, l)
  <2>1. \A i \in 1..Len(r) :
          /\ s[r[i].name] <= r[i].ver /\ r[i].ver <= l[r[i].name]
          /\ e.name = r[i].name => e.ver <= r[i].ver
    BY <1>1, <1>3 DEF Rises
  <2>2. \A i, j \in 1..Len(r) : i <= j /\ r[i].name = r[j].name => r[i].ver <= r[j].ver
    BY <1>1, <1>3 DEF Rises
  <2>3. s[e.name] <= e.ver /\ e.ver <= l[e.name]
    BY <1>1, <1>3 DEF Rises
  <2> QED
    BY <2>1, <2>2, <2>3 DEF Rises
<1>5. ASSUME NEW n \in Names, Complete(q, NoEvent, s, l, n)
      PROVE  Complete(r, e, s, l, n)
  <2>1. CASE \A i \in 1..Len(q) : q[i].name # n
    <3>1. s[n] = l[n]
      BY <1>5, <2>1 DEF Complete
    <3>2. e.name # n /\ \A i \in 1..Len(r) : r[i].name # n
      BY <1>1, <1>3, <2>1
    <3> QED
      BY <3>1, <3>2 DEF Complete
  <2>2. ASSUME NEW i \in 1..Len(q), q[i].name = n,
               \A j \in i..Len(q) : q[j].name = n => q[j].ver = l[n]
        PROVE  Complete(r, e, s, l, n)
    <3>1. ASSUME NEW h \in 1..Len(r), r[h].name = n, h + 1 >= i
          PROVE  Complete(r, e, s, l, n)
      <4>1. ASSUME NEW j \in h..Len(r), r[j].name = n
            PROVE  r[j].ver = l[n]
        <5>1. j \in 1..Len(r) /\ j + 1 \in i..Len(q)
          BY <1>1, <3>1
        <5> QED
          BY <1>1, <2>2, <4>1, <5>1
      <4> QED
        BY <3>1, <4>1 DEF Complete
    <3>2. CASE i > 1
      <4>1. i - 1 \in 1..Len(r) /\ r[i - 1] = q[i]
        BY <1>1, <3>2
      <4> QED
        BY <2>2, <3>1, <4>1
    <3>3. CASE i = 1 /\ \A h \in 1..Len(r) : r[h].name # n
      <4>1. e.name = n /\ e.ver = l[n]
        BY <1>1, <1>3, <2>2, <3>3
      <4> QED
        BY <1>2, <3>3, <4>1 DEF Complete
    <3> QED
      BY <3>1, <3>2, <3>3
  <2> QED
    BY <1>5, <2>1, <2>2 DEF Complete
<1> QED
  BY <1>1, <1>4, <1>5 DEF r, e

(* The event that was being written is shown, or lost.                     *)
LEMMA Written ==
  ASSUME NEW q \in Seq(Events), NEW o \in Events, NEW s \in Versions, NEW l \in Versions,
         Rises(q, o, s, l)
  PROVE  LET u == [s EXCEPT ![o.name] = o.ver] IN
         /\ u \in Versions /\ Rises(q, NoEvent, u, l) /\ Rises(q, NoEvent, s, l)
         /\ s[o.name] <= o.ver /\ o.ver <= l[o.name]
         /\ \A n \in Names : Complete(q, o, s, l, n) => Complete(q, NoEvent, u, l, n)
<1> DEFINE u == [s EXCEPT ![o.name] = o.ver]
<1>1. o.name \in Names /\ o.ver \in 1..MaxVersion /\ o # NoEvent
  BY EventAssumption DEF Events
<1>2. u \in Versions /\ u[o.name] = o.ver /\ \A n \in Names \ {o.name} : u[n] = s[n]
  BY <1>1, VersionAssumption DEF Versions
<1> HIDE DEF u
<1>3. \A i \in 1..Len(q) : q[i].name \in Names
  <2>1. \A i \in 1..Len(q) : q[i] \in Events
    OBVIOUS
  <2> QED
    BY <2>1 DEF Events
<1>4. Rises(q, NoEvent, u, l) /\ Rises(q, NoEvent, s, l)
  <2>1. \A n \in Names : u[n] <= l[n]
    BY <1>1, <1>2 DEF Rises
  <2>2. \A i \in 1..Len(q) : u[q[i].name] <= q[i].ver /\ q[i].ver <= l[q[i].name]
    BY <1>1, <1>2, <1>3 DEF Rises
  <2> QED
    BY <2>1, <2>2 DEF Rises
<1>5. ASSUME NEW n \in Names, Complete(q, o, s, l, n)
      PROVE  Complete(q, NoEvent, u, l, n)
  BY <1>1, <1>2, <1>5 DEF Complete
<1>6. s[o.name] <= o.ver /\ o.ver <= l[o.name]
  BY <1>1 DEF Rises
<1> QED
  BY <1>2, <1>4, <1>5, <1>6 DEF u

-----------------------------------------------------------------------------
(* The hub: a version is known to the hub after its producer and after the *)
(* machine, and the dict has the names that were ever broadcast.           *)
HubInv ==
  \A n \in Names :
    /\ last[n] <= value[n] /\ value[n] <= world[n]
    /\ n \in Listed <=> last[n] # 0

(* A connection: nobody but its writer has an event in hand, and one that  *)
(* is closed has left nothing behind.                                      *)
Served(c) ==
  /\ c \in subs <=> conn[c] # "none"
  /\ conn[c] # "send" => out[c] = NoEvent
  /\ conn[c] = "none" => seen[c] = Blank /\ link[c] = "up"

(* What it gets rises to the newest, and is complete where no broadcast    *)
(* found its queue full.                                                   *)
Delivers(c) ==
  /\ Rises(queue[c], out[c], seen[c], last)
  /\ \A n \in Names :
       c \in subs /\ link[c] \in {"up", "stalled"} /\ n \notin skipped[c]
         => Complete(queue[c], out[c], seen[c], last, n)

IInv == TypeOK /\ HubInv /\ \A c \in Conns : Served(c) /\ Delivers(c)

(* What a connection has, as the lemmas above want it.                     *)
LEMMA Typed ==
  ASSUME TypeOK
  PROVE  /\ last \in Versions
         /\ \A c \in Conns : /\ queue[c] \in Seq(Events) /\ out[c] \in Events \cup {NoEvent}
                            /\ seen[c] \in Versions
BY DEF TypeOK, Versions

LEMMA Starts == Init => IInv
<1> SUFFICES ASSUME Init PROVE IInv
  OBVIOUS
<1> USE VersionAssumption, QMaxAssumption DEF Init
<1>1. TypeOK
  BY DEF TypeOK, Blank
<1>2. HubInv
  BY DEF HubInv, Listed, Blank
<1>3. ASSUME NEW c \in Conns
      PROVE  Served(c) /\ Delivers(c)
  BY <1>3 DEF Served, Delivers, Rises, Blank
<1> QED
  BY <1>1, <1>2, <1>3 DEF IInv

-----------------------------------------------------------------------------
LEMMA Producing ==
  ASSUME IInv, NEW n \in Names, Change(n) \/ Sample(n)
  PROVE  IInv'
<1>1. UNCHANGED <<hub, clients>>
  BY DEF Change, Sample
<1>2. /\ world \in [Names -> 1..MaxVersion] /\ value \in [Names -> 1..MaxVersion]
      /\ sending \in [Names -> BOOLEAN] /\ last \in [Names -> 0..MaxVersion]
  BY DEF IInv, TypeOK
<1>3. TypeOK' /\ HubInv'
  <2>1. CASE Change(n)
    <3>1. world' \in [Names -> 1..MaxVersion] /\ \A m \in Names : world[m] <= world'[m]
      BY <1>2, <2>1, VersionAssumption DEF Change
    <3>2. UNCHANGED <<value, sending>>
      BY <2>1 DEF Change
    <3>3. TypeOK'
      BY <1>1, <3>1, <3>2 DEF IInv, TypeOK, hub, clients
    <3> QED
      BY <1>1, <1>2, <3>1, <3>2, <3>3 DEF IInv, HubInv, Listed, hub
  <2>2. CASE Sample(n)
    <3>1. /\ value' \in [Names -> 1..MaxVersion] /\ sending' \in [Names -> BOOLEAN]
          /\ \A m \in Names : value'[m] \in {value[m], world[m]}
      BY <1>2, <2>2 DEF Sample
    <3>2. UNCHANGED world
      BY <2>2 DEF Sample
    <3>3. TypeOK'
      BY <1>1, <3>1, <3>2 DEF IInv, TypeOK, hub, clients
    <3>4. ASSUME NEW m \in Names
          PROVE  last[m] <= value'[m] /\ value'[m] <= world[m]
      <4>1. /\ last[m] <= value[m] /\ value[m] <= world[m]
            /\ last[m] \in Nat /\ value[m] \in Nat /\ world[m] \in Nat
        BY <1>2, VersionAssumption DEF IInv, HubInv
      <4> QED
        BY <3>1, <4>1
    <3> QED
      BY <1>1, <3>2, <3>3, <3>4 DEF IInv, HubInv, Listed, hub
  <2> QED
    BY <2>1, <2>2
<1>4. ASSUME NEW c \in Conns
      PROVE  (Served(c) /\ Delivers(c))'
  <2>1. Served(c) /\ Delivers(c)
    BY DEF IInv
  <2>2. UNCHANGED <<last, subs, queue, skipped, conn, out, link, seen>>
    BY <1>1 DEF hub, clients
  <2> QED
    BY <2>1, <2>2 DEF Served, Delivers
<1> QED
  BY <1>3, <1>4 DEF IInv

LEMMA Broadcasting ==
  ASSUME IInv, NEW n \in Names, Broadcast(n)
  PROVE  IInv'
<1> DEFINE v == value[n]
           e == Event(n, v)
<1>1. v \in 1..MaxVersion /\ last[n] <= v /\ e \in Events /\ last' = [last EXCEPT ![n] = v]
  BY DEF IInv, TypeOK, HubInv, Broadcast, Event, Events
<1>2. UNCHANGED <<world, value, subs, conn, out, link, seen>>
  BY DEF Broadcast, clients
<1>3. TypeOK'
  <2>1. order' \in Seq(Names)
    BY DEF IInv, TypeOK, Broadcast
  <2>2. queue' \in [Conns -> Seq(Events)] /\ \A c \in Conns : Len(queue'[c]) <= QMax
    BY <1>1, QMaxAssumption DEF IInv, TypeOK, Broadcast, Offer
  <2>3. skipped' \in [Conns -> SUBSET Names]
    BY DEF IInv, TypeOK, Broadcast
  <2>4. last' \in [Names -> 0..MaxVersion] /\ sending' \in [Names -> BOOLEAN]
    BY <1>1, VersionAssumption DEF IInv, TypeOK, Broadcast
  <2>5. behind' \in [Names -> SUBSET Conns]
    BY DEF IInv, TypeOK, Broadcast
  <2> QED
    BY <1>2, <2>1, <2>2, <2>3, <2>4, <2>5 DEF IInv, TypeOK
<1>4. HubInv'
  <2>1. ASSUME NEW m \in Names
        PROVE  m \in Listed' <=> m \in Listed \/ m = n
    <3>1. CASE n \in Listed
      BY <3>1 DEF Broadcast, Listed
    <3>2. CASE n \notin Listed
      <4>1. order' = Append(order, n) /\ order \in Seq(Names)
        BY <3>2 DEF Broadcast, IInv, TypeOK
      <4>2. /\ Len(order') = Len(order) + 1 /\ order'[Len(order) + 1] = n
            /\ \A i \in 1..Len(order) : order'[i] = order[i]
        BY <4>1
      <4>3. 1..Len(order') = (1..Len(order)) \cup {Len(order) + 1}
        BY <4>1, <4>2
      <4> QED
        BY <4>2, <4>3 DEF Listed
    <3> QED
      BY <3>1, <3>2
  <2>2. last \in [Names -> 0..MaxVersion]
    BY DEF IInv, TypeOK
  <2> QED
    BY <1>1, <1>2, <2>1, <2>2 DEF IInv, HubInv
<1>5. ASSUME NEW c \in Conns
      PROVE  (Served(c) /\ Delivers(c))'
  <2>1. Served(c)'
    BY <1>2 DEF IInv, Served
  <2>2. Rises(queue[c], out[c], seen[c], last)
    BY DEF IInv, Delivers
  <2>3. /\ last \in Versions /\ queue[c] \in Seq(Events) /\ out[c] \in Events \cup {NoEvent}
        /\ seen[c] \in Versions
    BY Typed DEF IInv
  <2>4. queue'[c] = (IF c \in subs THEN Offer(queue[c], e) ELSE queue[c])
    BY DEF Broadcast, IInv, TypeOK
  <2>5. skipped'[c] = (IF c \notin subs THEN skipped[c]
                       ELSE IF Len(queue[c]) < QMax THEN skipped[c] \ {n}
                                                    ELSE skipped[c] \cup {n})
    BY DEF Broadcast
  <2>6. CASE c \in subs /\ Len(queue[c]) < QMax
    <3>1. queue'[c] = Append(queue[c], e)
      BY <2>4, <2>6 DEF Offer
    <3>2. /\ Rises(queue'[c], out[c], seen[c], last')
          /\ Complete(queue'[c], out[c], seen[c], last', n)
          /\ \A m \in Names \ {n} : Complete(queue[c], out[c], seen[c], last, m)
                                      => Complete(queue'[c], out[c], seen[c], last', m)
      <4> DEFINE k == [last EXCEPT ![n] = v]
                 r == Append(queue[c], Event(n, v))
      <4>1. /\ Rises(r, out[c], seen[c], k) /\ Complete(r, out[c], seen[c], k, n)
            /\ \A m \in Names \ {n} : Complete(queue[c], out[c], seen[c], last, m)
                                        => Complete(r, out[c], seen[c], k, m)
        BY <1>1, <2>2, <2>3, Offered
      <4>2. last' = k /\ queue'[c] = r
        BY <1>1, <3>1
      <4> QED
        BY <4>1, <4>2
    <3> QED
      BY <1>2, <2>1, <2>5, <2>6, <3>2 DEF IInv, Delivers
  <2>7. CASE ~(c \in subs /\ Len(queue[c]) < QMax)
    <3>1. queue'[c] = queue[c] /\ (c \in subs => n \in skipped'[c] /\ skipped[c] \subseteq skipped'[c])
      BY <2>4, <2>5, <2>7 DEF Offer
    <3>2. /\ Rises(queue[c], out[c], seen[c], last')
          /\ \A m \in Names \ {n} : Complete(queue[c], out[c], seen[c], last, m)
                                      => Complete(queue[c], out[c], seen[c], last', m)
      BY <1>1, <2>2, <2>3, Published
    <3> QED
      BY <1>2, <2>1, <3>1, <3>2 DEF IInv, Delivers
  <2> QED
    BY <2>6, <2>7
<1> QED
  BY <1>3, <1>4, <1>5 DEF IInv

-----------------------------------------------------------------------------
(* A step of one connection leaves the others alone.                       *)
LEMMA OthersStay ==
  ASSUME IInv, NEW c \in Conns, UNCHANGED <<producers, last, order>>,
         \A d \in Conns \ {c} :
           /\ d \in subs' <=> d \in subs
           /\ queue'[d] = queue[d] /\ skipped'[d] = skipped[d] /\ conn'[d] = conn[d]
           /\ out'[d] = out[d] /\ link'[d] = link[d] /\ seen'[d] = seen[d],
         TypeOK', Served(c)', Delivers(c)'
  PROVE  IInv'
<1>1. HubInv'
  BY DEF IInv, HubInv, Listed, producers
<1>2. ASSUME NEW d \in Conns \ {c}
      PROVE  (Served(d) /\ Delivers(d))'
  <2>1. Served(d) /\ Delivers(d)
    BY DEF IInv
  <2> QED
    BY <2>1 DEF Served, Delivers
<1> QED
  BY <1>1, <1>2 DEF IInv

LEMMA Connecting ==
  ASSUME IInv, NEW c \in Conns, NEW m \in Methods, Connect(c, m)
  PROVE  IInv'
<1>1. /\ order \in Seq(Names) /\ last \in [Names -> 0..MaxVersion] /\ c \notin subs
      /\ out[c] = NoEvent /\ seen[c] = Blank /\ link[c] = "up"
  BY DEF IInv, TypeOK, Served, Connect
<1>2. /\ ReplaySize \in Nat /\ ReplaySize <= QMax /\ ReplaySize <= Len(order)
  BY <1>1, QMaxAssumption DEF ReplaySize
<1>3. ASSUME NEW i \in 1..Len(order)
      PROVE  Event(order[i], last[order[i]]) \in Events /\ order[i] \in Names
  <2>1. order[i] \in Names /\ order[i] \in Listed
    BY <1>1 DEF Listed
  <2>2. last[order[i]] \in 1..MaxVersion
    BY <1>1, <2>1, VersionAssumption DEF IInv, HubInv
  <2> QED
    BY <2>1, <2>2 DEF Event, Events
<1>4. /\ Replay \in Seq(Events) /\ Len(Replay) = ReplaySize
      /\ \A i \in 1..ReplaySize : /\ Replay[i].name = order[i]
                                  /\ Replay[i].ver = last[order[i]]
  <2>1. \A i \in 1..ReplaySize : i \in 1..Len(order)
    BY <1>1, <1>2
  <2>2. \A i \in 1..ReplaySize : Event(order[i], last[order[i]]) \in Events
    BY <1>3, <2>1
  <2> QED
    BY <1>2, <2>2 DEF Replay, Event
<1>5. UNCHANGED <<producers, last, order, behind, out, link, seen>> /\ subs' = subs \cup {c}
  BY DEF Connect
<1>6. /\ queue' = [queue EXCEPT ![c] = Replay]
      /\ conn' = [conn EXCEPT ![c] = IF m = "GET" THEN "open" ELSE "head"]
      /\ skipped' = [skipped EXCEPT ![c] = {order[i] : i \in (ReplaySize + 1)..Len(order)}]
  BY DEF Connect
<1>7. TypeOK'
  <2>1. queue' \in [Conns -> Seq(Events)] /\ \A d \in Conns : Len(queue'[d]) <= QMax
    BY <1>2, <1>4, <1>6 DEF IInv, TypeOK
  <2>2. conn' \in [Conns -> {"none", "open", "wait", "send", "head", "answered"}]
    BY <1>6 DEF IInv, TypeOK
  <2>3. skipped' \in [Conns -> SUBSET Names]
    <3>1. {order[i] : i \in (ReplaySize + 1)..Len(order)} \subseteq Names
      <4>1. \A i \in (ReplaySize + 1)..Len(order) : i \in 1..Len(order)
        BY <1>1, <1>2
      <4> QED
        BY <1>1, <4>1
    <3> QED
      BY <1>6, <3>1 DEF IInv, TypeOK
  <2> QED
    BY <1>5, <2>1, <2>2, <2>3 DEF IInv, TypeOK, producers
<1>8. queue'[c] = Replay /\ conn'[c] \in {"open", "head"}
      /\ skipped'[c] = {order[i] : i \in (ReplaySize + 1)..Len(order)}
  BY <1>6 DEF IInv, TypeOK
<1>9. Rises(Replay, NoEvent, Blank, last)
  <2>1. \A n \in Names : Blank[n] = 0 /\ last[n] \in Nat
    BY <1>1 DEF Blank
  <2>2. ASSUME NEW i \in 1..Len(Replay)
        PROVE  Replay[i].name \in Names /\ Replay[i].ver = last[Replay[i].name]
    BY <1>1, <1>2, <1>3, <1>4
  <2>3. \A i \in 1..Len(Replay) : /\ Blank[Replay[i].name] <= Replay[i].ver
                                   /\ Replay[i].ver <= last[Replay[i].name]
    BY <2>1, <2>2
  <2>4. \A i, j \in 1..Len(Replay) :
          i <= j /\ Replay[i].name = Replay[j].name => Replay[i].ver <= Replay[j].ver
    BY <2>1, <2>2
  <2> QED
    BY <2>1, <2>3, <2>4 DEF Rises
<1>10. ASSUME NEW n \in Names, n \notin skipped'[c]
       PROVE  Complete(Replay, NoEvent, Blank, last, n)
  <2>1. CASE n \in Listed
    <3>1. PICK i \in 1..Len(order) : order[i] = n
      BY <2>1 DEF Listed
    <3>2. i \notin (ReplaySize + 1)..Len(order)
      BY <1>8, <1>10, <3>1
    <3>3. i \in 1..Len(Replay) /\ Replay[i].name = n
      BY <1>1, <1>2, <1>4, <3>1, <3>2
    <3>4. \A j \in i..Len(Replay) : Replay[j].name = n => Replay[j].ver = last[n]
      BY <1>2, <1>4, <3>3
    <3> QED
      BY <3>3, <3>4 DEF Complete
  <2>2. CASE n \notin Listed
    <3>1. last[n] = 0 /\ Blank[n] = 0
      BY <2>2 DEF IInv, HubInv, Blank
    <3>2. \A i \in 1..Len(Replay) : Replay[i].name # n
      BY <1>1, <1>2, <1>4, <2>2 DEF Listed
    <3> QED
      BY <3>1, <3>2 DEF Complete
  <2> QED
    BY <2>1, <2>2
<1>11. Served(c)' /\ Delivers(c)'
  <2>1. Served(c)'
    BY <1>1, <1>5, <1>8 DEF Served
  <2>2. Delivers(c)'
    BY <1>1, <1>5, <1>8, <1>9, <1>10 DEF Delivers
  <2> QED
    BY <2>1, <2>2
<1> QED
  BY <1>5, <1>6, <1>7, <1>11, OthersStay DEF IInv, TypeOK

(* The connection goes on without touching what it delivers.               *)
LEMMA GoingOn ==
  ASSUME IInv, NEW c \in Conns,
         Start(c) \/ AnswerHead(c) \/ Ping(c) \/ Stall(c) \/ Resume(c) \/ Cut(c)
  PROVE  IInv'
<1>1. UNCHANGED <<producers, hub, out, seen>>
  BY DEF Start, AnswerHead, Ping, Stall, Resume, Cut
<1>2. /\ conn \in [Conns -> {"none", "open", "wait", "send", "head", "answered"}]
      /\ link \in [Conns -> {"up", "stalled", "cut", "reset"}]
      /\ TypeOK /\ Served(c) /\ Delivers(c)
  BY DEF IInv, TypeOK
<1>3. /\ conn[c] # "none" /\ conn'[c] # "none"
      /\ conn' \in [Conns -> {"none", "open", "wait", "send", "head", "answered"}]
      /\ conn'[c] # "send" => out[c] = NoEvent
      /\ \A d \in Conns \ {c} : conn'[d] = conn[d]
  BY <1>2 DEF Served, Start, AnswerHead, Ping, Stall, Resume, Cut, Streaming
<1>4. /\ link' \in [Conns -> {"up", "stalled", "cut", "reset"}]
      /\ link'[c] \in {"up", "stalled"} => link[c] \in {"up", "stalled"}
      /\ \A d \in Conns \ {c} : link'[d] = link[d]
  BY <1>2 DEF Start, AnswerHead, Ping, Stall, Resume, Cut
<1>5. TypeOK'
  BY <1>1, <1>2, <1>3, <1>4 DEF TypeOK, producers, hub
<1>6. Served(c)'
  BY <1>1, <1>2, <1>3 DEF Served, hub
<1>7. Delivers(c)'
  BY <1>1, <1>2, <1>4 DEF Delivers, hub
<1> QED
  BY <1>1, <1>3, <1>4, <1>5, <1>6, <1>7, OthersStay DEF hub

LEMMA Getting ==
  ASSUME IInv, NEW c \in Conns, Get(c)
  PROVE  IInv'
<1> DEFINE r == Tail(queue[c])
           e == Head(queue[c])
<1>1. TypeOK /\ Served(c) /\ Delivers(c) /\ out[c] = NoEvent /\ conn[c] = "wait"
  BY DEF IInv, Served, Get
<1>2. /\ last \in Versions /\ queue[c] \in Seq(Events) /\ seen[c] \in Versions
      /\ queue[c] # <<>> /\ Rises(queue[c], NoEvent, seen[c], last)
  BY <1>1, Typed DEF Get, Delivers
<1>3. /\ r \in Seq(Events) /\ e \in Events /\ Rises(r, e, seen[c], last)
      /\ \A n \in Names : Complete(queue[c], NoEvent, seen[c], last, n)
                            => Complete(r, e, seen[c], last, n)
  BY <1>2, Taken
<1>4. UNCHANGED <<producers, last, order, subs, skipped, link, seen>>
  BY DEF Get
<1>5. /\ queue' = [queue EXCEPT ![c] = r] /\ out' = [out EXCEPT ![c] = e]
      /\ conn' = [conn EXCEPT ![c] = "send"] /\ behind' \in [Names -> SUBSET Conns]
  BY <1>1 DEF Get, TypeOK
<1>6. Len(r) <= QMax
  <2>1. Len(queue[c]) <= QMax
    BY <1>1 DEF TypeOK
  <2> QED
    BY <1>2, <2>1, QMaxAssumption
<1> HIDE DEF r, e
<1>7. queue'[c] = r /\ out'[c] = e /\ conn'[c] = "send"
  BY <1>1, <1>5 DEF TypeOK
<1>8. TypeOK'
  BY <1>1, <1>3, <1>4, <1>5, <1>6 DEF TypeOK, producers
<1>9. Served(c)'
  BY <1>1, <1>4, <1>7 DEF Served
<1>10. Delivers(c)'
  BY <1>1, <1>3, <1>4, <1>7 DEF Delivers
<1> QED
  BY <1>1, <1>4, <1>5, <1>8, <1>9, <1>10, OthersStay DEF TypeOK

LEMMA Writing ==
  ASSUME IInv, NEW c \in Conns, Write(c)
  PROVE  IInv'
<1> DEFINE o == out[c]
           u == [seen[c] EXCEPT ![o.name] = o.ver]
<1>1. TypeOK /\ Served(c) /\ Delivers(c) /\ conn[c] = "send" /\ c \in subs
  BY DEF IInv, Served, Write
<1>2. /\ last \in Versions /\ queue[c] \in Seq(Events) /\ seen[c] \in Versions
      /\ o \in Events \cup {NoEvent} /\ Rises(queue[c], o, seen[c], last)
  BY <1>1, Typed DEF Delivers
<1>3. /\ UNCHANGED <<producers, hub>>
      /\ out' = [out EXCEPT ![c] = NoEvent] /\ conn' = [conn EXCEPT ![c] = "wait"]
      /\ link' = [link EXCEPT ![c] = IF @ = "cut" THEN "reset" ELSE @]
      /\ seen' = IF o = NoEvent \/ link[c] = "cut" THEN seen ELSE [seen EXCEPT ![c] = u]
  BY DEF Write
<1>4. o # NoEvent =>
        /\ u \in Versions /\ Rises(queue[c], NoEvent, u, last)
        /\ Rises(queue[c], NoEvent, seen[c], last)
        /\ \A n \in Names : Complete(queue[c], o, seen[c], last, n)
                              => Complete(queue[c], NoEvent, u, last, n)
  BY <1>2, Written
<1> HIDE DEF o, u
<1>5. /\ out'[c] = NoEvent /\ conn'[c] = "wait"
      /\ link'[c] = IF link[c] = "cut" THEN "reset" ELSE link[c]
      /\ seen'[c] = IF o = NoEvent \/ link[c] = "cut" THEN seen[c] ELSE u
  BY <1>1, <1>3 DEF TypeOK
<1>6. TypeOK'
  <2>1. seen' \in [Conns -> Versions]
    BY <1>1, <1>2, <1>3, <1>4 DEF TypeOK, Versions
  <2> QED
    BY <1>1, <1>3, <2>1 DEF TypeOK, producers, hub, Versions
<1>7. Served(c)'
  BY <1>1, <1>3, <1>5 DEF Served, hub
<1>8. Delivers(c)'
  BY <1>1, <1>2, <1>3, <1>4, <1>5 DEF Delivers, hub, o
<1> QED
  BY <1>1, <1>3, <1>6, <1>7, <1>8, OthersStay DEF TypeOK, hub

LEMMA Closing ==
  ASSUME IInv, NEW c \in Conns, Close(c)
  PROVE  IInv'
<1>1. TypeOK
  BY DEF IInv
<1>2. /\ UNCHANGED <<producers, last, order>> /\ subs' = subs \ {c}
      /\ queue' = [queue EXCEPT ![c] = <<>>] /\ skipped' = [skipped EXCEPT ![c] = {}]
      /\ conn' = [conn EXCEPT ![c] = "none"] /\ out' = [out EXCEPT ![c] = NoEvent]
      /\ link' = [link EXCEPT ![c] = "up"] /\ seen' = [seen EXCEPT ![c] = Blank]
      /\ behind' \in [Names -> SUBSET Conns]
  BY <1>1 DEF Close, TypeOK
<1>3. TypeOK'
  BY <1>1, <1>2, VersionAssumption, QMaxAssumption DEF TypeOK, producers, Blank
<1>4. /\ queue'[c] = <<>> /\ conn'[c] = "none" /\ out'[c] = NoEvent
      /\ link'[c] = "up" /\ seen'[c] = Blank /\ c \notin subs'
  BY <1>1, <1>2 DEF TypeOK
<1>5. Served(c)' /\ Delivers(c)'
  BY <1>1, <1>2, <1>4 DEF Served, Delivers, Rises, TypeOK, Blank
<1> QED
  BY <1>1, <1>2, <1>3, <1>5, OthersStay DEF TypeOK

-----------------------------------------------------------------------------
(* Of a connection nothing is lost and nothing comes out of order.         *)
THEOREM InductiveInvariant == Spec => []IInv
<1>1. Init => IInv
  BY Starts
<1>2. IInv /\ [Next]_vars => IInv'
  <2> SUFFICES ASSUME IInv, [Next]_vars PROVE IInv'
    OBVIOUS
  <2>1. CASE Next
    BY <2>1, Producing, Broadcasting, Connecting, GoingOn, Getting, Writing, Closing DEF Next
  <2>2. CASE UNCHANGED vars
    BY <2>2 DEF vars, producers, hub, clients, IInv, TypeOK, HubInv, Listed, Served,
                Delivers, Rises, Complete
  <2> QED
    BY <2>1, <2>2
<1> QED
  BY <1>1, <1>2, PTL DEF Spec

(* Every state is well typed: no queue holds more than QMax events.        *)
THEOREM TypeCorrect == Spec => []TypeOK
<1>1. IInv => TypeOK
  BY DEF IInv
<1> QED
  BY <1>1, InductiveInvariant, PTL

(* A subscriber shows, holds or has skipped the newest state.              *)
THEOREM NoGap == Spec => []NothingMissed
<1>1. IInv => NothingMissed
  <2> SUFFICES ASSUME IInv, NEW c \in subs, NEW n \in Names,
                      link[c] \in {"up", "stalled"}, n \notin skipped[c]
               PROVE  last[n] \in Pending(c, n) \cup {seen[c][n]}
    BY DEF NothingMissed
  <2>1. c \in Conns /\ queue[c] \in Seq(Events)
    BY DEF IInv, TypeOK
  <2>2. Complete(queue[c], out[c], seen[c], last, n)
    BY <2>1 DEF IInv, Delivers
  <2>3. ASSUME NEW i \in 1..Len(queue[c]), queue[c][i].name = n,
               \A j \in i..Len(queue[c]) : queue[c][j].name = n => queue[c][j].ver = last[n]
        PROVE  last[n] \in Pending(c, n)
    <3>1. queue[c][i].ver = last[n]
      BY <2>1, <2>3
    <3> QED
      BY <2>3, <3>1 DEF Pending
  <2>4. CASE IF out[c] # NoEvent /\ out[c].name = n THEN out[c].ver = last[n]
             ELSE seen[c][n] = last[n]
    BY <2>4 DEF Pending
  <2> QED
    BY <2>2, <2>3, <2>4 DEF Complete
<1> QED
  BY <1>1, InductiveInvariant, PTL

-----------------------------------------------------------------------------
(* A broadcast publishes, a write shows, the end of a connection leaves.   *)
LEMMA Mapped ==
  ASSUME IInv, Next
  PROVE  Abstract!Next \/ UNCHANGED <<last, seen>>
<1>1. ASSUME NEW n \in Names, Broadcast(n)
      PROVE  Abstract!Publish(n)
  <2>1. last' = [last EXCEPT ![n] = value[n]] /\ UNCHANGED seen /\ last \in [Names -> 0..MaxVersion]
    BY <1>1 DEF Broadcast, clients, IInv, TypeOK
  <2>2. last'[n] = value[n] /\ last'[n] >= last[n]
    BY <2>1, VersionAssumption DEF IInv, HubInv, TypeOK
  <2> QED
    BY <2>1, <2>2 DEF Abstract!Publish
<1>2. ASSUME NEW c \in Conns, Write(c)
      PROVE  (\E n \in Names : Abstract!Show(c, n)) \/ UNCHANGED <<last, seen>>
  <2>1. CASE out[c] = NoEvent \/ link[c] = "cut"
    BY <1>2, <2>1 DEF Write, hub
  <2>2. CASE ~(out[c] = NoEvent \/ link[c] = "cut")
    <3> DEFINE n == out[c].name
               v == out[c].ver
    <3>1. /\ out[c] \in Events /\ seen \in [Conns -> Versions] /\ last \in Versions
          /\ queue[c] \in Seq(Events) /\ Rises(queue[c], out[c], seen[c], last)
      BY <2>2, Typed DEF IInv, TypeOK, Delivers, Versions
    <3>2. n \in Names /\ v \in 1..MaxVersion
      BY <3>1 DEF Events
    <3>3. seen[c][n] <= v /\ v <= last[n]
      BY <2>2, <3>1 DEF Rises
    <3>4. seen' = [seen EXCEPT ![c] = [@ EXCEPT ![n] = v]] /\ UNCHANGED last
      BY <1>2, <2>2 DEF Write, hub
    <3>5. seen'[c][n] = v
      BY <3>1, <3>2, <3>4 DEF Versions
    <3> QED
      BY <3>2, <3>3, <3>4, <3>5 DEF Abstract!Show
  <2> QED
    BY <2>1, <2>2
<1>3. ASSUME NEW c \in Conns, Close(c)
      PROVE  Abstract!Leave(c)
  BY <1>3 DEF Close, Abstract!Leave, Abstract!Blank, Blank
<1>4. ASSUME NEW n \in Names, Change(n) \/ Sample(n)
      PROVE  UNCHANGED <<last, seen>>
  BY <1>4 DEF Change, Sample, hub, clients
<1>5. ASSUME NEW c \in Conns, NEW m \in Methods, Connect(c, m)
      PROVE  UNCHANGED <<last, seen>>
  BY <1>5 DEF Connect
<1>6. ASSUME NEW c \in Conns, Start(c) \/ AnswerHead(c) \/ Get(c) \/ Ping(c)
                               \/ Stall(c) \/ Resume(c) \/ Cut(c)
      PROVE  UNCHANGED <<last, seen>>
  BY <1>6 DEF Start, AnswerHead, Get, Ping, Stall, Resume, Cut, hub
<1> QED
  BY <1>1, <1>2, <1>3, <1>4, <1>5, <1>6 DEF Next, Abstract!Next

(* No panel goes back to an older state: replay, queues and writes of any  *)
(* number of connections together implement the feed.                      *)
THEOREM Refinement == Spec => ImplementsFeed
<1>1. Init => Abstract!Init
  BY DEF Init, Abstract!Init, Abstract!Blank, Blank
<1>2. IInv /\ [Next]_vars => [Abstract!Next]_(Abstract!vars)
  <2> SUFFICES ASSUME IInv, [Next]_vars
               PROVE  Abstract!Next \/ UNCHANGED <<last, seen>>
    BY DEF Abstract!vars
  <2>1. CASE Next
    BY <2>1, Mapped
  <2>2. CASE UNCHANGED vars
    BY <2>2 DEF vars, hub, clients
  <2> QED
    BY <2>1, <2>2
<1> QED
  BY <1>1, <1>2, InductiveInvariant, PTL DEF Spec, ImplementsFeed, Abstract!Spec

-----------------------------------------------------------------------------
(* Only the queue of a subscriber can have waited since a broadcast.       *)
Waits == \A c \in Conns, n \in Names : c \in behind[n] => c \in subs /\ queue[c] # <<>>

LEMMA OnlyWaiting ==
  ASSUME IInv, Waits, [Next]_vars
  PROVE  Waits'
<1>1. /\ TypeOK /\ \A c \in Conns : Served(c)
      /\ queue \in [Conns -> Seq(Events)] /\ behind \in [Names -> SUBSET Conns]
  BY DEF IInv, TypeOK
<1>2. ASSUME NEW n \in Names, Broadcast(n)
      PROVE  Waits'
  <2> SUFFICES ASSUME NEW d \in Conns, NEW k \in Names, d \in behind'[k]
               PROVE  d \in subs' /\ queue'[d] # <<>>
    BY DEF Waits
  <2>1. behind' = [behind EXCEPT ![n] = subs] /\ subs' = subs
    BY <1>2 DEF Broadcast
  <2>2. d \in subs
    BY <1>1, <2>1 DEF Waits
  <2>3. queue'[d] = Offer(queue[d], Event(n, value[n])) /\ queue[d] \in Seq(Events)
    BY <1>1, <1>2, <2>2 DEF Broadcast
  <2>4. Event(n, value[n]) \in Events
    BY <1>1 DEF Event, Events, TypeOK
  <2>5. CASE Len(queue[d]) < QMax
    BY <2>1, <2>2, <2>3, <2>4, <2>5 DEF Offer
  <2>6. CASE ~(Len(queue[d]) < QMax)
    BY <2>1, <2>2, <2>3, <2>6, QMaxAssumption DEF Offer
  <2> QED
    BY <2>5, <2>6
<1>3. ASSUME NEW c \in Conns, NEW m \in Methods, Connect(c, m)
      PROVE  Waits'
  <2>1. c \notin subs /\ \A n \in Names : c \notin behind[n]
    BY <1>1, <1>3 DEF Served, Connect, Waits
  <2>2. \A d \in Conns \ {c} : queue'[d] = queue[d]
    BY <1>1, <1>3 DEF Connect
  <2> QED
    BY <1>3, <2>1, <2>2 DEF Connect, Waits
<1>4. ASSUME NEW c \in Conns, Get(c)
      PROVE  Waits'
  <2>1. /\ queue' = [queue EXCEPT ![c] = Tail(queue[c])] /\ UNCHANGED subs
        /\ behind' = IF Len(queue[c]) = 1 THEN [n \in Names |-> behind[n] \ {c}] ELSE behind
    BY <1>4 DEF Get
  <2>2. queue[c] \in Seq(Events) /\ queue[c] # <<>>
    BY <1>1, <1>4 DEF Get
  <2>3. Len(queue[c]) # 1 => Tail(queue[c]) # <<>>
    <3> SUFFICES ASSUME Tail(queue[c]) = <<>> PROVE Len(queue[c]) = 1
      OBVIOUS
    <3>1. Len(Tail(queue[c])) = 0
      <4>1. ASSUME NEW t, t = <<>>
            PROVE  Len(t) = 0
        BY <4>1
      <4> QED
        BY <4>1, Zenon
    <3>2. Len(Tail(queue[c])) = Len(queue[c]) - 1 /\ Len(queue[c]) \in Nat
      BY <2>2
    <3> QED
      BY <3>1, <3>2
  <2> QED
    BY <1>1, <2>1, <2>3 DEF Waits
<1>5. ASSUME NEW c \in Conns, Close(c)
      PROVE  Waits'
  <2>1. /\ queue' = [queue EXCEPT ![c] = <<>>] /\ subs' = subs \ {c}
        /\ behind' = [n \in Names |-> behind[n] \ {c}]
    BY <1>5 DEF Close
  <2> QED
    BY <1>1, <2>1 DEF Waits
<1>6. ASSUME UNCHANGED hub
      PROVE  Waits'
  BY <1>6 DEF Waits, hub
<1>7. ASSUME NEW n \in Names, Change(n) \/ Sample(n)
      PROVE  UNCHANGED hub
  BY <1>7 DEF Change, Sample
<1>8. ASSUME NEW c \in Conns, Start(c) \/ AnswerHead(c) \/ Ping(c) \/ Write(c)
                               \/ Stall(c) \/ Resume(c) \/ Cut(c)
      PROVE  UNCHANGED hub
  BY <1>8 DEF Start, AnswerHead, Ping, Write, Stall, Resume, Cut
<1>9. UNCHANGED vars => UNCHANGED hub
  BY DEF vars
<1> QED
  BY <1>2, <1>3, <1>4, <1>5, <1>6, <1>7, <1>8, <1>9 DEF Next

(* The queue of c holds at most one event of each name whose producer has  *)
(* not gone on since, and none of those producers is about to broadcast.   *)
Keeps(c) ==
  /\ \A n \in Names : sending[n] => c \notin behind[n]
  /\ Len(queue[c]) <= Cardinality({n \in Names : c \in behind[n]})

HasRoom(c) == \A n \in Names : sending[n] => Len(queue[c]) < QMax

LEMMA KeepingUp ==
  ASSUME NEW c \in Conns, IsFiniteSet(Names), IInv, Waits, Reading(c), Reading(c)',
         Keeps(c), [Next]_vars, [Paced]_vars
  PROVE  Keeps(c)'
<1> DEFINE Late == {n \in Names : c \in behind[n]}
<1>1. /\ TypeOK /\ Served(c) /\ conn[c] # "none" /\ c \in subs /\ link[c] = "up"
      /\ queue[c] \in Seq(Events) /\ queue \in [Conns -> Seq(Events)]
      /\ behind \in [Names -> SUBSET Conns] /\ sending \in [Names -> BOOLEAN]
  BY DEF IInv, TypeOK, Served, Reading, Streaming
<1>2. IsFiniteSet(Late) /\ Cardinality(Late) \in Nat
  BY FS_Subset, FS_CardinalityType
<1>3. ASSUME UNCHANGED sending, queue'[c] = queue[c],
             \A n \in Names : c \in behind'[n] <=> c \in behind[n]
      PROVE  Keeps(c)'
  <2>1. {n \in Names : c \in behind'[n]} = Late
    BY <1>3
  <2> QED
    BY <1>3, <2>1 DEF Keeps
<1>4. ASSUME NEW n \in Names, Sample(n)
      PROVE  Keeps(c)'
  <2>1. Paced /\ ~sending[n] /\ sending' = [sending EXCEPT ![n] = TRUE] /\ UNCHANGED hub
    BY <1>1, <1>4 DEF Sample, vars, producers
  <2>2. c \notin behind[n]
    BY <1>1, <2>1 DEF Paced
  <2>3. {k \in Names : c \in behind'[k]} = Late /\ queue'[c] = queue[c]
    BY <2>1 DEF hub
  <2> QED
    BY <1>1, <2>1, <2>2, <2>3 DEF Keeps, hub
<1>5. ASSUME NEW n \in Names, Broadcast(n)
      PROVE  Keeps(c)'
  <2>1. /\ sending[n] /\ sending' = [sending EXCEPT ![n] = FALSE]
        /\ behind' = [behind EXCEPT ![n] = subs]
        /\ queue'[c] = Offer(queue[c], Event(n, value[n]))
    BY <1>1, <1>5 DEF Broadcast
  <2>2. n \notin Late /\ {k \in Names : c \in behind'[k]} = Late \cup {n}
    BY <1>1, <2>1 DEF Keeps
  <2>3. Cardinality(Late \cup {n}) = Cardinality(Late) + 1
    BY <1>2, <2>2, FS_AddElement
  <2>4. Event(n, value[n]) \in Events
    BY <1>1 DEF Event, Events, TypeOK
  <2>5. Len(queue'[c]) <= Len(queue[c]) + 1 /\ Len(queue[c]) \in Nat
    BY <1>1, <2>1, <2>4 DEF Offer
  <2>6. Len(queue'[c]) <= Cardinality({k \in Names : c \in behind'[k]})
    <3>1. Len(queue[c]) <= Cardinality(Late)
      BY DEF Keeps
    <3>2. Len(queue'[c]) \in Nat
      BY <1>1, <2>1, <2>4 DEF Offer
    <3>3. Cardinality({k \in Names : c \in behind'[k]}) = Cardinality(Late) + 1
      BY <2>2, <2>3
    <3> QED
      BY <1>2, <2>5, <3>1, <3>2, <3>3
  <2> QED
    BY <1>1, <2>1, <2>6 DEF Keeps
<1>6. ASSUME Get(c)
      PROVE  Keeps(c)'
  <2>1. /\ queue'[c] = Tail(queue[c]) /\ queue[c] # <<>> /\ UNCHANGED sending
        /\ behind' = IF Len(queue[c]) = 1 THEN [n \in Names |-> behind[n] \ {c}] ELSE behind
    BY <1>1, <1>6 DEF Get, producers
  <2>2. Len(queue'[c]) = Len(queue[c]) - 1 /\ Len(queue[c]) \in Nat
    BY <1>1, <2>1
  <2>3. CASE Len(queue[c]) = 1
    <3>1. \A n \in Names : c \notin behind'[n]
      BY <2>1, <2>3
    <3>2. {n \in Names : c \in behind'[n]} = {}
      BY <3>1
    <3>3. Len(queue'[c]) <= Cardinality({n \in Names : c \in behind'[n]})
      <4>1. Len(queue'[c]) = 0
        BY <2>2, <2>3
      <4>2. Cardinality({n \in Names : c \in behind'[n]}) = 0
        BY <3>2, FS_EmptySet, Zenon
      <4> QED
        BY <4>1, <4>2
    <3> QED
      BY <3>1, <3>3 DEF Keeps
  <2>4. CASE Len(queue[c]) # 1
    <3>1. behind' = behind /\ {n \in Names : c \in behind'[n]} = Late
      BY <2>1, <2>4
    <3>2. Len(queue'[c]) <= Cardinality(Late)
      BY <1>2, <2>2 DEF Keeps
    <3> QED
      BY <2>1, <3>1, <3>2 DEF Keeps
  <2> QED
    BY <2>3, <2>4
<1>7. ASSUME NEW d \in Conns \ {c}, Get(d) \/ Close(d) \/ \E m \in Methods : Connect(d, m)
      PROVE  Keeps(c)'
  <2>1. UNCHANGED sending /\ queue'[c] = queue[c]
    BY <1>1, <1>7 DEF Get, Close, Connect, producers
  <2>2. \A n \in Names : c \in behind'[n] <=> c \in behind[n]
    BY <1>1, <1>7 DEF Get, Close, Connect
  <2> QED
    BY <1>3, <2>1, <2>2
<1>8. ~Close(c) /\ \A m \in Methods : ~Connect(c, m)
  BY <1>1 DEF Close, Connect
<1>9. ASSUME NEW n \in Names, Change(n)
      PROVE  Keeps(c)'
  BY <1>3, <1>9 DEF Change, hub
<1>10. ASSUME NEW d \in Conns, Start(d) \/ AnswerHead(d) \/ Ping(d) \/ Write(d)
                                \/ Stall(d) \/ Resume(d) \/ Cut(d)
       PROVE  Keeps(c)'
  <2>1. UNCHANGED <<producers, hub>>
    BY <1>10 DEF Start, AnswerHead, Ping, Write, Stall, Resume, Cut
  <2> QED
    BY <1>3, <2>1 DEF producers, hub
<1>11. ASSUME UNCHANGED vars
       PROVE  Keeps(c)'
  BY <1>3, <1>11 DEF vars, producers, hub
<1> QED
  BY <1>4, <1>5, <1>6, <1>7, <1>8, <1>9, <1>10, <1>11 DEF Next

LEMMA KeepersHaveRoom ==
  ASSUME NEW c \in Conns, IsFiniteSet(Names), Cardinality(Names) <= QMax, IInv, Keeps(c)
  PROVE  HasRoom(c)
<1> SUFFICES ASSUME NEW n \in Names, sending[n] PROVE Len(queue[c]) < QMax
  BY DEF HasRoom
<1> DEFINE Late == {k \in Names : c \in behind[k]}
<1>1. Late \in SUBSET (Names \ {n}) /\ IsFiniteSet(Names \ {n})
      /\ Cardinality(Names \ {n}) = Cardinality(Names) - 1
  BY FS_RemoveElement DEF Keeps
<1>2. Cardinality(Late) <= Cardinality(Names \ {n}) /\ IsFiniteSet(Late)
  BY <1>1, FS_Subset
<1>3. Cardinality(Late) \in Nat /\ Cardinality(Names) \in Nat /\ Len(queue[c]) \in Nat
  BY <1>2, FS_CardinalityType DEF IInv, TypeOK
<1>4. Len(queue[c]) <= Cardinality(Late)
  BY DEF Keeps
<1> HIDE DEF Late
<1> QED
  BY <1>1, <1>2, <1>3, <1>4, QMaxAssumption

(* Where the room for a reading client comes from: if the queue has a      *)
(* place for each producer, a client that has emptied its queue once and   *)
(* goes on reading finds room at every broadcast, as long as the producers *)
(* sleep longer than it takes to empty it again.                           *)
THEOREM ReaderHasRoom ==
  ASSUME NEW c \in Conns, IsFiniteSet(Names), Cardinality(Names) <= QMax
  PROVE  Spec => [](queue[c] = <<>> /\ [][Paced]_vars /\ []Reading(c) => []HasRoom(c))
<1>1. Init => Waits
  BY DEF Init, Waits
<1>2. IInv /\ Waits /\ [Next]_vars => Waits'
  BY OnlyWaiting
<1>3. IInv /\ Waits /\ queue[c] = <<>> => Keeps(c)
  <2> SUFFICES ASSUME IInv, Waits, queue[c] = <<>> PROVE Keeps(c)
    OBVIOUS
  <2>1. \A n \in Names : c \notin behind[n]
    BY DEF Waits
  <2>2. {n \in Names : c \in behind[n]} = {} /\ Len(queue[c]) = 0
    BY <2>1
  <2> QED
    BY <2>1, <2>2, FS_EmptySet DEF Keeps
<1>4. IInv /\ Waits /\ Reading(c) /\ Reading(c)' /\ Keeps(c) /\ [Next]_vars /\ [Paced]_vars
        => Keeps(c)'
  BY KeepingUp
<1>5. IInv /\ Keeps(c) => HasRoom(c)
  BY KeepersHaveRoom
<1> QED
  BY <1>1, <1>2, <1>3, <1>4, <1>5, InductiveInvariant, PTL DEF Spec
=============================================================================
