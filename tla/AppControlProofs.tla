-------------------------- MODULE AppControlProofs --------------------------
(***************************************************************************)
(* For any number of processes and request threads, any life of the cache  *)
(* and any length of a scan: every snapshot used after a kill was answered *)
(* was read after its signals, a snapshot is used only while it is at most *)
(* TTL and one scan behind, and a pause that resumes the app, overlaps     *)
(* with no other request and reads /proc without an error leaves nothing   *)
(* of it stopped.                                                          *)
(***************************************************************************)
EXTENDS AppControl, FiniteSetTheorems, TLAPS

(* _LOCK: at most one request scans.                                       *)
OneScan == scanning = {} \/ \E t \in Threads : scanning = {t}

(* A scan in progress is no older than ScanTime.                           *)
Ages ==
  /\ cache.at <= clock /\ changed <= clock
  /\ \A t \in scanning : scan[t].at <= clock /\ clock <= scan[t].at + ScanTime

(* A scan shows the processes as they were when it began, unless they have *)
(* changed since, and it began at most ScanTime before it was stored.      *)
Current ==
  /\ cache.read /\ changed < cache.at - ScanTime => cache.data = proc
  /\ \A t \in scanning : changed < scan[t].at => scan[t].data = proc

(* What may have become of a process since its entry was read.             *)
Becomes(a, b) ==
  a.kind # "new" =>
    /\ b.kind # "new"
    /\ b.kind = "main" => a.kind = "main"
    /\ b.of \in {a.of, NoPid}

(* In every listing parents are born before their children.                *)
Rooted(d) ==
  \A p \in Pids : d[p].of \in Pids => d[p].kind # "new" /\ d[d[p].of].kind # "new"

(* A listing whose every entry was true at some time.                      *)
Past(d) == Rooted(d) /\ \A p \in Pids : Becomes(d[p], proc[p])

Pasts == Past(proc) /\ Past(cache.data) /\ \A t \in Threads : Past(scan[t].data)

(* What a request has seen has been born.                                  *)
Known ==
  \A t \in Threads : \A p \in h[t].pids \cup h[t].targets \cup h[t].left :
    proc[p].kind # "new"

(* A process that was killed or has ended by itself.                       *)
Dying(r) == r.kind = "gone" \/ r.life \in {"doomed", "zombie"}

(* A kill has hit all targets but those that are left; only a kill has     *)
(* targets.                                                                *)
Killing ==
  \A t \in Threads :
    /\ h[t].step # "signal" => h[t].targets = {}
    /\ h[t].op # "kill" => h[t].targets = {} /\ h[t].sig # "KILL"
    /\ h[t].op = "kill" =>
         /\ h[t].sig = "KILL" /\ h[t].step \in {"direct", "tree", "signal"}
         /\ \A p \in h[t].targets \ h[t].left : Dying(proc[p])

(* What was killed will not recover, and is seen as such.                  *)
Hit ==
  \A p \in killed :
    /\ Dying(proc[p])
    /\ Fresh(cache) => Dying(cache.data[p])
    /\ \A t \in scanning : Dying(scan[t].data[p])

IInv == TypeOK /\ OneScan /\ Ages /\ Current /\ Pasts /\ Known /\ Killing /\ Hit

-----------------------------------------------------------------------------
(* TypeOK apart from the count of the scans.                               *)
Types ==
  /\ clock \in (TTL + 1)..MaxClock
  /\ proc \in Listing
  /\ cache \in [data : Listing, at : Nat, read : BOOLEAN]
  /\ scan \in [Threads -> [data : Listing, at : Nat]]
  /\ h \in [Threads -> Handler]
  /\ \A t \in scanning : h[t].step \in Calls
  /\ changed \in Nat
  /\ killed \subseteq Pids

LEMMA OneScanCounts == OneScan => Cardinality(scanning) <= 1
<1>1. Cardinality({}) = 0 /\ \A t : Cardinality({t}) = 1
  BY FS_EmptySet, FS_Singleton
<1> QED BY <1>1 DEF OneScan

LEMMA TypesOK == OneScan => (TypeOK <=> Types)
BY OneScanCounts DEF TypeOK, Types

LEMMA UnbornType ==
  /\ Unborn \in Listing
  /\ \A p \in Pids : Unborn[p].kind = "new" /\ Unborn[p].of = NoPid
                     /\ Unborn[p].life = "running"
BY DEF Unborn, Listing, Process, Kinds, Lives

LEMMA UnbornPast == Past(Unborn) /\ Mains(Unborn) = {}
BY UnbornType, PidAssumption DEF Past, Rooted, Becomes, Mains

LEMMA IdleType ==
  /\ Idle \in Handler /\ Idle.step = "idle" /\ Idle.op = "none" /\ Idle.step \notin Calls
  /\ Idle.pids = {} /\ Idle.targets = {} /\ Idle.left = {} /\ Idle.calm = FALSE
  /\ Idle.sig = "CONT"
BY DEF Idle, Handler, Calls

(* The least set of descendants holds those it starts from.                *)
LEMMA DescendantsType ==
  ASSUME NEW d \in Listing, NEW pids \in SUBSET Pids
  PROVE  Descendants(d, pids) \subseteq Pids /\ pids \subseteq Descendants(d, pids)
BY DEF Descendants

(* All that is found as a descendant of what was born has been born.       *)
LEMMA DescendantsBorn ==
  ASSUME NEW d \in Listing, Rooted(d), NEW pids \in SUBSET Pids,
         NEW p \in Descendants(d, pids)
  PROVE  p \in pids \/ d[p].kind # "new"
<1> SUFFICES ASSUME p \notin pids, d[p].kind = "new" PROVE FALSE
  OBVIOUS
<1> DEFINE S == Pids \ {p}
<1>1. p \in Pids /\ pids \subseteq S
  BY DEF Descendants
<1>2. ClosedIn(d, S)
  <2> SUFFICES ASSUME NEW q \in Pids, d[q].of \in S PROVE q \in S
    BY DEF ClosedIn
  <2> QED BY DEF Rooted
<1> QED BY <1>1, <1>2 DEF Descendants

LEMMA InitIInv == Init => IInv
<1> SUFFICES ASSUME Init PROVE IInv
  OBVIOUS
<1>1. Types
  BY UnbornType, IdleType, TTLAssumption, BoundAssumption DEF Init, Types
<1>2. OneScan /\ Ages /\ Current
  BY TTLAssumption DEF Init, OneScan, Ages, Current
<1>3. Pasts
  BY UnbornPast DEF Init, Pasts
<1>4. Known /\ Killing /\ Hit
  BY IdleType DEF Init, Known, Killing, Hit
<1> QED BY <1>1, <1>2, <1>3, <1>4, TypesOK DEF IInv

-----------------------------------------------------------------------------
LEMMA BecomesOn ==
  ASSUME NEW a, NEW b, NEW c, Becomes(a, b), Becomes(b, c)
  PROVE  Becomes(a, c)
BY DEF Becomes

(* What the processes may do in a step: none recovers, none is unborn or   *)
(* adopted by another process of the app, and a change is dated.           *)
Moves ==
  /\ proc' \in Listing /\ Rooted(proc')
  /\ \A p \in Pids : /\ Becomes(proc[p], proc'[p])
                     /\ Dying(proc[p]) => Dying(proc'[p])
  /\ changed' = clock \/ (proc' = proc /\ changed' = changed)

(* A step of the processes, with the cache and the scans left alone, keeps *)
(* all that the invariant says of them.                                    *)
LEMMA MovesInv ==
  ASSUME IInv, Moves, UNCHANGED <<clock, procs, killed>>
  PROVE  OneScan' /\ Ages' /\ Current' /\ Pasts' /\ Hit'
<1>1. /\ clock \in Nat /\ cache.at \in Nat /\ ScanTime \in Nat /\ changed \in Nat
      /\ cache.at <= clock /\ changed <= clock
      /\ \A t \in scanning : scan[t].at \in Nat /\ scan[t].at <= clock
  BY TTLAssumption, BoundAssumption DEF IInv, TypeOK, Ages, OneScan
<1>2. OneScan' /\ Ages'
  BY <1>1 DEF IInv, Moves, procs, OneScan, Ages
<1>3. Current'
  BY <1>1 DEF IInv, Moves, procs, Current
<1>4. Hit'
  BY DEF IInv, TypeOK, Moves, procs, Hit, Fresh
<1>5. Pasts'
  <2>1. ASSUME NEW d, Past(d)
        PROVE  Rooted(d) /\ \A p \in Pids : Becomes(d[p], proc'[p])
    BY <2>1, BecomesOn DEF Moves, Past
  <2>2. Rooted(proc') /\ \A p \in Pids : Becomes(proc'[p], proc'[p])
    BY DEF Moves, Becomes
  <2>3. Past(proc)'
    BY <2>2 DEF Past
  <2>4. Past(cache.data)' /\ \A t \in Threads : Past(scan[t].data)'
    BY <2>1 DEF IInv, Pasts, Past, procs, Rooted
  <2> QED BY <2>3, <2>4 DEF Pasts
<1> QED BY <1>2, <1>3, <1>4, <1>5

(* A new process is the child of none or of one that has been born.        *)
LEMMA BirthMoves ==
  ASSUME IInv, NEW p \in Pids, proc[p].kind = "new", changed' = clock,
         NEW kind \in {"main", "other"}, NEW q \in Pids \cup {NoPid},
         q \in Pids => proc[q].kind # "new",
         proc' = [proc EXCEPT ![p].kind = kind, ![p].of = q]
  PROVE  Moves
<1>1. proc \in Listing /\ Rooted(proc)
  BY DEF IInv, TypeOK, Pasts, Past
<1>2. /\ proc' \in Listing
      /\ proc'[p].kind = kind /\ proc'[p].of = q /\ proc'[p].life = proc[p].life
      /\ \A x \in Pids \ {p} : proc'[x] = proc[x]
  BY <1>1 DEF Listing, Process, Kinds
<1>3. Rooted(proc')
  <2> SUFFICES ASSUME NEW x \in Pids, proc'[x].of \in Pids
               PROVE  proc'[x].kind # "new" /\ proc'[proc'[x].of].kind # "new"
    BY DEF Rooted
  <2>1. \A y \in Pids : proc[y].kind # "new" => proc'[y].kind # "new"
    BY <1>2
  <2>2. CASE x = p
    BY <1>2, <2>1, <2>2
  <2>3. CASE x # p
    <3>1. proc'[x] = proc[x] /\ proc[x].of \in Pids
      BY <1>2, <2>3
    <3> QED BY <1>1, <2>1, <3>1 DEF Rooted
  <2> QED BY <2>2, <2>3
<1>4. \A x \in Pids : Becomes(proc[x], proc'[x]) /\ (Dying(proc[x]) => Dying(proc'[x]))
  BY <1>2 DEF Becomes, Dying
<1> QED BY <1>2, <1>3, <1>4 DEF Moves

(* What becomes of the entry of a process when some process dies.          *)
Dwindles(a, b) ==
  /\ b \in Process /\ Becomes(a, b) /\ (Dying(a) => Dying(b))
  /\ b.life = "stopped" => a.life = "stopped"
  /\ b.of \in Pids => b.of = a.of
  /\ b.kind = "new" => a.kind = "new"

LEMMA EntryDwindles ==
  ASSUME NEW a \in Process
  PROVE  /\ Dwindles(a, a) /\ Dwindles(a, Gone)
         /\ Dwindles(a, Found([a EXCEPT !.of = NoPid]))
         /\ \A kind \in {a.kind, "other"} : a.kind \in {"main", "other"} =>
              Dwindles(a, Found([a EXCEPT !.kind = kind, !.life = "zombie"]))
<1>1. Dwindles(a, a)
  BY DEF Dwindles, Becomes
<1>2. Dwindles(a, Gone)
  BY PidAssumption DEF Dwindles, Becomes, Gone, Process, Kinds, Lives, Dying
<1>3. Dwindles(a, [a EXCEPT !.of = NoPid])
  BY PidAssumption DEF Dwindles, Becomes, Process, Kinds, Lives, Dying
<1>4. ASSUME NEW kind \in {a.kind, "other"}, a.kind \in {"main", "other"}
      PROVE  Dwindles(a, [a EXCEPT !.kind = kind, !.life = "zombie"])
  BY <1>4 DEF Dwindles, Becomes, Process, Kinds, Lives, Dying
<1>5. \A r : Found(r) = Gone \/ Found(r) = r
  BY DEF Found
<1> QED BY <1>1, <1>2, <1>3, <1>4, <1>5

(* A death takes a process and what cannot be found without it.            *)
LEMMA DeathMoves ==
  ASSUME IInv, NEW p \in Pids, Die(p) \/ Reap(p)
  PROVE  Moves /\ \A q \in Pids : proc'[q].life = "stopped" => proc[q].life = "stopped"
<1>1. proc \in Listing /\ Rooted(proc) /\ changed' = clock
  BY DEF IInv, TypeOK, Pasts, Past, Die, Reap, Moved
<1>2. ASSUME NEW q \in Pids PROVE Dwindles(proc[q], proc'[q])
  <2>1. proc[q] \in Process /\ proc[p] \in Process
    BY <1>1 DEF Listing
  <2>2. CASE Reap(p)
    <3>1. proc'[q] = Gone \/ proc'[q] = proc[q]
      BY <1>1, <2>2 DEF Reap, Listing
    <3> QED BY <2>1, <3>1, EntryDwindles
  <2>3. CASE Die(p)
    <3>1. PICK kind \in {proc[p].kind, "other"} :
            proc'[q] = IF q = p THEN Found([proc[p] EXCEPT !.kind = kind, !.life = "zombie"])
                       ELSE IF proc[q].of = p THEN Found([proc[q] EXCEPT !.of = NoPid])
                       ELSE proc[q]
      BY <2>3 DEF Die
    <3>2. proc[p].kind \in {"main", "other"}
      BY <2>3 DEF Die
    <3> QED BY <2>1, <3>1, <3>2, EntryDwindles
  <2> QED BY <2>2, <2>3
<1>3. proc' \in Listing
  <2>1. proc' = [q \in Pids |-> proc'[q]]
    BY <1>1 DEF Die, Reap, Listing
  <2> QED BY <1>2, <2>1 DEF Listing, Dwindles
<1>4. Rooted(proc')
  <2> SUFFICES ASSUME NEW x \in Pids, proc'[x].of \in Pids
               PROVE  proc'[x].kind # "new" /\ proc'[proc'[x].of].kind # "new"
    BY DEF Rooted
  <2>1. proc[x].of = proc'[x].of /\ proc[x].of \in Pids
    BY <1>2 DEF Dwindles
  <2>2. proc[x].kind # "new" /\ proc[proc[x].of].kind # "new"
    BY <1>1, <2>1 DEF Rooted
  <2> QED BY <1>2, <2>1, <2>2 DEF Dwindles
<1> QED BY <1>1, <1>2, <1>3, <1>4 DEF Moves, Dwindles

(* The app moves: its processes are born and die, and none is stopped.     *)
LEMMA AppMoves ==
  ASSUME IInv, NEW p \in Pids,
         \/ Appear(p) \/ Die(p) \/ Reap(p)
         \/ \E q \in Pids, kind \in {"main", "other"} : Fork(q, p, kind)
  PROVE  /\ Moves /\ changed' = clock /\ UNCHANGED <<clock, procs, h, killed>>
         /\ \A q \in Pids : proc'[q].life = "stopped" => proc[q].life = "stopped"
<1>1. /\ changed' = clock /\ UNCHANGED <<clock, procs, h, killed>>
      /\ proc \in Listing /\ Rooted(proc)
  BY DEF Appear, Die, Reap, Fork, Moved, IInv, TypeOK, Pasts, Past
<1>2. CASE Die(p) \/ Reap(p)
  BY <1>1, <1>2, DeathMoves
<1>3. CASE Appear(p)
  <2>1. proc[p].kind = "new" /\ proc' = [proc EXCEPT ![p].kind = "main"]
    BY <1>3 DEF Appear
  <2>2. proc[p].of = NoPid
    BY <1>1, <2>1 DEF Rooted, Listing, Process
  <2>3. proc' = [proc EXCEPT ![p].kind = "main", ![p].of = NoPid]
    BY <1>1, <2>1, <2>2 DEF Listing, Process
  <2>4. Moves
    BY <1>1, <2>1, <2>3, BirthMoves, PidAssumption
  <2>5. \A q \in Pids : proc'[q].life = proc[q].life
    BY <1>1, <2>1 DEF Listing, Process
  <2> QED BY <1>1, <2>4, <2>5
<1>4. ASSUME NEW q \in Pids, NEW kind \in {"main", "other"}, Fork(q, p, kind)
      PROVE  Moves /\ \A x \in Pids : proc'[x].life = proc[x].life
  <2>1. /\ proc[p].kind = "new" /\ q \in Tied(proc)
        /\ proc' = [proc EXCEPT ![p].kind = kind, ![p].of = q]
    BY <1>4 DEF Fork
  <2>2. q \in Mains(proc) \/ proc[q].kind # "new"
    <3>1. Mains(proc) \in SUBSET Pids
      BY DEF Mains
    <3> QED BY <1>1, <2>1, <3>1, DescendantsBorn DEF Tied
  <2>3. proc[q].kind # "new"
    BY <2>2 DEF Mains
  <2>4. Moves
    BY <1>1, <2>1, <2>3, BirthMoves
  <2>5. \A x \in Pids : proc'[x].life = proc[x].life
    BY <1>1, <2>1 DEF Listing, Process
  <2> QED BY <2>4, <2>5
<1> QED BY <1>1, <1>2, <1>3, <1>4

LEMMA AppIInv ==
  ASSUME IInv, NEW p \in Pids,
         \/ Appear(p) \/ Die(p) \/ Reap(p)
         \/ \E q \in Pids, kind \in {"main", "other"} : Fork(q, p, kind)
  PROVE  IInv'
<1>1. Moves /\ changed' = clock /\ UNCHANGED <<clock, procs, h, killed>> /\ TypeOK
  BY AppMoves DEF IInv
<1>2. OneScan' /\ Ages' /\ Current' /\ Pasts' /\ Hit'
  BY <1>1, MovesInv
<1>3. h \in [Threads -> Handler]
  BY <1>1 DEF TypeOK
<1>4. Known'
  BY <1>1, <1>3 DEF IInv, Known, Moves, Becomes, Handler
<1>5. Killing'
  BY <1>1, <1>3 DEF IInv, Killing, Moves, Handler
<1>6. TypeOK'
  BY <1>1, BoundAssumption, TTLAssumption DEF TypeOK, procs, Moves
<1> QED BY <1>2, <1>4, <1>5, <1>6 DEF IInv

(* Time passes: a snapshot that is fresh then was fresh before.            *)
LEMMA TickIInv == ASSUME IInv, Tick PROVE IInv'
<1>1. /\ TypeOK /\ UNCHANGED <<proc, changed, procs, h, killed>>
      /\ clock' = clock + 1 /\ clock < MaxClock
      /\ \A t \in scanning : clock < scan[t].at + ScanTime
  BY DEF IInv, Tick
<1>2. /\ clock \in Nat /\ cache.at \in Nat /\ changed \in Nat /\ TTL \in Nat /\ ScanTime \in Nat
      /\ \A t \in scanning : scan[t].at \in Nat
  BY <1>1, TTLAssumption, BoundAssumption DEF IInv, TypeOK, OneScan
<1>3. TypeOK'
  BY <1>1, <1>2, BoundAssumption DEF TypeOK, procs
<1>4. OneScan' /\ Ages' /\ Current'
  BY <1>1, <1>2 DEF IInv, OneScan, Ages, Current, procs
<1>5. Pasts' /\ Known' /\ Killing'
  BY <1>1 DEF IInv, Pasts, Past, Rooted, Known, Killing, procs
<1>6. Hit'
  BY <1>1, <1>2 DEF IInv, Hit, Fresh, procs
<1> QED BY <1>3, <1>4, <1>5, <1>6 DEF IInv

-----------------------------------------------------------------------------
(* What the invariant says of one handler.                                 *)
Good(r) ==
  /\ r \in Handler
  /\ \A p \in r.pids \cup r.targets \cup r.left : proc[p].kind # "new"
  /\ r.step # "signal" => r.targets = {}
  /\ r.op # "kill" => r.targets = {} /\ r.sig # "KILL"
  /\ r.op = "kill" =>
       /\ r.sig = "KILL" /\ r.step \in {"direct", "tree", "signal"}
       /\ \A p \in r.targets \ r.left : Dying(proc[p])

LEMMA HandlersGood == IInv => \A t \in Threads : Good(h[t])
BY DEF IInv, TypeOK, Known, Killing, Good

LEMMA IdleGood == Good(Idle)
BY IdleType DEF Good

(* What the invariant says of the cache and the scans.                     *)
SnapshotsGood ==
  /\ OneScan /\ Ages /\ Current /\ Pasts /\ Hit
  /\ cache \in [data : Listing, at : Nat, read : BOOLEAN]
  /\ scan \in [Threads -> [data : Listing, at : Nat]]

LEMMA AreGood == IInv => SnapshotsGood
BY DEF IInv, TypeOK, SnapshotsGood

(* A step of one handler that leaves the processes alone.                  *)
LEMMA HandlerIInv ==
  ASSUME IInv, NEW t \in Threads, NEW r, Good(r), h' = [h EXCEPT ![t] = r],
         UNCHANGED <<clock, proc, changed>>,
         SnapshotsGood', \A u \in scanning' : u \in scanning /\ u # t,
         killed' \subseteq Pids
  PROVE  IInv'
<1>1. \A u \in Threads : Good(h'[u])
  BY HandlersGood DEF IInv, TypeOK
<1>2. OneScan' /\ Types'
  <2>1. h \in [Threads -> Handler] /\ \A u \in scanning : u \in Threads /\ h[u].step \in Calls
    BY DEF IInv, TypeOK, OneScan
  <2>2. h' \in [Threads -> Handler] /\ \A u \in scanning' : h'[u].step \in Calls
    BY <2>1 DEF Good
  <2>3. clock \in (TTL + 1)..MaxClock /\ proc \in Listing /\ changed \in Nat
    BY DEF IInv, TypeOK
  <2> QED BY <2>2, <2>3 DEF Types, SnapshotsGood
<1>3. TypeOK'
  <2>1. (OneScan => (TypeOK <=> Types))'
    BY TypesOK, PTL
  <2> QED BY <1>2, <2>1
<1>4. Known' /\ Killing'
  BY <1>1 DEF Known, Killing, Good
<1> QED BY <1>2, <1>3, <1>4 DEF IInv, SnapshotsGood

(* snapshot() returns: what it returns and stores is sound, and the        *)
(* handler goes on as r.                                                   *)
LEMMA ReturnsGood ==
  ASSUME IInv, NEW t \in Threads, NEW d, NEW r, Returns(t, d, r), UNCHANGED <<system, killed>>
  PROVE  /\ SnapshotsGood'
         /\ \A u \in scanning' : u \in scanning /\ u # t
         /\ d \in Listing /\ Past(d)
         /\ \/ h' = [h EXCEPT ![t] = r]
            \/ h' = [h EXCEPT ![t] = [r EXCEPT !.calm = FALSE]]
<1>1. SnapshotsGood /\ UNCHANGED <<clock, proc, changed, killed>> /\ killed \subseteq Pids
  BY AreGood DEF IInv, TypeOK, system
<1>2. CASE t \notin scanning /\ d = cache.data /\ UNCHANGED procs /\ h' = [h EXCEPT ![t] = r]
  <2>1. UNCHANGED <<cache, scanning, scan>>
    BY <1>2 DEF procs
  <2>2. SnapshotsGood'
    <3>1. OneScan' /\ Ages' /\ Current' /\ Hit'
      BY <1>1, <2>1 DEF SnapshotsGood, OneScan, Ages, Current, Hit, Fresh
    <3>2. Pasts'
      BY <1>1, <2>1 DEF SnapshotsGood, Pasts, Past, Rooted
    <3> QED BY <1>1, <2>1, <3>1, <3>2 DEF SnapshotsGood
  <2> QED BY <1>1, <1>2, <2>1, <2>2 DEF SnapshotsGood, Pasts
<1>3. ASSUME NEW read \in BOOLEAN, Scanned(t, d, read) PROVE
         /\ SnapshotsGood'
         /\ \A u \in scanning' : u \in scanning /\ u # t
         /\ d \in Listing /\ Past(d)
  <2>1. /\ t \in scanning /\ d = (IF read THEN scan[t].data ELSE Unborn)
        /\ cache' = [data |-> d, at |-> clock, read |-> read]
        /\ scanning' = scanning \ {t}
        /\ scan' = [scan EXCEPT ![t] = [data |-> Unborn, at |-> 0]]
    BY <1>3 DEF Scanned
  <2>2. d \in Listing /\ Past(d)
    BY <1>1, <2>1, UnbornType, UnbornPast DEF SnapshotsGood, Pasts
  <2>3. /\ clock \in Nat /\ ScanTime \in Nat /\ changed \in Nat /\ changed <= clock
        /\ scan[t].at \in Nat /\ clock <= scan[t].at + ScanTime
        /\ read /\ changed < scan[t].at => d = proc
        /\ \A p \in killed : Dying(proc[p]) /\ (read => Dying(d[p]))
    BY <1>1, <2>1, TTLAssumption, BoundAssumption
       DEF IInv, TypeOK, SnapshotsGood, Ages, Current, Hit
  <2>4. scanning' = {} /\ cache'.data = d /\ cache'.at = clock /\ cache'.read = read
    BY <1>1, <2>1 DEF SnapshotsGood, OneScan
  <2>5. OneScan' /\ Ages' /\ Current' /\ Hit'
    BY <1>1, <2>3, <2>4 DEF OneScan, Ages, Current, Hit, Fresh
  <2>6. /\ (cache \in [data : Listing, at : Nat, read : BOOLEAN])'
        /\ (scan \in [Threads -> [data : Listing, at : Nat]])'
    BY <1>1, <2>1, <2>2, <2>3, UnbornType DEF SnapshotsGood
  <2>7. Pasts'
    <3>1. \A e : Past(e) => Past(e)
      OBVIOUS
    <3>2. \A u \in Threads : scan'[u].data = scan[u].data \/ scan'[u].data = Unborn
      BY <1>1, <2>1 DEF SnapshotsGood
    <3>3. \A u \in Threads : Past(scan'[u].data)
      BY <1>1, <3>2, UnbornPast DEF SnapshotsGood, Pasts
    <3>4. Past(proc) /\ Past(cache'.data)
      BY <1>1, <2>2, <2>4 DEF SnapshotsGood, Pasts
    <3> QED BY <1>1, <3>3, <3>4 DEF Pasts, Past, Rooted
  <2> QED BY <2>2, <2>4, <2>5, <2>6, <2>7 DEF SnapshotsGood
<1>4. \/ t \notin scanning /\ d = cache.data /\ UNCHANGED procs /\ h' = [h EXCEPT ![t] = r]
      \/ Scanned(t, d, TRUE) /\ h' = [h EXCEPT ![t] = r]
      \/ Scanned(t, d, FALSE) /\ h' = [h EXCEPT ![t] = [r EXCEPT !.calm = FALSE]]
  BY DEF Returns
<1> QED BY <1>2, <1>3, <1>4

(* What find_app_pids and descendants list has been born.                  *)
LEMMA Listed ==
  ASSUME IInv, NEW d \in Listing, Past(d), NEW pids \in SUBSET Pids
  PROVE  /\ Mains(d) \subseteq Pids /\ Descendants(d, pids) \subseteq Pids
         /\ \A p \in Mains(d) : proc[p].kind # "new"
         /\ \A p \in Descendants(d, pids) : p \in pids \/ proc[p].kind # "new"
<1>1. \A p \in Pids : d[p].kind # "new" => proc[p].kind # "new"
  BY DEF Past, Becomes
<1>2. Mains(d) \subseteq Pids /\ \A p \in Mains(d) : proc[p].kind # "new"
  BY <1>1 DEF Mains
<1>3. Descendants(d, pids) \subseteq Pids
  BY DescendantsType
<1>4. \A p \in Descendants(d, pids) : p \in pids \/ d[p].kind # "new"
  BY DescendantsBorn DEF Past
<1> QED BY <1>1, <1>2, <1>3, <1>4

-----------------------------------------------------------------------------
(* A request arrives; the others only learn that they are not alone.       *)
LEMMA BeginIInv ==
  ASSUME IInv, NEW t \in Threads, NEW op \in Ops, Begin(t, op) PROVE IInv'
<1>1. /\ TypeOK /\ h[t] = Idle /\ t \notin scanning
      /\ UNCHANGED <<clock, proc, changed, procs, killed>>
  BY IdleType DEF IInv, TypeOK, Begin, system
<1>2. Good(h'[t]) /\ h'[t].step \in Calls
  <2> DEFINE r == [Idle EXCEPT !.op = op,
                     !.step = IF op \in {"close", "kill"} THEN "direct" ELSE "find",
                     !.sig = IF op = "kill" THEN "KILL" ELSE "CONT",
                     !.calm = op = "pause" /\ \A v \in Threads : h[v] = Idle]
  <2>1. h'[t] = r
    BY DEF Begin
  <2>2. /\ r.op = op /\ r.step \in {"direct", "find"} /\ r.pids = {} /\ r.targets = {}
        /\ r.left = {} /\ r.sig = IF op = "kill" THEN "KILL" ELSE "CONT"
        /\ op = "kill" => r.step = "direct"
    BY DEF Idle
  <2>3. r \in Handler
    BY IdleType DEF Handler, Calls
  <2> HIDE DEF r
  <2> QED BY <2>1, <2>2, <2>3 DEF Good, Calls
<1>3. ASSUME NEW u \in Threads, u # t PROVE Good(h'[u]) /\ h'[u].step = h[u].step
  <2>1. h'[u] = [h[u] EXCEPT !.calm = FALSE] /\ Good(h[u])
    BY <1>3, HandlersGood DEF Begin
  <2> QED BY <2>1 DEF Good, Handler
<1>4. h' \in [Threads -> Handler]
  BY <1>2, <1>3 DEF Good, Begin
<1>5. \A u \in scanning : u \in Threads /\ h'[u].step \in Calls
  BY <1>1, <1>3 DEF IInv, TypeOK, OneScan
<1>6. TypeOK'
  BY <1>1, <1>4, <1>5 DEF TypeOK, procs
<1>7. Known' /\ Killing'
  BY <1>1, <1>2, <1>3 DEF IInv, Known, Killing, Good
<1>8. OneScan' /\ Ages' /\ Current' /\ Hit'
  BY <1>1 DEF IInv, OneScan, Ages, Current, Hit, Fresh, procs
<1>9. Pasts'
  BY <1>1 DEF IInv, Pasts, Past, Rooted, procs
<1> QED BY <1>6, <1>7, <1>8, <1>9 DEF IInv

(* A scan begins: it shows what there is.                                  *)
LEMMA ScanIInv == ASSUME IInv, NEW t \in Threads, Scan(t) PROVE IInv'
<1>1. /\ TypeOK /\ scanning = {} /\ scanning' = {t} /\ h[t].step \in Calls
      /\ scan' = [scan EXCEPT ![t] = [data |-> proc, at |-> clock]]
      /\ UNCHANGED <<clock, proc, changed, cache, h, killed>>
  BY DEF IInv, Scan, Free, system
<1>2. clock \in Nat /\ ScanTime \in Nat
  BY <1>1, TTLAssumption, BoundAssumption DEF TypeOK
<1>3. OneScan' /\ Ages' /\ Current' /\ Hit'
  BY <1>1, <1>2 DEF IInv, TypeOK, OneScan, Ages, Current, Hit, Fresh
<1>4. Types
  BY TypesOK DEF IInv
<1>5. Types'
  BY <1>1, <1>2, <1>4 DEF Types
<1>6. TypeOK'
  <2>1. (OneScan => (TypeOK <=> Types))'
    BY TypesOK, PTL
  <2> QED BY <1>3, <1>5, <2>1
<1>7. Known' /\ Killing'
  BY <1>1 DEF IInv, Known, Killing
<1>8. Pasts'
  <2>1. \A u \in Threads : scan'[u].data = scan[u].data \/ scan'[u].data = proc
    BY <1>1 DEF TypeOK
  <2>2. \A u \in Threads : Past(scan'[u].data)
    BY <2>1 DEF IInv, Pasts
  <2> QED BY <1>1, <2>2 DEF IInv, Pasts, Past, Rooted
<1> QED BY <1>3, <1>6, <1>7, <1>8 DEF IInv

(* The scan reads one entry.                                               *)
LEMMA ReadIInv ==
  ASSUME IInv, NEW t \in Threads, NEW p \in Pids, Read(t, p) PROVE IInv'
<1>1. /\ TypeOK /\ t \in scanning /\ scan[t].data[p].kind # "new"
      /\ scan' = [scan EXCEPT ![t].data[p] = proc[p]]
      /\ UNCHANGED <<clock, proc, changed, cache, scanning, h, killed>>
  BY DEF IInv, Read, system
<1>2. /\ scan[t].data \in Listing /\ proc \in Listing
      /\ \A u \in Threads : scan'[u].at = scan[u].at
      /\ \A u \in Threads \ {t} : scan'[u] = scan[u]
      /\ scan'[t].data = [scan[t].data EXCEPT ![p] = proc[p]]
      /\ scan' \in [Threads -> [data : Listing, at : Nat]]
  BY <1>1 DEF TypeOK, Listing
<1>3. TypeOK'
  BY <1>1, <1>2 DEF TypeOK
<1>4. OneScan' /\ Ages'
  BY <1>1, <1>2 DEF IInv, OneScan, Ages
<1>5. Current'
  <2>1. changed < scan[t].at => scan'[t].data = proc
    BY <1>1, <1>2 DEF IInv, Current, Listing
  <2> QED BY <1>1, <1>2, <2>1 DEF IInv, Current, OneScan
<1>6. Known' /\ Killing'
  BY <1>1 DEF IInv, Known, Killing
<1>7. Hit'
  BY <1>1, <1>2 DEF IInv, TypeOK, Hit, Fresh, OneScan, Listing
<1>8. Past(scan'[t].data)
  <2> DEFINE d == scan[t].data
             e == scan'[t].data
  <2>1. Past(d) /\ Past(proc) /\ e[p] = proc[p] /\ \A q \in Pids \ {p} : e[q] = d[q]
    BY <1>1, <1>2 DEF IInv, Pasts, Listing
  <2>2. d[p].kind # "new" /\ Becomes(d[p], proc[p]) /\ e[p].kind # "new"
    BY <1>1, <2>1 DEF Past, Becomes
  <2>3. \A q \in Pids : e[q].kind = "new" => d[q].kind = "new"
    BY <2>1, <2>2
  <2>4. \A q \in Pids : e[q].of \in Pids => e[q].of = d[q].of
    BY <2>1, <2>2, PidAssumption DEF Becomes
  <2>5. Rooted(e)
    BY <2>1, <2>3, <2>4 DEF Past, Rooted
  <2>6. \A q \in Pids : Becomes(e[q], proc[q])
    BY <2>1 DEF Past
  <2> HIDE DEF e
  <2> QED BY <2>5, <2>6 DEF Past, e
<1>9. Pasts'
  <2>1. \A u \in Threads : Past(scan'[u].data)
    BY <1>2, <1>8 DEF IInv, Pasts
  <2> QED BY <1>1, <2>1 DEF IInv, Pasts, Past, Rooted
<1> QED BY <1>3, <1>4, <1>5, <1>6, <1>7, <1>9 DEF IInv

(* A request goes on with what snapshot() returned.                        *)
LEMMA LookIInv ==
  ASSUME IInv, NEW t \in Threads, NEW d, NEW r, Good(r), Returns(t, d, r),
         UNCHANGED <<system, killed>>
  PROVE  IInv'
<1>1. SnapshotsGood' /\ \A u \in scanning' : u \in scanning /\ u # t
  BY ReturnsGood
<1>2. UNCHANGED <<clock, proc, changed>> /\ killed' \subseteq Pids
  BY DEF IInv, TypeOK, system
<1>3. Good([r EXCEPT !.calm = FALSE])
  BY DEF Good, Handler
<1>4. PICK r2 \in {r, [r EXCEPT !.calm = FALSE]} : h' = [h EXCEPT ![t] = r2]
  BY ReturnsGood
<1>5. Good(r2)
  BY <1>3, <1>4
<1> QED BY <1>1, <1>2, <1>4, <1>5, HandlerIInv

LEMMA FindIInv == ASSUME IInv, NEW t \in Threads, Find(t) PROVE IInv'
<1> DEFINE q == h[t]
           r(d) == CASE Mains(d) = {} /\ q.op = "toggle" -> [q EXCEPT !.step = "launch"]
                     [] Mains(d) = {}                    -> Idle
                     [] q.op = "toggle"                  -> [q EXCEPT !.step = "direct"]
                     [] OTHER -> [q EXCEPT !.step = "judge", !.pids = Mains(d)]
<1>1. PICK d : Returns(t, d, r(d))
  BY DEF Find
<1>2. UNCHANGED <<system, killed>> /\ q.step = "find"
  BY DEF Find
<1>3. Good(q)
  BY HandlersGood
<1>4. d \in Listing /\ Past(d)
  BY <1>1, <1>2, ReturnsGood
<1>5. Mains(d) \subseteq Pids /\ \A p \in Mains(d) : proc[p].kind # "new"
  BY <1>4, Listed
<1>6. Good([q EXCEPT !.step = "launch"]) /\ Good([q EXCEPT !.step = "direct"])
  BY <1>2, <1>3 DEF Good, Handler, Calls
<1>7. Good([q EXCEPT !.step = "judge", !.pids = Mains(d)])
  BY <1>2, <1>3, <1>5 DEF Good, Handler, Calls
<1>8. Good(r(d))
  <2>1. CASE Mains(d) = {} /\ q.op = "toggle"
    BY <1>6, <2>1
  <2>2. CASE Mains(d) = {} /\ q.op # "toggle"
    BY <2>2, IdleGood
  <2>3. CASE Mains(d) # {} /\ q.op = "toggle"
    BY <1>6, <2>3
  <2>4. CASE Mains(d) # {} /\ q.op # "toggle"
    BY <1>7, <2>4
  <2> QED BY <2>1, <2>2, <2>3, <2>4
<1> HIDE DEF r
<1> QED BY <1>1, <1>2, <1>8, LookIInv

LEMMA JudgeIInv == ASSUME IInv, NEW t \in Threads, Judge(t) PROVE IInv'
<1> DEFINE q == h[t]
           sig(d) == IF q.pids \cap Stopped(d) # {} THEN "CONT" ELSE "STOP"
           on(d) == [q EXCEPT !.step = "direct", !.pids = {}, !.sig = sig(d)]
           r(d) == IF q.op = "status" THEN Idle ELSE on(d)
<1>1. PICK d : Returns(t, d, r(d))
  BY DEF Judge
<1>2. UNCHANGED <<system, killed>> /\ q.step = "judge"
  BY DEF Judge
<1>3. Good(q) /\ q.op # "kill"
  BY <1>2, HandlersGood DEF Good
<1>4. Good(on(d))
  BY <1>2, <1>3 DEF Good, Handler, Calls
<1>5. Good(r(d))
  BY <1>4, IdleGood
<1> HIDE DEF r
<1> QED BY <1>1, <1>2, <1>5, LookIInv

LEMMA DirectIInv == ASSUME IInv, NEW t \in Threads, Direct(t) PROVE IInv'
<1> DEFINE q == h[t]
           pids(d) == IF ForWindow(t) THEN {} ELSE Mains(d)
           on(d) == [q EXCEPT !.step = "tree", !.pids = pids(d)]
           done == [q EXCEPT !.step = "signal"]
           r(d) == IF Mains(d) # {} THEN on(d) ELSE IF ForWindow(t) THEN Idle ELSE done
<1>1. PICK d : Returns(t, d, r(d))
  BY DEF Direct
<1>2. UNCHANGED <<system, killed>> /\ q.step = "direct"
  BY DEF Direct
<1>3. Good(q)
  BY HandlersGood
<1>4. d \in Listing /\ Past(d)
  BY <1>1, <1>2, ReturnsGood
<1>5. pids(d) \subseteq Pids /\ \A p \in pids(d) : proc[p].kind # "new"
  BY <1>4, Listed
<1>6. Good(on(d)) /\ Good(done)
  <2> HIDE DEF pids
  <2> QED BY <1>2, <1>3, <1>5 DEF Good, Handler, Calls
<1>7. Good(r(d))
  BY <1>6, IdleGood
<1> HIDE DEF r
<1> QED BY <1>1, <1>2, <1>7, LookIInv

LEMMA TreeIInv == ASSUME IInv, NEW t \in Threads, Tree(t) PROVE IInv'
<1> DEFINE q == h[t]
           all(d) == Descendants(d, q.pids)
           on(d) == [q EXCEPT !.step = "signal", !.pids = {},
                       !.targets = IF q.op = "kill" THEN all(d) ELSE {}, !.left = all(d)]
           r(d) == IF ForWindow(t) THEN Idle ELSE on(d)
<1>1. PICK d : Returns(t, d, r(d))
  BY DEF Tree
<1>2. UNCHANGED <<system, killed>> /\ q.step = "tree"
  BY DEF Tree
<1>3. Good(q)
  BY HandlersGood
<1>4. d \in Listing /\ Past(d)
  BY <1>1, <1>2, ReturnsGood
<1>5. all(d) \subseteq Pids /\ \A p \in all(d) : proc[p].kind # "new"
  BY <1>3, <1>4, Listed DEF Good, Handler
<1>6. Good(on(d))
  <2> HIDE DEF all
  <2> QED BY <1>2, <1>3, <1>5 DEF Good, Handler, Calls
<1>7. Good(r(d))
  BY <1>6, IdleGood
<1> HIDE DEF r
<1> QED BY <1>1, <1>2, <1>7, LookIInv
-----------------------------------------------------------------------------
(* What a signal makes of an entry.                                        *)
LEMMA StruckEntry ==
  ASSUME NEW a \in Process, NEW sig, NEW b, b = [a EXCEPT !.life = Struck(a, sig)]
  PROVE  /\ b \in Process /\ Becomes(a, b) /\ b.kind = a.kind /\ b.of = a.of
         /\ Dying(a) => Dying(b)
         /\ sig = "KILL" => Dying(b)
         /\ b.life = Struck(a, sig)
<1>1. Struck(a, sig) \in Lives
  BY DEF Struck, Process, Lives
<1>2. b \in Process /\ b.kind = a.kind /\ b.of = a.of /\ b.life = Struck(a, sig)
  BY <1>1 DEF Process
<1>3. Becomes(a, b)
  BY <1>2 DEF Becomes
<1>4. a.life \in {"doomed", "zombie"} => Struck(a, sig) = a.life
  BY DEF Struck
<1>5. sig = "KILL" => Struck(a, sig) \in {"doomed", "zombie"}
  BY DEF Struck, Process, Lives
<1> QED BY <1>2, <1>3, <1>4, <1>5 DEF Dying

(* One process is signalled: if it is killed, or has died before, it will  *)
(* not recover.                                                            *)
LEMMA SignalMoves ==
  ASSUME IInv, NEW t \in Threads, NEW p \in Pids, Signal(t, p)
  PROVE  /\ Moves /\ (h[t].sig = "KILL" => Dying(proc'[p]))
         /\ proc'[p].life = Struck(proc[p], h[t].sig)
         /\ \A q \in Pids \ {p} : proc'[q] = proc[q]
         /\ \A q \in Pids : proc'[q].kind = proc[q].kind /\ proc'[q].of = proc[q].of
<1>1. /\ proc \in Listing /\ Rooted(proc) /\ proc[p] \in Process
      /\ proc' = [proc EXCEPT ![p].life = Struck(proc[p], h[t].sig)]
      /\ changed' = IF proc' = proc THEN changed ELSE clock
  BY DEF IInv, TypeOK, Pasts, Past, Signal, Listing
<1>2. proc'[p] = [proc[p] EXCEPT !.life = Struck(proc[p], h[t].sig)]
      /\ \A q \in Pids \ {p} : proc'[q] = proc[q]
  BY <1>1 DEF Listing
<1>3. /\ proc'[p] \in Process /\ Becomes(proc[p], proc'[p])
      /\ proc'[p].kind = proc[p].kind /\ proc'[p].of = proc[p].of
      /\ Dying(proc[p]) => Dying(proc'[p])
      /\ h[t].sig = "KILL" => Dying(proc'[p])
      /\ proc'[p].life = Struck(proc[p], h[t].sig)
  <2> DEFINE sig == h[t].sig
             b == proc'[p]
  <2>1. proc[p] \in Process /\ b = [proc[p] EXCEPT !.life = Struck(proc[p], sig)]
    BY <1>1, <1>2
  <2> HIDE DEF sig, b
  <2>2. /\ b \in Process /\ Becomes(proc[p], b)
        /\ b.kind = proc[p].kind /\ b.of = proc[p].of
        /\ Dying(proc[p]) => Dying(b)
        /\ sig = "KILL" => Dying(b)
        /\ b.life = Struck(proc[p], sig)
    BY <2>1, StruckEntry
  <2> QED BY <2>2 DEF sig, b
<1>4. proc' \in Listing
  BY <1>1, <1>2, <1>3 DEF Listing
<1>5. \A q \in Pids : Becomes(proc[q], proc'[q]) /\ (Dying(proc[q]) => Dying(proc'[q]))
  BY <1>2, <1>3 DEF Becomes
<1>6. \A q \in Pids : proc'[q].kind = proc[q].kind /\ proc'[q].of = proc[q].of
  BY <1>2, <1>3
<1>7. Rooted(proc')
  BY <1>1, <1>6 DEF Rooted
<1> QED BY <1>1, <1>2, <1>3, <1>4, <1>5, <1>6, <1>7 DEF Moves

LEMMA SignalIInv ==
  ASSUME IInv, NEW t \in Threads, NEW p \in Pids, Signal(t, p) PROVE IInv'
<1> DEFINE r == [h[t] EXCEPT !.left = @ \ {p}]
<1>1. /\ TypeOK /\ Good(h[t])
      /\ h[t].step = "signal" /\ p \in h[t].left
      /\ h' = [h EXCEPT ![t] = r]
      /\ UNCHANGED <<clock, procs, killed>>
  BY HandlersGood DEF IInv, TypeOK, Signal
<1>2. Moves /\ (h[t].sig = "KILL" => Dying(proc'[p]))
  BY SignalMoves
<1>3. OneScan' /\ Ages' /\ Current' /\ Pasts' /\ Hit'
  BY <1>1, <1>2, MovesInv
<1>4. /\ r \in Handler /\ r.op = h[t].op /\ r.step = "signal" /\ r.sig = h[t].sig
      /\ r.pids = h[t].pids /\ r.targets = h[t].targets /\ r.left = h[t].left \ {p}
  BY <1>1 DEF Good, Handler
<1>5. \A u \in Threads \ {t} : h'[u] = h[u]
  BY <1>1 DEF TypeOK
<1>6. h'[t] = r /\ h' \in [Threads -> Handler] /\ h \in [Threads -> Handler]
  BY <1>1, <1>4 DEF TypeOK
<1> HIDE DEF r
<1>7. Known'
  BY <1>1, <1>2, <1>4, <1>5, <1>6 DEF IInv, Known, Moves, Becomes, Handler
<1>8. Killing'
  <2>1. ASSUME NEW u \in Threads, u # t, NEW q \in h[u].targets \ h[u].left, h[u].op = "kill"
        PROVE  Dying(proc'[q])
    BY <1>1, <1>2, <1>6, <2>1 DEF IInv, Handler, Killing, Moves
  <2>2. ASSUME NEW q \in r.targets \ r.left, r.op = "kill"
        PROVE  Dying(proc'[q])
    BY <1>1, <1>2, <1>4, <2>2 DEF Good, Handler, Moves
  <2> QED BY <1>1, <1>4, <1>5, <1>6, <2>1, <2>2 DEF IInv, Killing, Good
<1>9. TypeOK'
  <2>1. \A u \in scanning : u \in Threads /\ u # t
    BY <1>1 DEF IInv, TypeOK, OneScan, Calls
  <2>2. changed' \in Nat
    BY <1>1, <1>2, TTLAssumption, BoundAssumption DEF TypeOK, Moves
  <2> QED BY <1>1, <1>2, <1>5, <1>6, <2>1, <2>2 DEF TypeOK, procs, Moves
<1> QED BY <1>3, <1>7, <1>8, <1>9 DEF IInv

(* The end of a request: a launch or an answer changes no snapshot, and    *)
(* after invalidate() none is fresh.                                       *)
LEMMA EndIInv ==
  ASSUME IInv, NEW t \in Threads, Answer(t) \/ Launch(t) \/ Invalidate(t)
  PROVE  IInv'
<1>1. /\ Good(h[t]) /\ SnapshotsGood /\ TypeOK /\ t \notin scanning
      /\ \A u \in scanning : u \in scanning /\ u # t
  BY HandlersGood, AreGood DEF IInv, TypeOK, Answer, Launch, Invalidate, Calls
<1>2. CASE Answer(t) \/ Launch(t)
  <2>1. PICK r \in {Idle, [h[t] EXCEPT !.step = "signal"]} :
          h' = [h EXCEPT ![t] = r] /\ (r = Idle \/ h[t].step = "launch")
    BY <1>2 DEF Launch, Answer
  <2>2. Good(r)
    BY <1>1, <2>1, IdleGood DEF Good, Handler
  <2>3. UNCHANGED <<clock, proc, changed, cache, scanning, scan, killed>>
    BY <1>2 DEF Launch, Answer, system, procs
  <2>4. SnapshotsGood'
    <3>1. OneScan' /\ Ages' /\ Current' /\ Hit'
      BY <1>1, <2>3 DEF SnapshotsGood, OneScan, Ages, Current, Hit, Fresh
    <3>2. Pasts'
      BY <1>1, <2>3 DEF SnapshotsGood, Pasts, Past, Rooted
    <3> QED BY <1>1, <2>3, <3>1, <3>2 DEF SnapshotsGood
  <2>5. killed' \subseteq Pids /\ scanning' = scanning
    BY <1>1, <2>3 DEF TypeOK
  <2> QED BY <1>1, <2>1, <2>2, <2>3, <2>4, <2>5, HandlerIInv
<1>3. CASE Invalidate(t)
  <2>1. /\ h' = [h EXCEPT ![t] = Idle] /\ scanning = {}
        /\ cache' = [cache EXCEPT !.at = 0]
        /\ killed' = killed \cup h[t].targets
        /\ UNCHANGED <<clock, proc, changed, scanning, scan>>
    BY <1>3 DEF Invalidate, Free, system
  <2>2. h[t].targets \subseteq Pids /\ \A p \in h[t].targets : Dying(proc[p])
    BY <1>1, <1>3 DEF Invalidate, Good, Handler
  <2>3. /\ cache'.at = 0 /\ cache'.data = cache.data
        /\ cache' \in [data : Listing, at : Nat, read : BOOLEAN]
        /\ clock \in Nat /\ changed \in Nat /\ ScanTime \in Nat /\ TTL \in Nat /\ clock > TTL
    BY <1>1, <2>1, TTLAssumption, BoundAssumption DEF TypeOK
  <2>4. SnapshotsGood'
    <3>1. (\A p \in killed : Dying(proc[p]))'
      BY <1>1, <2>1, <2>2 DEF SnapshotsGood, Hit
    <3>2. ~Fresh(cache)'
      BY <2>1, <2>3 DEF Fresh
    <3>3. OneScan' /\ Ages' /\ Current' /\ Hit'
      BY <1>1, <2>1, <2>3, <3>1, <3>2 DEF SnapshotsGood, OneScan, Ages, Current, Hit
    <3>4. Pasts'
      BY <1>1, <2>1, <2>3 DEF SnapshotsGood, Pasts, Past, Rooted
    <3> QED BY <1>1, <2>1, <2>3, <3>3, <3>4 DEF SnapshotsGood
  <2>5. killed' \subseteq Pids /\ scanning' = scanning
    BY <1>1, <2>1, <2>2 DEF TypeOK
  <2> QED BY <1>1, <2>1, <2>4, <2>5, IdleGood, HandlerIInv
<1> QED BY <1>2, <1>3

LEMMA NextIInv == IInv /\ [Next]_vars => IInv'
<1> SUFFICES ASSUME IInv, [Next]_vars PROVE IInv'
  OBVIOUS
<1>1. CASE UNCHANGED vars
  <2>1. UNCHANGED <<clock, proc, changed, cache, scanning, scan, h, killed>>
    BY <1>1 DEF vars, system, procs
  <2> QED BY <2>1 DEF IInv, TypeOK, OneScan, Ages, Current, Pasts, Past, Rooted, Known,
            Killing, Hit, Fresh
<1>2. CASE Next
  BY <1>2, TickIInv, AppIInv, BeginIInv, ScanIInv, ReadIInv, FindIInv, JudgeIInv, DirectIInv,
     TreeIInv, SignalIInv, EndIInv DEF Next
<1> QED BY <1>1, <1>2

(* The invariant holds for all interleavings of requests and processes.    *)
THEOREM InductiveInvariant == Spec => []IInv
BY InitIInv, NextIInv, PTL DEF Spec

(* Processes, snapshots and handlers are well typed, and at most one       *)
(* request scans.                                                          *)
THEOREM TypeCorrect == Spec => []TypeOK
<1>1. IInv => TypeOK
  BY DEF IInv
<1> QED BY <1>1, InductiveInvariant, PTL

(* No snapshot that is used after a kill was answered lists a process as   *)
(* it was before the kill hit it.                                          *)
THEOREM KillsSeen == Spec => []KillIsSeen
<1>1. IInv => KillIsSeen
  BY DEF IInv, Hit, KillIsSeen, Unhurt, Dying
<1> QED BY <1>1, InductiveInvariant, PTL

(* A snapshot that is used is at most TTL and one scan behind.             *)
THEOREM SettledSeen == Spec => []SettledIsSeen
<1>1. ASSUME IInv PROVE SettledIsSeen
  <2>1. /\ clock \in Nat /\ cache.at \in Nat /\ changed \in Nat
        /\ TTL \in Nat /\ ScanTime \in Nat
        /\ cache.read /\ changed < cache.at - ScanTime => cache.data = proc
    BY <1>1, TTLAssumption, BoundAssumption DEF IInv, TypeOK, Current
  <2> QED BY <2>1 DEF SettledIsSeen, Fresh
<1> QED BY <1>1, InductiveInvariant, PTL
-----------------------------------------------------------------------------
(* What belongs to the app still and was read in both listings is found    *)
(* from the main processes of the one as a descendant in the other.        *)
LEMMA TiedBefore ==
  ASSUME NEW d1 \in Listing, NEW d2 \in Listing, NEW e \in Listing,
         Rooted(d1), Rooted(d2),
         \A p \in Pids : Becomes(d1[p], e[p]) /\ Becomes(d2[p], e[p]),
         NEW p \in Tied(e), d1[p].kind # "new", d2[p].kind # "new"
  PROVE  p \in Descendants(d2, Mains(d1))
<1>1. p \in Pids
  BY DEF Tied, Descendants
<1> SUFFICES ASSUME NEW S \in SUBSET Pids, Mains(d1) \subseteq S, ClosedIn(d2, S)
             PROVE  p \in S
  BY <1>1 DEF Descendants
<1> DEFINE more == {x \in Pids : x \in S \/ d1[x].kind = "new" \/ d2[x].kind = "new"}
<1>2. Mains(e) \subseteq more
  BY DEF Becomes, Mains
<1>3. ClosedIn(e, more)
  <2> SUFFICES ASSUME NEW x \in Pids, e[x].of \in more,
                      d1[x].kind # "new", d2[x].kind # "new"
               PROVE  x \in S
    BY DEF ClosedIn
  <2>1. e[x].of \in Pids /\ e[x].of = d1[x].of /\ e[x].of = d2[x].of
    BY PidAssumption DEF Becomes
  <2>2. d1[e[x].of].kind # "new" /\ d2[e[x].of].kind # "new"
    BY <2>1 DEF Rooted
  <2>3. d2[x].of \in S
    BY <2>1, <2>2
  <2> QED BY <2>3 DEF ClosedIn
<1>4. more \in SUBSET Pids
  OBVIOUS
<1>5. p \in more
  BY <1>2, <1>3, <1>4 DEF Tied, Descendants
<1> QED BY <1>5

(* Whoever asks for a snapshot from now on finds p in it.                  *)
Seen(p) ==
  /\ cache.read => cache.data[p].kind # "new"
  /\ \A t \in scanning : scan[t].data[p].kind # "new"

(* What is stopped was signalled, hence listed, and so is in every later   *)
(* snapshot.                                                               *)
Remembers ==
  /\ \A p \in Stopped(proc) : proc[p].kind # "new" /\ Seen(p)
  /\ \A t \in Threads : \A p \in h[t].pids \cup h[t].left : Seen(p)

(* pids is the list of the main processes in a listing with all that is    *)
(* stopped.                                                                *)
Complete(pids) ==
  \E d \in Listing :
    /\ Past(d) /\ pids = Mains(d)
    /\ \A p \in Stopped(proc) : d[p].kind # "new"

(* A pause that overlaps with no other request is the only one there is,   *)
(* and one that resumes has all that is stopped before it.                 *)
Pauses(r) ==
  r.calm =>
    /\ r.op = "pause" /\ r.step # "launch"
    /\ r.sig = "CONT" /\ r.step = "tree" => Complete(r.pids)
    /\ r.sig = "CONT" /\ r.step = "signal" => Tied(proc) \cap Stopped(proc) \subseteq r.left

Resumes(t) ==
  /\ h[t].calm => \A u \in Threads \ {t} : h[u] = Idle
  /\ Pauses(h[t])

PauseInv == Remembers /\ \A t \in Threads : Resumes(t)

LEMMA IdlePauses == Pauses(Idle)
BY IdleType DEF Pauses

LEMMA PauseStarts == Init => PauseInv
<1> SUFFICES ASSUME Init PROVE PauseInv
  OBVIOUS
<1>1. Stopped(proc) = {}
  BY UnbornType DEF Init, Stopped
<1> QED BY <1>1, IdleType, IdlePauses DEF Init, PauseInv, Remembers, Resumes

(* The processes move and nothing more of them is stopped.                 *)
LEMMA DriftKeeps ==
  ASSUME IInv, PauseInv, Moves, UNCHANGED procs, Stopped(proc') \subseteq Stopped(proc),
         \A t \in Threads : \A p \in h'[t].pids \cup h'[t].left : p \in h[t].pids \cup h[t].left
  PROVE  /\ Remembers'
         /\ Tied(proc') \cap Stopped(proc') \subseteq Tied(proc) \cap Stopped(proc)
         /\ \A pids : Complete(pids) => Complete(pids)'
<1>1. UNCHANGED <<cache, scanning, scan>> /\ proc \in Listing /\ Past(proc) /\ proc' \in Listing
  BY DEF procs, IInv, TypeOK, Pasts, Moves
<1>2. \A p \in Pids : Seen(p) => Seen(p)'
  BY <1>1 DEF Seen
<1>3. \A p \in Pids : proc[p].kind # "new" => proc'[p].kind # "new"
  BY DEF Moves, Becomes
<1>4. Remembers'
  <2>1. \A p \in Stopped(proc') : p \in Pids /\ proc'[p].kind # "new" /\ Seen(p)'
    BY <1>2, <1>3 DEF PauseInv, Remembers, Stopped
  <2>2. \A t \in Threads : \A p \in h'[t].pids \cup h'[t].left : Seen(p)'
    BY <1>1 DEF PauseInv, Remembers, Seen
  <2> QED BY <2>1, <2>2 DEF Remembers
<1>5. ASSUME NEW p \in Tied(proc') \cap Stopped(proc') PROVE p \in Tied(proc)
  <2>1. proc[p].kind # "new" /\ Rooted(proc) /\ \A q \in Pids : Becomes(proc[q], proc'[q])
    BY <1>1 DEF PauseInv, Remembers, Moves, Past
  <2> DEFINE e == proc'
  <2>2. e \in Listing /\ p \in Tied(e) /\ \A q \in Pids : Becomes(proc[q], e[q])
    BY <1>1, <1>5, <2>1
  <2> HIDE DEF e
  <2>3. p \in Descendants(proc, Mains(proc))
    BY <1>1, <2>1, <2>2, TiedBefore
  <2> QED BY <2>3 DEF Tied
<1>6. ASSUME NEW pids, Complete(pids) PROVE Complete(pids)'
  <2>1. PICK d \in Listing : /\ Past(d) /\ pids = Mains(d)
                             /\ \A p \in Stopped(proc) : d[p].kind # "new"
    BY <1>6 DEF Complete
  <2>2. Rooted(d) /\ \A p \in Pids : Becomes(d[p], proc'[p])
    BY <2>1, BecomesOn DEF Moves, Past
  <2>3. Past(d)'
    BY <2>2 DEF Past
  <2> QED BY <2>1, <2>3 DEF Complete
<1> QED BY <1>4, <1>5, <1>6

(* The app moves.                                                          *)
LEMMA AppPauses ==
  ASSUME IInv, PauseInv, NEW p \in Pids,
         \/ Appear(p) \/ Die(p) \/ Reap(p)
         \/ \E q \in Pids, kind \in {"main", "other"} : Fork(q, p, kind)
  PROVE  PauseInv'
<1>1. /\ Moves /\ UNCHANGED <<procs, h>>
      /\ \A q \in Pids : proc'[q].life = "stopped" => proc[q].life = "stopped"
  BY AppMoves
<1>2. Stopped(proc') \subseteq Stopped(proc)
  BY <1>1 DEF Stopped
<1>3. /\ Remembers'
      /\ Tied(proc') \cap Stopped(proc') \subseteq Tied(proc) \cap Stopped(proc)
      /\ \A pids : Complete(pids) => Complete(pids)'
  BY <1>1, <1>2, DriftKeeps
<1>4. ASSUME NEW t \in Threads PROVE Resumes(t)'
  <2> DEFINE r == h[t]
  <2>1. r = h'[t] /\ h[t] = r
    BY <1>1
  <2>2. Pauses(r)
    BY DEF PauseInv, Resumes
  <2>3. /\ h'[t].calm => h'[t].op = "pause" /\ h'[t].step # "launch"
        /\ h'[t].calm /\ h'[t].sig = "CONT" /\ h'[t].step = "signal"
             => Tied(proc') \cap Stopped(proc') \subseteq h'[t].left
    BY <1>1, <1>3, <2>2 DEF Pauses
  <2>4. h'[t].calm /\ h'[t].sig = "CONT" /\ h'[t].step = "tree" => Complete(h[t].pids)'
    <3>1. h[t].calm /\ h[t].sig = "CONT" /\ h[t].step = "tree" => Complete(h[t].pids)
      BY <2>2 DEF Pauses
    <3>2. PICK pids : pids = h[t].pids
      OBVIOUS
    <3>3. Complete(pids) => Complete(pids)'
      BY <1>3
    <3>4. h[t].calm /\ h[t].sig = "CONT" /\ h[t].step = "tree" => Complete(pids)
      BY <3>1, <3>2
    <3>5. pids = h'[t].pids
      BY <1>1, <3>2
    <3> QED BY <1>1, <3>3, <3>4, <3>5 DEF Complete
  <2>5. Pauses(h[t])'
    BY <2>3, <2>4 DEF Pauses
  <2> QED BY <1>1, <2>5 DEF PauseInv, Resumes
<1> QED BY <1>3, <1>4 DEF PauseInv

(* A request goes on; if it is calm, it was, and if another one is, there  *)
(* is none that could go on.                                               *)
LEMMA HandlerPauses ==
  ASSUME IInv, PauseInv, NEW t \in Threads, NEW r, h' = [h EXCEPT ![t] = r], h[t] # Idle,
         UNCHANGED proc, \A p \in Pids : Seen(p) => Seen(p)', r.pids \cup r.left \subseteq Pids,
         \A p \in r.pids \cup r.left : Seen(p)', r.calm => h[t].calm, Pauses(r)
  PROVE  PauseInv'
<1>1. /\ h \in [Threads -> Handler] /\ h'[t] = r
      /\ \A u \in Threads \ {t} : h'[u] = h[u]
  BY DEF IInv, TypeOK
<1>2. \A u \in Threads \ {t} : ~h[u].calm
  BY DEF PauseInv, Resumes
<1>3. ASSUME NEW u \in Threads PROVE Resumes(u)'
  <2>1. CASE u # t
    BY <1>1, <1>2, <2>1 DEF Resumes, Pauses
  <2>2. CASE u = t
    <3>1. r.calm => \A v \in Threads \ {t} : h[v] = Idle
      BY DEF PauseInv, Resumes
    <3>2. \A s : Pauses(s) => Pauses(s)'
      BY DEF Pauses, Complete, Past, Rooted
    <3>3. Pauses(r)'
      BY <3>2
    <3>4. Pauses(h[t])'
      BY <1>1, <3>3 DEF Pauses, Complete
    <3> QED BY <1>1, <2>2, <3>1, <3>4 DEF Resumes
  <2> QED BY <2>1, <2>2
<1>4. Remembers'
  <2>1. \A p \in Stopped(proc') : proc'[p].kind # "new" /\ Seen(p)'
    BY DEF PauseInv, Remembers, Stopped
  <2>2. ASSUME NEW u \in Threads, NEW p \in h'[u].pids \cup h'[u].left PROVE Seen(p)'
    <3>1. CASE u # t
      <4>1. p \in h[u].pids \cup h[u].left /\ p \in Pids
        BY <1>1, <2>2, <3>1 DEF Handler
      <4> QED BY <4>1 DEF PauseInv, Remembers
    <3>2. CASE u = t
      BY <1>1, <2>2, <3>2
    <3> QED BY <3>1, <3>2
  <2> QED BY <2>1, <2>2 DEF Remembers
<1> QED BY <1>3, <1>4 DEF PauseInv

(* snapshot() returns a listing that shows whatever was to be seen, unless *)
(* the scan failed, which is the end of the calm.                          *)
LEMMA ReturnsPast ==
  ASSUME IInv, PauseInv, NEW t \in Threads, NEW d, NEW r, Returns(t, d, r),
         UNCHANGED <<system, killed>>
  PROVE  /\ \A p \in Pids : Seen(p) => Seen(p)'
         /\ \A p \in Pids : d[p].kind # "new" => Seen(p)'
         /\ \/ h' = [h EXCEPT ![t] = r] /\ \A p \in Pids : Seen(p) => d[p].kind # "new"
            \/ h' = [h EXCEPT ![t] = [r EXCEPT !.calm = FALSE]]
<1>1. CASE /\ t \notin scanning /\ Free(t) /\ Fresh(cache) /\ d = cache.data
           /\ UNCHANGED procs /\ h' = [h EXCEPT ![t] = r]
  BY <1>1 DEF procs, Seen, Free, Fresh
<1>2. ASSUME NEW read \in BOOLEAN, Scanned(t, d, read)
      PROVE  /\ \A p \in Pids : Seen(p) => Seen(p)'
             /\ \A p \in Pids : d[p].kind # "new" => Seen(p)'
             /\ read => \A p \in Pids : Seen(p) => d[p].kind # "new"
  <2>1. /\ t \in scanning /\ d = (IF read THEN scan[t].data ELSE Unborn)
        /\ cache'.data = d /\ cache'.read = read /\ scanning' = scanning \ {t}
    BY <1>2 DEF Scanned
  <2>2. scanning' = {}
    BY <2>1 DEF IInv, OneScan
  <2> QED BY <2>1, <2>2 DEF Seen
<1> QED BY <1>1, <1>2 DEF Returns

LEMMA LookPauses ==
  ASSUME IInv, PauseInv, NEW t \in Threads, NEW d, NEW r, Returns(t, d, r),
         UNCHANGED <<system, killed>>, h[t] # Idle, r \in Handler,
         \A p \in r.pids \cup r.left : p \in h[t].pids \cup h[t].left \/ d[p].kind # "new",
         r.calm => h[t].calm,
         (\A p \in Pids : Seen(p) => d[p].kind # "new") => Pauses(r)
  PROVE  PauseInv'
<1>1. /\ \A p \in Pids : Seen(p) => Seen(p)'
      /\ \A p \in Pids : d[p].kind # "new" => Seen(p)'
      /\ \/ h' = [h EXCEPT ![t] = r] /\ \A p \in Pids : Seen(p) => d[p].kind # "new"
         \/ h' = [h EXCEPT ![t] = [r EXCEPT !.calm = FALSE]]
  BY ReturnsPast
<1>2. PICK r2 \in {r, [r EXCEPT !.calm = FALSE]} : h' = [h EXCEPT ![t] = r2] /\ Pauses(r2)
  <2>1. CASE h' = [h EXCEPT ![t] = [r EXCEPT !.calm = FALSE]]
    <3>1. ~[r EXCEPT !.calm = FALSE].calm
      BY DEF Handler
    <3> QED BY <2>1, <3>1 DEF Pauses
  <2>2. CASE h' = [h EXCEPT ![t] = r] /\ \A p \in Pids : Seen(p) => d[p].kind # "new"
    BY <2>2
  <2> QED BY <1>1, <2>1, <2>2
<1>3. r2.pids = r.pids /\ r2.left = r.left /\ (r2.calm => r.calm)
      /\ r.pids \cup r.left \subseteq Pids
  BY <1>2 DEF Handler
<1>4. \A p \in h[t].pids \cup h[t].left : p \in Pids /\ Seen(p)
  BY DEF PauseInv, Remembers, IInv, TypeOK, Handler
<1>5. \A p \in r2.pids \cup r2.left : Seen(p)'
  BY <1>1, <1>3, <1>4
<1>6. UNCHANGED proc
  BY DEF system
<1> QED BY <1>1, <1>2, <1>3, <1>5, <1>6, HandlerPauses

(* Find and Judge lead to neither of the steps of which Pauses tells more. *)
LEMMA FindPauses ==
  ASSUME IInv, PauseInv, NEW t \in Threads, Find(t) \/ Judge(t) PROVE PauseInv'
<1>1. h[t] \in Handler /\ h[t] # Idle /\ h[t].step \in {"find", "judge"}
      /\ UNCHANGED <<system, killed>>
  BY IdleType DEF IInv, TypeOK, Find, Judge
<1>2. h[t].calm => h[t].op = "pause"
  BY DEF PauseInv, Resumes, Pauses
<1>3. CASE Find(t)
  <2> DEFINE q == h[t]
             r(d) == CASE Mains(d) = {} /\ q.op = "toggle" -> [q EXCEPT !.step = "launch"]
                       [] Mains(d) = {}                    -> Idle
                       [] q.op = "toggle"                  -> [q EXCEPT !.step = "direct"]
                       [] OTHER -> [q EXCEPT !.step = "judge", !.pids = Mains(d)]
  <2>1. PICK d : Returns(t, d, r(d))
    BY <1>3 DEF Find
  <2>2. Mains(d) \subseteq Pids /\ \A p \in Mains(d) : d[p].kind # "new"
    BY DEF Mains
  <2>3. /\ r(d) \in Handler
        /\ r(d).pids \subseteq h[t].pids \cup Mains(d) /\ r(d).left \subseteq h[t].left
        /\ r(d).calm => h[t].calm /\ h[t].op # "toggle" /\ r(d).op = "pause"
                         /\ r(d).step = "judge"
    BY <1>1, <1>2, <2>2, IdleType DEF Handler, Calls
  <2>4. Pauses(r(d))
    BY <2>3 DEF Pauses
  <2> HIDE DEF r
  <2>5. \A p \in r(d).pids \cup r(d).left : p \in h[t].pids \cup h[t].left \/ d[p].kind # "new"
    BY <2>2, <2>3
  <2> QED BY <1>1, <2>1, <2>3, <2>4, <2>5, LookPauses
<1>4. CASE Judge(t)
  <2> DEFINE q == h[t]
             r(d) == IF q.op = "status" THEN Idle
                     ELSE [q EXCEPT !.step = "direct", !.pids = {},
                             !.sig = IF q.pids \cap Stopped(d) # {} THEN "CONT" ELSE "STOP"]
  <2>1. PICK d : Returns(t, d, r(d))
    BY <1>4 DEF Judge
  <2>2. /\ r(d) \in Handler
        /\ r(d).pids = {} /\ r(d).left \subseteq h[t].left
        /\ r(d).calm => h[t].calm /\ r(d).op = "pause" /\ r(d).step = "direct"
    BY <1>1, <1>2, IdleType DEF Handler, Calls
  <2>3. Pauses(r(d))
    BY <2>2 DEF Pauses
  <2> HIDE DEF r
  <2>4. \A p \in r(d).pids \cup r(d).left : p \in h[t].pids \cup h[t].left \/ d[p].kind # "new"
    BY <2>2
  <2> QED BY <1>1, <2>1, <2>2, <2>3, <2>4, LookPauses
<1> QED BY <1>3, <1>4

(* The targets of a pause that resumes are all that is stopped.            *)
LEMMA DirectPauses ==
  ASSUME IInv, PauseInv, NEW t \in Threads, Direct(t) PROVE PauseInv'
<1> DEFINE q == h[t]
           r(d) == IF Mains(d) # {}
                     THEN [q EXCEPT !.step = "tree",
                             !.pids = IF ForWindow(t) THEN {} ELSE Mains(d)]
                   ELSE IF ForWindow(t) THEN Idle
                   ELSE [q EXCEPT !.step = "signal"]
<1>1. h[t] \in Handler /\ h[t] # Idle /\ proc \in Listing /\ UNCHANGED <<system, killed>>
  BY IdleType DEF IInv, TypeOK, Direct
<1>2. h[t].calm => h[t].op = "pause" /\ ~ForWindow(t)
  BY DEF PauseInv, Resumes, Pauses, ForWindow
<1>3. PICK d : Returns(t, d, r(d))
  BY DEF Direct
<1>4. /\ d \in Listing /\ Past(d)
      /\ Mains(d) \subseteq Pids /\ \A p \in Mains(d) : d[p].kind # "new"
  BY <1>1, <1>3, ReturnsGood DEF Mains
<1>5. ASSUME \A p \in Pids : Seen(p) => d[p].kind # "new"
      PROVE  /\ Complete(Mains(d))
             /\ Mains(d) = {} => Tied(proc) \cap Stopped(proc) = {}
  <2>1. \A p \in Stopped(proc) : d[p].kind # "new"
    BY <1>5 DEF PauseInv, Remembers, Stopped
  <2>2. ASSUME Mains(d) = {}, NEW p \in Tied(proc) \cap Stopped(proc) PROVE FALSE
    <3>1. p \in Descendants(d, Mains(d))
      BY <1>1, <1>4, <2>1, TiedBefore DEF Past
    <3>2. ClosedIn(d, {})
      BY DEF ClosedIn
    <3> QED BY <2>2, <3>1, <3>2 DEF Descendants
  <2> QED BY <1>4, <2>1, <2>2 DEF Complete
<1>6. CASE Mains(d) # {}
  <2>1. /\ r(d).step = "tree" /\ r(d).left = h[t].left /\ r(d).op = h[t].op
        /\ r(d).pids = (IF ForWindow(t) THEN {} ELSE Mains(d))
        /\ r(d).calm = h[t].calm /\ r(d) \in Handler
    BY <1>1, <1>4, <1>6 DEF Handler, Calls
  <2>2. (\A p \in Pids : Seen(p) => d[p].kind # "new") => Pauses(r(d))
    BY <1>2, <1>5, <2>1 DEF Pauses
  <2> HIDE DEF r
  <2>3. \A p \in r(d).pids \cup r(d).left : p \in h[t].pids \cup h[t].left \/ d[p].kind # "new"
    BY <1>4, <2>1
  <2> QED BY <1>1, <1>3, <2>1, <2>2, <2>3, LookPauses
<1>7. CASE Mains(d) = {} /\ ForWindow(t)
  <2>1. r(d) = Idle
    BY <1>7
  <2> HIDE DEF r
  <2> QED BY <1>1, <1>3, <2>1, LookPauses, IdleType, IdlePauses
<1>8. CASE Mains(d) = {} /\ ~ForWindow(t)
  <2>1. /\ r(d).step = "signal" /\ r(d).left = h[t].left /\ r(d).op = h[t].op
        /\ r(d).pids = h[t].pids /\ r(d).calm = h[t].calm /\ r(d) \in Handler
    BY <1>1, <1>8 DEF Handler
  <2>2. (\A p \in Pids : Seen(p) => d[p].kind # "new") => Pauses(r(d))
    BY <1>2, <1>5, <1>8, <2>1 DEF Pauses
  <2> HIDE DEF r
  <2> QED BY <1>1, <1>3, <2>1, <2>2, LookPauses
<1> QED BY <1>6, <1>7, <1>8

LEMMA TreePauses ==
  ASSUME IInv, PauseInv, NEW t \in Threads, Tree(t) PROVE PauseInv'
<1> DEFINE q == h[t]
           all(d) == Descendants(d, q.pids)
           r(d) == IF ForWindow(t) THEN Idle
                   ELSE [q EXCEPT !.step = "signal", !.pids = {},
                           !.targets = IF q.op = "kill" THEN all(d) ELSE {}, !.left = all(d)]
<1>1. /\ h[t] \in Handler /\ h[t] # Idle /\ h[t].step = "tree" /\ proc \in Listing
      /\ UNCHANGED <<system, killed>>
  BY IdleType DEF IInv, TypeOK, Tree
<1>2. h[t].calm => h[t].op = "pause" /\ (h[t].sig = "CONT" => Complete(h[t].pids))
  BY <1>1 DEF PauseInv, Resumes, Pauses
<1>3. PICK d : Returns(t, d, r(d))
  BY DEF Tree
<1>4. d \in Listing /\ Past(d)
  BY <1>1, <1>3, ReturnsGood
<1>5. h[t].pids \in SUBSET Pids
  BY <1>1 DEF Handler
<1>6. all(d) \subseteq Pids /\ \A p \in all(d) : p \in h[t].pids \/ d[p].kind # "new"
  BY <1>4, <1>5, DescendantsType, DescendantsBorn DEF Past
<1>7. ASSUME \A p \in Pids : Seen(p) => d[p].kind # "new", Complete(h[t].pids)
      PROVE  Tied(proc) \cap Stopped(proc) \subseteq all(d)
  <2> SUFFICES ASSUME NEW p \in Tied(proc) \cap Stopped(proc) PROVE p \in all(d)
    OBVIOUS
  <2>1. PICK d1 \in Listing : /\ Past(d1) /\ h[t].pids = Mains(d1)
                              /\ \A x \in Stopped(proc) : d1[x].kind # "new"
    BY <1>7 DEF Complete
  <2>2. d[p].kind # "new" /\ d1[p].kind # "new"
    BY <1>7, <2>1 DEF PauseInv, Remembers, Stopped
  <2>3. p \in Descendants(d, Mains(d1))
    BY <1>1, <1>4, <2>1, <2>2, TiedBefore DEF Past
  <2> QED BY <2>1, <2>3
<1>8. CASE ForWindow(t)
  <2>1. r(d) = Idle
    BY <1>8
  <2> HIDE DEF r
  <2> QED BY <1>1, <1>3, <2>1, LookPauses, IdleType, IdlePauses
<1>9. CASE ~ForWindow(t)
  <2> HIDE DEF all
  <2>1. /\ r(d).step = "signal" /\ r(d).left = all(d)
        /\ r(d).op = h[t].op /\ r(d).pids = {} /\ r(d).calm = h[t].calm
        /\ r(d).sig = h[t].sig /\ r(d) \in Handler
    BY <1>1, <1>6, <1>9 DEF Handler
  <2>2. (\A p \in Pids : Seen(p) => d[p].kind # "new") => Pauses(r(d))
    BY <1>2, <1>7, <2>1 DEF Pauses
  <2> HIDE DEF r
  <2>3. \A p \in r(d).pids \cup r(d).left : p \in h[t].pids \cup h[t].left \/ d[p].kind # "new"
    BY <1>6, <2>1
  <2> QED BY <1>1, <1>3, <2>1, <2>2, <2>3, LookPauses
<1> QED BY <1>8, <1>9

(* A request arrives: it finds all idle if it is calm.                     *)
LEMMA BeginPauses ==
  ASSUME IInv, PauseInv, NEW t \in Threads, NEW op \in Ops, Begin(t, op) PROVE PauseInv'
<1>1. /\ h[t] = Idle /\ UNCHANGED <<proc, cache, scanning, scan>>
      /\ h \in [Threads -> Handler]
  BY DEF IInv, TypeOK, Begin, system, procs
<1> DEFINE r == [Idle EXCEPT !.op = op,
                   !.step = IF op \in {"close", "kill"} THEN "direct" ELSE "find",
                   !.sig = IF op = "kill" THEN "KILL" ELSE "CONT",
                   !.calm = op = "pause" /\ \A v \in Threads : h[v] = Idle]
<1>2. /\ h'[t] = r /\ r.pids = {} /\ r.left = {} /\ r.step \in {"direct", "find"}
      /\ r.op = op /\ (r.calm => op = "pause" /\ \A v \in Threads : h[v] = Idle)
  BY DEF Begin, Idle
<1>3. ASSUME NEW u \in Threads \ {t}
      PROVE  /\ h'[u].pids = h[u].pids /\ h'[u].left = h[u].left /\ ~h'[u].calm
             /\ h[u] = Idle => h'[u] = Idle
  <2>1. h'[u] = [h[u] EXCEPT !.calm = FALSE] /\ h[u] \in Handler
    BY <1>1, <1>3 DEF Begin
  <2>2. [Idle EXCEPT !.calm = FALSE] = Idle
    BY IdleType DEF Handler
  <2> QED BY <2>1, <2>2 DEF Handler
<1> HIDE DEF r
<1>4. \A u \in Threads : Resumes(u)'
  BY <1>2, <1>3 DEF Resumes, Pauses
<1>5. \A u \in Threads : \A p \in h'[u].pids \cup h'[u].left : p \in h[u].pids \cup h[u].left
  BY <1>2, <1>3
<1>6. Remembers'
  BY <1>1, <1>5 DEF PauseInv, Remembers, Seen
<1> QED BY <1>4, <1>6 DEF PauseInv

(* A scan begins, listing all that has been born, or reads one entry.      *)
LEMMA ScanPauses ==
  ASSUME IInv, PauseInv, NEW t \in Threads, Scan(t) \/ \E p \in Pids : Read(t, p)
  PROVE  PauseInv'
<1>1. /\ UNCHANGED <<proc, cache, h>> /\ proc \in Listing
      /\ scan \in [Threads -> [data : Listing, at : Nat]] /\ h \in [Threads -> Handler]
  BY DEF IInv, TypeOK, Scan, Read, system
<1>2. ASSUME NEW p \in Pids, Seen(p), proc[p].kind # "new" PROVE Seen(p)'
  <2>1. CASE Scan(t)
    BY <1>1, <1>2, <2>1 DEF Scan, Free, Seen
  <2>2. CASE \E x \in Pids : Read(t, x)
    <3>1. PICK x \in Pids : Read(t, x)
      BY <2>2
    <3>2. /\ scan' = [scan EXCEPT ![t].data[x] = proc[x]] /\ scanning' = scanning
      BY <3>1 DEF Read
    <3>3. \A u \in Threads : scan'[u].data[p] = scan[u].data[p] \/ scan'[u].data[p] = proc[p]
      BY <1>1, <3>2 DEF Listing
    <3>4. \A u \in scanning : u \in Threads
      BY DEF IInv, OneScan
    <3> QED BY <1>1, <1>2, <3>2, <3>3, <3>4 DEF Seen
  <2> QED BY <2>1, <2>2
<1>3. \A u \in Threads : \A p \in h[u].pids \cup h[u].left : p \in Pids /\ proc[p].kind # "new"
  BY <1>1 DEF Handler, IInv, Known
<1>4. Remembers'
  BY <1>1, <1>2, <1>3 DEF PauseInv, Remembers, Stopped
<1>5. \A u \in Threads : Resumes(u)'
  BY <1>1 DEF PauseInv, Resumes, Pauses, Complete, Past, Rooted
<1> QED BY <1>4, <1>5 DEF PauseInv

(* A signal: what a pause stops it had listed, what it resumes is stopped  *)
(* no more, and what is gone can be passed over.                           *)
LEMMA SignalPauses ==
  ASSUME IInv, PauseInv, NEW t \in Threads, NEW p \in Pids, Signal(t, p) PROVE PauseInv'
<1> DEFINE r == [h[t] EXCEPT !.left = @ \ {p}]
<1>1. /\ h \in [Threads -> Handler] /\ proc \in Listing /\ h[t] # Idle
      /\ h[t].step = "signal" /\ p \in h[t].left
      /\ h' = [h EXCEPT ![t] = r] /\ UNCHANGED procs
  BY IdleType DEF IInv, TypeOK, Signal
<1>2. /\ r.op = h[t].op /\ r.step = "signal" /\ r.sig = h[t].sig /\ r.calm = h[t].calm
      /\ r.pids = h[t].pids /\ r.left = h[t].left \ {p}
  BY <1>1 DEF Handler
<1>3. h'[t] = r /\ \A u \in Threads \ {t} : h'[u] = h[u] /\ ~h[u].calm
  BY <1>1 DEF PauseInv, Resumes
<1>4. /\ Moves /\ proc'[p].life = Struck(proc[p], h[t].sig)
      /\ \A q \in Pids \ {p} : proc'[q] = proc[q]
      /\ \A q \in Pids : proc'[q].kind = proc[q].kind
  BY SignalMoves
<1> HIDE DEF r
<1>5. \A u \in Threads : \A q \in h'[u].pids \cup h'[u].left : q \in h[u].pids \cup h[u].left
  BY <1>2, <1>3
<1>6. ASSUME r.calm /\ r.sig = "CONT" => Tied(proc') \cap Stopped(proc') \subseteq r.left
      PROVE  \A u \in Threads : Resumes(u)'
  <2>1. r.calm => h[t].op = "pause" /\ \A u \in Threads \ {t} : h[u] = Idle
    BY <1>2 DEF PauseInv, Resumes, Pauses
  <2> QED BY <1>2, <1>3, <1>6, <2>1 DEF Resumes, Pauses
<1>7. h[t].calm /\ h[t].sig = "CONT" => Tied(proc) \cap Stopped(proc) \subseteq h[t].left
  BY <1>1 DEF PauseInv, Resumes, Pauses
<1>8. CASE h[t].sig # "STOP"
  <2>1. proc'[p].life # "stopped" \/ proc'[p].life = proc[p].life
    BY <1>4, <1>8 DEF Struck
  <2>2. Stopped(proc') \subseteq Stopped(proc)
    BY <1>4, <2>1 DEF Stopped
  <2>3. /\ Remembers'
        /\ Tied(proc') \cap Stopped(proc') \subseteq Tied(proc) \cap Stopped(proc)
    BY <1>1, <1>4, <1>5, <2>2, DriftKeeps
  <2>4. h[t].sig = "CONT" => p \notin Stopped(proc')
    BY <1>1, <1>4 DEF Struck, Stopped
  <2> QED BY <1>2, <1>6, <1>7, <2>3, <2>4 DEF PauseInv
<1>9. CASE h[t].sig = "STOP"
  <2>1. \A q \in Pids : Seen(q)' <=> Seen(q)
    BY <1>1 DEF Seen, procs
  <2>2. Seen(p) /\ proc[p].kind # "new"
    BY <1>1 DEF PauseInv, Remembers, IInv, Known
  <2>3. \A q \in Stopped(proc') : proc'[q].kind # "new" /\ Seen(q)'
    BY <1>4, <2>1, <2>2 DEF PauseInv, Remembers, Stopped
  <2>4. \A u \in Threads : \A q \in h'[u].pids \cup h'[u].left : Seen(q)'
    BY <1>1, <1>5, <2>1 DEF PauseInv, Remembers, Handler
  <2>5. Remembers'
    BY <2>3, <2>4 DEF Remembers
  <2> QED BY <1>2, <1>6, <1>9, <2>5 DEF PauseInv
<1> QED BY <1>8, <1>9

(* The end of a request; a pause launches nothing and drops no cache.      *)
LEMMA EndPauses ==
  ASSUME IInv, PauseInv, NEW t \in Threads, Answer(t) \/ Launch(t) \/ Invalidate(t)
  PROVE  PauseInv'
<1>1. /\ h[t] \in Handler /\ h[t] # Idle /\ UNCHANGED <<proc, scanning, scan>>
      /\ cache'.data = cache.data /\ cache'.read = cache.read
  BY IdleType DEF IInv, TypeOK, Answer, Launch, Invalidate, system, procs
<1>2. PICK r : /\ h' = [h EXCEPT ![t] = r]
               /\ r = Idle \/ (r = [h[t] EXCEPT !.step = "signal"] /\ h[t].step = "launch")
  BY DEF Answer, Launch, Invalidate
<1>3. h[t].calm => h[t].step # "launch"
  BY DEF PauseInv, Resumes, Pauses
<1>4. /\ r.pids \cup r.left \subseteq h[t].pids \cup h[t].left
      /\ h[t].pids \cup h[t].left \subseteq Pids
      /\ ~r.calm
  BY <1>1, <1>2, <1>3, IdleType DEF Handler
<1>5. Pauses(r)
  BY <1>4 DEF Pauses
<1>6. \A p \in Pids : Seen(p)' <=> Seen(p)
  BY <1>1 DEF Seen
<1>7. \A p \in r.pids \cup r.left : Seen(p)'
  BY <1>4, <1>6 DEF PauseInv, Remembers
<1> QED BY <1>1, <1>2, <1>4, <1>5, <1>6, <1>7, HandlerPauses

LEMMA NextPauses == IInv /\ PauseInv /\ [Next]_vars => PauseInv'
<1> SUFFICES ASSUME IInv, PauseInv, [Next]_vars PROVE PauseInv'
  OBVIOUS
<1>1. CASE UNCHANGED <<proc, procs, h>>
  BY <1>1 DEF PauseInv, Remembers, Resumes, Pauses, Complete, Past, Rooted, Seen, procs
<1>2. CASE Next /\ ~Tick
  BY <1>2, AppPauses, BeginPauses, ScanPauses, FindPauses, DirectPauses, TreePauses,
     SignalPauses, EndPauses DEF Next
<1> QED BY <1>1, <1>2 DEF Tick, vars, system

(* A pause is answered when no target is left.                             *)
LEMMA AnswersLast ==
  ASSUME IInv, [Next]_vars, NEW t \in Threads,
         h[t].op = "pause", h[t].step = "signal", h'[t] = Idle
  PROVE  h[t].left = {}
<1>1. h \in [Threads -> Handler] /\ h[t] # Idle
  BY IdleType DEF IInv, TypeOK
<1>2. ASSUME NEW u \in Threads, u # t,
             \/ \E op \in Ops : Begin(u, op)
             \/ Find(u) \/ Judge(u) \/ Direct(u) \/ Tree(u)
             \/ \E p \in Pids : Signal(u, p)
             \/ Answer(u) \/ Launch(u) \/ Invalidate(u)
      PROVE  FALSE
  <2>1. CASE \E op \in Ops : Begin(u, op)
    <3>1. h'[t] = [h[t] EXCEPT !.calm = FALSE]
      BY <1>2, <2>1 DEF Begin
    <3> QED BY <1>1, <3>1, IdleType DEF Handler
  <2>2. CASE ~\E op \in Ops : Begin(u, op)
    <3>1. \E r : h' = [h EXCEPT ![u] = r]
      BY <1>2, <2>2 DEF Find, Judge, Direct, Tree, Returns, Signal, Answer, Launch, Invalidate
    <3> QED BY <1>1, <1>2, <3>1
  <2> QED BY <2>1, <2>2
<1>3. ASSUME NEW p \in Pids, Signal(t, p) PROVE FALSE
  <2>1. h'[t] = [h[t] EXCEPT !.left = @ \ {p}]
    BY <1>1, <1>3 DEF Signal
  <2> QED BY <1>1, <2>1, IdleType DEF Handler
<1>4. h' = h => FALSE
  BY <1>1
<1>5. Answer(t) => h[t].left = {}
  BY DEF Answer
<1>6. ~Find(t) /\ ~Judge(t) /\ ~Direct(t) /\ ~Tree(t) /\ ~Launch(t) /\ ~Invalidate(t)
      /\ ~\E op \in Ops : Begin(t, op)
  BY <1>1 DEF Find, Judge, Direct, Tree, Launch, Invalidate, Begin
<1> QED BY <1>2, <1>3, <1>4, <1>5, <1>6
     DEF Next, Tick, Appear, Fork, Die, Reap, Moved, Scan, Read, vars

(* A pause that resumes, overlaps with no other request and reads /proc    *)
(* without an error leaves nothing of the app stopped.                     *)
THEOREM Resumed == Spec => ResumeResumesAll
<1> DEFINE Resuming == \A t \in Threads :
       h[t].op = "pause" /\ h[t].sig = "CONT" /\ h[t].calm
         /\ h[t].step = "signal" /\ h'[t] = Idle
         => Tied(proc) \cap Stopped(proc) = {}
<1>1. IInv /\ PauseInv /\ [Next]_vars => [Resuming]_vars
  <2> SUFFICES ASSUME IInv, PauseInv, [Next]_vars, NEW t \in Threads,
                      h[t].op = "pause", h[t].sig = "CONT", h[t].calm,
                      h[t].step = "signal", h'[t] = Idle
               PROVE  Tied(proc) \cap Stopped(proc) = {}
    OBVIOUS
  <2>1. h[t].left = {}
    BY AnswersLast
  <2> QED BY <2>1 DEF PauseInv, Resumes, Pauses
<1>2. Spec => []PauseInv
  BY InductiveInvariant, PauseStarts, NextPauses, PTL DEF Spec
<1>3. ResumeResumesAll <=> [][Resuming]_vars
  BY DEF ResumeResumesAll
<1> HIDE DEF Resuming
<1> QED BY <1>1, <1>2, <1>3, InductiveInvariant, PTL DEF Spec
=============================================================================
