----------------------------- MODULE AppControl -----------------------------
(***************************************************************************)
(* routes/apps.py on top of core/procs.py: status, toggle, close, pause    *)
(* and kill of an app of the grid that is found by its process name, by    *)
(* request threads that share the cached /proc snapshot.                   *)
(*                                                                         *)
(* Every decision and every list of processes to signal comes from a call  *)
(* of procs.snapshot(), which returns the cached scan for TTL and else     *)
(* scans under its lock; a handler makes up to four such calls and other   *)
(* handlers, the app and the clock move in between.  A scan takes up to    *)
(* ScanTime and reads one process after the other; the cache is dated by   *)
(* its end.                                                                *)
(*                                                                         *)
(* The processes are those of one app.  A main process is found by name,   *)
(* any other one only as the descendant of one; of is the parent, as long  *)
(* as that lives.  A killed process is doomed and dies when the kernel     *)
(* gets to it; a dead one is a zombie, which /proc lists under its name,   *)
(* until it is reaped.  What is reaped, or has neither a name nor a parent *)
(* to be found by, is gone for the panel.  Process ids are not reused and  *)
(* a living process keeps its name.  Windows are not modelled: toggle and  *)
(* close end in a KWin script that moves no process, except that a program *)
(* whose window is closed may exit.                                        *)
(***************************************************************************)
EXTENDS Integers, FiniteSets

CONSTANTS
  Pids,        \* bound of the model: the processes there will ever be
  NoPid,       \* a parent outside the app
  Threads,     \* request threads
  Ops,         \* the requests that are sent
  TTL,         \* _TTL of the snapshot
  ScanTime,    \* longest duration of a scan
  MaxClock     \* bound of the model: the clock stops here

ASSUME PidAssumption    == NoPid \notin Pids
ASSUME OpsAssumption    == Ops \subseteq {"status", "toggle", "close", "pause", "kill"}
ASSUME TTLAssumption    == TTL \in Nat \ {0} /\ ScanTime \in Nat
ASSUME BoundAssumption  == MaxClock \in Nat /\ TTL < MaxClock

VARIABLES
  clock,
  proc,     \* per process id: its kind, its life and its parent
  cache,    \* _CACHE: the data of a scan, whether there are any, and its time
  scanning, \* the threads that are in a scan and hold _LOCK
  scan,     \* per thread: what its scan found, and when it began
  h,        \* per thread: the handler
  changed,  \* history: when a process last changed
  killed    \* history: the targets of the kills that were answered

system == <<clock, proc, changed>>
procs  == <<cache, scanning, scan>>
vars   == <<system, procs, h, killed>>

Kinds   == {"new", "main", "other", "gone"}
Lives   == {"running", "stopped", "doomed", "zombie"}
Process == [kind : Kinds, life : Lives, of : Pids \cup {NoPid}]
Listing == [Pids -> Process]
Unborn  == [p \in Pids |-> [kind |-> "new", life |-> "running", of |-> NoPid]]
Gone    == [kind |-> "gone", life |-> "zombie", of |-> NoPid]

\* find_app_pids, and the processes in state T, among those of a listing.
Mains(d)   == {p \in Pids : d[p].kind = "main"}
Stopped(d) == {p \in Pids : d[p].life = "stopped"}

\* descendants(pids): the least set that holds them and the children of all
\* that it holds.
ClosedIn(d, S) == \A p \in Pids : d[p].of \in S => p \in S

Descendants(d, pids) ==
  {p \in Pids : \A S \in SUBSET Pids : pids \subseteq S /\ ClosedIn(d, S) => p \in S}

\* All that belongs to the app, and what of it no kill and no death has hit.
Tied(d)   == Descendants(d, Mains(d))
Unhurt(d) == {p \in Pids : d[p].kind \in {"main", "other"}
                            /\ d[p].life \in {"running", "stopped"}}

Idle == [op |-> "none", step |-> "idle", pids |-> {}, sig |-> "CONT",
         targets |-> {}, left |-> {}, calm |-> FALSE]

-----------------------------------------------------------------------------
\* snapshot() has a scan that is recent enough and is not empty.
FreshInclusive(c) == c.read /\ clock - c.at <= TTL \* mutant

Fresh(c) == c.read /\ clock - c.at < TTL

Calls == {"find", "judge", "direct", "tree"}

Init ==
  /\ clock = TTL + 1
  /\ proc = Unborn
  /\ cache = [data |-> Unborn, at |-> 0, read |-> FALSE]
  /\ scanning = {}
  /\ scan = [t \in Threads |-> [data |-> Unborn, at |-> 0]]
  /\ h = [t \in Threads |-> Idle]
  /\ changed = 0
  /\ killed = {}

\* Time passes, but no scan takes longer than ScanTime.
Tick ==
  /\ clock < MaxClock
  /\ \A t \in scanning : clock < scan[t].at + ScanTime
  /\ clock' = clock + 1
  /\ UNCHANGED <<proc, changed, procs, h, killed>>

-----------------------------------------------------------------------------
\* What is left of r: only a main process can do without a parent.
Found(r) == IF r.kind = "other" /\ r.of = NoPid THEN Gone ELSE r

Moved == changed' = clock /\ UNCHANGED <<clock, procs, h, killed>>

\* A program that was launched, from the panel or not, shows up.
Appear(p) ==
  /\ proc[p].kind = "new"
  /\ proc' = [proc EXCEPT ![p].kind = "main"]
  /\ Moved

\* A running process of the app starts another one, of its name or not.
Fork(q, p, kind) ==
  /\ proc[p].kind = "new"
  /\ q \in Tied(proc) /\ proc[q].life = "running"
  /\ proc' = [proc EXCEPT ![p].kind = kind, ![p].of = q]
  /\ Moved

\* A process ends by itself or because it was killed.  It has no command line
\* any more, which may have been all it was found by, and is its children's
\* parent no longer.
Die(p) ==
  /\ proc[p].kind \in {"main", "other"} /\ proc[p].life \in {"running", "doomed"}
  /\ \E kind \in {proc[p].kind, "other"} :
       proc' = [q \in Pids |->
                  IF q = p THEN Found([proc[p] EXCEPT !.kind = kind, !.life = "zombie"])
                  ELSE IF proc[q].of = p THEN Found([proc[q] EXCEPT !.of = NoPid])
                  ELSE proc[q]]
  /\ Moved

\* Its parent takes note of a dead process, and /proc lists it no more.
Reap(p) ==
  /\ proc[p].kind \in {"main", "other"} /\ proc[p].life = "zombie"
  /\ proc' = [proc EXCEPT ![p] = Gone]
  /\ Moved

-----------------------------------------------------------------------------
\* A request arrives.  The flag tells a pause that overlaps with no other
\* request, and of whose scans none fails.
Begin(t, op) ==
  /\ h[t] = Idle
  /\ h' = [u \in Threads |->
             IF u = t
               THEN [Idle EXCEPT !.op = op,
                       !.step = IF op \in {"close", "kill"} THEN "direct" ELSE "find",
                       !.sig = IF op = "kill" THEN "KILL" ELSE "CONT",
                       !.calm = op = "pause" /\ \A v \in Threads : h[v] = Idle]
             ELSE [h[u] EXCEPT !.calm = FALSE]]
  /\ UNCHANGED <<system, procs, killed>>

\* t can take the lock of procs.
Free(t) == scanning = {}

\* snapshot() finds the cache too old and scans /proc, under the lock.
Scan(t) ==
  /\ h[t].step \in Calls /\ t \notin scanning
  /\ Free(t) /\ ~Fresh(cache)
  /\ scanning' = scanning \cup {t}
  /\ scan' = [scan EXCEPT ![t] = [data |-> proc, at |-> clock]]
  /\ UNCHANGED <<system, cache, h, killed>>

\* The scan gets to the entry of p, if /proc had one when it was listed.
Read(t, p) ==
  /\ t \in scanning /\ scan[t].data[p].kind # "new"
  /\ scan' = [scan EXCEPT ![t].data[p] = proc[p]]
  /\ UNCHANGED <<system, cache, scanning, h, killed>>

\* The scan of t is over, or it failed and there are no data.
Scanned(t, d, read) ==
  /\ t \in scanning /\ d = (IF read THEN scan[t].data ELSE Unborn)
  /\ cache' = [data |-> d, at |-> clock, read |-> read]
  /\ scanning' = scanning \ {t}
  /\ scan' = [scan EXCEPT ![t] = [data |-> Unborn, at |-> 0]]

\* snapshot() returns d to t: the cache, or what t has scanned; r is the
\* handler with what it makes of d.
Returns(t, d, r) ==
  \/ t \notin scanning /\ Free(t) /\ Fresh(cache) /\ d = cache.data
     /\ UNCHANGED procs /\ h' = [h EXCEPT ![t] = r]
  \/ Scanned(t, d, TRUE) /\ h' = [h EXCEPT ![t] = r]
  \/ Scanned(t, d, FALSE) /\ h' = [h EXCEPT ![t] = [r EXCEPT !.calm = FALSE]]

Snapshots(t) == {cache.data, scan[t].data, Unborn}

\* t asks for the processes only to find their window.
ForWindow(t) == h[t].op \in {"toggle", "close"}

\* _app_pids in app_status, app_pause and app_toggle: whether the app runs.
Find(t) ==
  /\ h[t].step = "find"
  /\ \E d \in Snapshots(t) :
       Returns(t, d,
         CASE Mains(d) = {} /\ h[t].op = "toggle" -> [h[t] EXCEPT !.step = "launch"]
           [] Mains(d) = {}                       -> Idle
           [] h[t].op = "toggle"                  -> [h[t] EXCEPT !.step = "direct"]
           [] OTHER -> [h[t] EXCEPT !.step = "judge", !.pids = Mains(d)])
  /\ UNCHANGED <<system, killed>>

\* is_paused: a status is complete, a pause knows which signal to send.
Judge(t) ==
  /\ h[t].step = "judge"
  /\ \E d \in Snapshots(t) :
       Returns(t, d,
         IF h[t].op = "status" THEN Idle
         ELSE [h[t] EXCEPT !.step = "direct", !.pids = {},
                 !.sig = IF h[t].pids \cap Stopped(d) # {} THEN "CONT" ELSE "STOP"])
  /\ UNCHANGED <<system, killed>>

\* _real_pids_with_descendants asks for the main processes.
Direct(t) ==
  /\ h[t].step = "direct"
  /\ \E d \in Snapshots(t) :
       Returns(t, d,
         IF Mains(d) # {}
           THEN [h[t] EXCEPT !.step = "tree",
                   !.pids = IF ForWindow(t) THEN {} ELSE Mains(d)]
         ELSE IF ForWindow(t) THEN Idle
         ELSE [h[t] EXCEPT !.step = "signal"])
  /\ UNCHANGED <<system, killed>>

\* ... and then for their descendants, in what may be a later scan.
Tree(t) ==
  /\ h[t].step = "tree"
  /\ \E d \in Snapshots(t) :
       LET all == Descendants(d, h[t].pids)
       IN  Returns(t, d,
             IF ForWindow(t) THEN Idle
             ELSE [h[t] EXCEPT !.step = "signal", !.pids = {},
                     !.targets = IF h[t].op = "kill" THEN all ELSE {}, !.left = all])
  /\ UNCHANGED <<system, killed>>

-----------------------------------------------------------------------------
\* What a signal makes of a process: nothing of one that is dying or dead.
Struck(r, sig) ==
  CASE r.life = "stopped" /\ sig = "CONT"                   -> "running"
    [] r.life = "running" /\ sig = "STOP"                   -> "stopped"
    [] r.life \in {"running", "stopped"} /\ sig = "KILL" -> "doomed"
    [] OTHER                                               -> r.life

SignalAborts(t, p) == \* mutant: the first process that is gone ends the loop
  /\ h[t].step = "signal" /\ p \in h[t].left
  /\ h' = [h EXCEPT ![t].left = IF proc[p].kind # "gone" THEN @ \ {p} ELSE {}]
  /\ proc' = [proc EXCEPT ![p].life = Struck(proc[p], h[t].sig)]
  /\ changed' = IF proc' = proc THEN changed ELSE clock
  /\ UNCHANGED <<clock, procs, killed>>

\* os.kill: one process after the other; one that is gone is passed over.
Signal(t, p) ==
  /\ h[t].step = "signal" /\ p \in h[t].left
  /\ h' = [h EXCEPT ![t].left = @ \ {p}]
  /\ proc' = [proc EXCEPT ![p].life = Struck(proc[p], h[t].sig)]
  /\ changed' = IF proc' = proc THEN changed ELSE clock
  /\ UNCHANGED <<clock, procs, killed>>

\* A pause has signalled all it found and answers paused or resumed.
Answer(t) ==
  /\ h[t].step = "signal" /\ h[t].op = "pause" /\ h[t].left = {}
  /\ h' = [h EXCEPT ![t] = Idle]
  /\ UNCHANGED <<system, procs, killed>>

\* _launch: the program is started and may appear, or it cannot be started
\* and the request fails.
Launch(t) ==
  /\ h[t].step = "launch"
  /\ h' = [h EXCEPT ![t].step = "signal"] \/ h' = [h EXCEPT ![t] = Idle]
  /\ UNCHANGED <<system, procs, killed>>

InvalidateUnlocked(t) == \* mutant: the cache is dropped without the lock
  /\ h[t].step = "signal" /\ h[t].op \in {"kill", "toggle"} /\ h[t].left = {}
  /\ cache' = [cache EXCEPT !.at = 0]
  /\ killed' = killed \cup h[t].targets
  /\ h' = [h EXCEPT ![t] = Idle]
  /\ UNCHANGED <<system, scanning, scan>>

\* A kill or a launch ends with procs.invalidate().
Invalidate(t) ==
  /\ h[t].step = "signal" /\ h[t].op \in {"kill", "toggle"} /\ h[t].left = {}
  /\ Free(t)
  /\ cache' = [cache EXCEPT !.at = 0]
  /\ killed' = killed \cup h[t].targets
  /\ h' = [h EXCEPT ![t] = Idle]
  /\ UNCHANGED <<system, scanning, scan>>

Next ==
  \/ Tick
  \/ \E p \in Pids : Appear(p)
  \/ \E q, p \in Pids, kind \in {"main", "other"} : Fork(q, p, kind)
  \/ \E p \in Pids : Die(p)
  \/ \E p \in Pids : Reap(p)
  \/ \E t \in Threads, op \in Ops : Begin(t, op)
  \/ \E t \in Threads : Scan(t)
  \/ \E t \in Threads, p \in Pids : Read(t, p)
  \/ \E t \in Threads : Find(t)
  \/ \E t \in Threads : Judge(t)
  \/ \E t \in Threads : Direct(t)
  \/ \E t \in Threads : Tree(t)
  \/ \E t \in Threads, p \in Pids : Signal(t, p)
  \/ \E t \in Threads : Answer(t)
  \/ \E t \in Threads : Launch(t)
  \/ \E t \in Threads : Invalidate(t)

Spec == Init /\ [][Next]_vars

-----------------------------------------------------------------------------
Handler == [op : Ops \cup {"none"}, step : Calls \cup {"idle", "signal", "launch"},
            pids : SUBSET Pids, sig : {"STOP", "CONT", "KILL"},
            targets : SUBSET Pids, left : SUBSET Pids, calm : BOOLEAN]

(* Type correctness; only a request that scans holds a scan.               *)
TypeOK ==
  /\ clock \in (TTL + 1)..MaxClock
  /\ proc \in Listing
  /\ cache \in [data : Listing, at : Nat, read : BOOLEAN]
  /\ Cardinality(scanning) <= 1
  /\ scan \in [Threads -> [data : Listing, at : Nat]]
  /\ h \in [Threads -> Handler]
  /\ \A t \in scanning : h[t].step \in Calls
  /\ changed \in Nat
  /\ killed \subseteq Pids

(* "Call after launch/kill so the next status check is fresh"              *)
(* (core/procs.py:91): once a kill was answered every snapshot that is     *)
(* used was read after its signals, even if another request was scanning   *)
(* while it sent them.  A process it shows may be dying or a zombie, but   *)
(* is none that the kill had not hit yet.                                  *)
KillIsSeen ==
  Fresh(cache) => killed \cap Unhurt(cache.data) = {}

(* The panel is at most TTL and one scan behind: a snapshot that is used   *)
(* after the processes have been left alone that long shows them as they   *)
(* are, so that the next status, pause or toggle decides right.            *)
SettledIsSeen ==
  Fresh(cache) /\ changed <= clock - TTL - ScanTime => cache.data = proc

(* A pause that resumes, overlaps with no other request and reads /proc    *)
(* without an error leaves nothing of the app stopped: the list of its     *)
(* targets is never older than that of the pause that stopped them, though *)
(* the app forks and dies between the two, and during each.                *)
ResumeResumesAll ==
  [][\A t \in Threads :
       h[t].op = "pause" /\ h[t].sig = "CONT" /\ h[t].calm
         /\ h[t].step = "signal" /\ h'[t] = Idle
         => Tied(proc) \cap Stopped(proc) = {}]_vars
=============================================================================
