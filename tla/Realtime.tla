------------------------------ MODULE Realtime ------------------------------
(***************************************************************************)
(* core/realtime.py and the /api/events handler of routes/system.py: the   *)
(* hub that pushes sysinfo, battery and lock state to the open panels.     *)
(*                                                                         *)
(* One producer thread per name reads a state outside the lock and then    *)
(* broadcasts it under the lock; one request thread per connection takes   *)
(* events from the queue of its subscriber and writes them to the socket.  *)
(* Of a state only its version is kept.  Producers repeat their broadcast  *)
(* for ever, changed or not: that is what repairs a skipped event.         *)
(*                                                                         *)
(* The socket and the WSGI server are external: a write to a client that   *)
(* is gone can succeed once, a write to a client that stopped reading      *)
(* blocks, and a HEAD request is answered without starting the generator.  *)
(***************************************************************************)
EXTENDS Integers, Sequences

CONSTANTS
  Conns,      \* connections that can be open at once
  Names,      \* sysinfo, battery, lock: one producer thread each
  NoEvent,    \* the comment lines ": connected" and ": ping"
  QMax,       \* _QUEUE_MAX
  Methods,    \* HTTP methods of requests for /api/events
  MaxVersion  \* bound of the model: how often a state changes

ASSUME QMaxAssumption    == QMax \in Nat \ {0}
ASSUME MethodAssumption  == Methods \subseteq {"GET", "HEAD"}
ASSUME VersionAssumption == MaxVersion \in Nat \ {0}

VARIABLES
  world,    \* per name: the version of the real state
  value,    \* per name: what its producer has read
  sending,  \* per name: the producer is between reading and broadcasting
  last,     \* _LAST, 0 for a name never broadcast
  order,    \* the names of _LAST in the order of the dict
  subs,     \* _SUBSCRIBERS
  queue,    \* per connection: its queue
  conn,     \* per connection: none, open, wait, send, head or answered
  out,      \* per connection: the event being written
  link,     \* per connection: up, stalled, cut or reset
  seen,     \* history, per connection and name: the newest version received
  skipped,  \* history, per connection: names whose last broadcast found the
            \* queue full
  behind    \* history, per name: the connections whose queue has not been
            \* empty since its last broadcast

producers == <<world, value, sending>>
hub       == <<last, order, subs, queue, skipped, behind>>
clients   == <<conn, out, link, seen>>
vars      == <<producers, hub, clients>>

Blank    == [n \in Names |-> 0]
Event(n, v) == [name |-> n, ver |-> v]
Listed   == {order[i] : i \in 1..Len(order)}
Events   == [name : Names, ver : 1..MaxVersion]

ASSUME EventAssumption == NoEvent \notin Events

-----------------------------------------------------------------------------
Init ==
  /\ world = [n \in Names |-> 1]
  /\ value = [n \in Names |-> 1]
  /\ sending = [n \in Names |-> FALSE]
  /\ last = Blank
  /\ order = <<>>
  /\ subs = {}
  /\ queue = [c \in Conns |-> <<>>]
  /\ conn = [c \in Conns |-> "none"]
  /\ out = [c \in Conns |-> NoEvent]
  /\ link = [c \in Conns |-> "up"]
  /\ seen = [c \in Conns |-> Blank]
  /\ skipped = [c \in Conns |-> {}]
  /\ behind = [n \in Names |-> {}]

\* The state behind a name changes.
Change(n) ==
  /\ world[n] < MaxVersion
  /\ world' = [world EXCEPT ![n] = @ + 1]
  /\ UNCHANGED <<value, sending, hub, clients>>

\* The head of a producer loop: sysinfo(), battery_info(), screen_locked().
Sample(n) ==
  /\ ~sending[n]
  /\ sending' = [sending EXCEPT ![n] = TRUE]
  /\ value' = [value EXCEPT ![n] = world[n]]
  /\ UNCHANGED <<world, hub, clients>>

\* put_nowait: a full queue refuses the new event.
OfferLifo(q, e) == IF Len(q) < QMax THEN <<e>> \o q ELSE q \* mutant

OfferUnbounded(q, e) == Append(q, e) \* mutant

Offer(q, e) == IF Len(q) < QMax THEN Append(q, e) ELSE q

BroadcastStops(n) == \* mutant: queue.Full is caught outside the for loop
  /\ sending[n]
  /\ sending' = [sending EXCEPT ![n] = FALSE]
  /\ last' = [last EXCEPT ![n] = value[n]]
  /\ order' = IF n \in Listed THEN order ELSE Append(order, n)
  /\ LET told == {c \in subs : \A d \in subs : Len(queue[d]) < QMax}
     IN  /\ queue' = [c \in Conns |->
               IF c \in told THEN Append(queue[c], Event(n, value[n])) ELSE queue[c]]
         /\ skipped' = [c \in Conns |->
               IF c \in told THEN skipped[c] \ {n}
               ELSE IF c \in subs THEN skipped[c] \cup {n} ELSE skipped[c]]
         /\ behind' = [behind EXCEPT ![n] = told \cup {c \in subs : queue[c] # <<>>}]
  /\ UNCHANGED <<world, value, subs, clients>>

\* broadcast(): cache the state, offer it to every subscriber.
Broadcast(n) ==
  /\ sending[n]
  /\ sending' = [sending EXCEPT ![n] = FALSE]
  /\ last' = [last EXCEPT ![n] = value[n]]
  /\ order' = IF n \in Listed THEN order ELSE Append(order, n)
  /\ queue' = [c \in Conns |->
                 IF c \in subs THEN Offer(queue[c], Event(n, value[n])) ELSE queue[c]]
  /\ skipped' = [c \in Conns |->
                   IF c \notin subs THEN skipped[c]
                   ELSE IF Len(queue[c]) < QMax THEN skipped[c] \ {n}
                                                ELSE skipped[c] \cup {n}]
  /\ behind' = [behind EXCEPT ![n] = subs]
  /\ UNCHANGED <<world, value, subs, clients>>

-----------------------------------------------------------------------------
\* What add_subscriber puts into a new queue: the cache, until it is full.
ReplaySize == IF Len(order) < QMax THEN Len(order) ELSE QMax
Replay     == [i \in 1..ReplaySize |-> Event(order[i], last[order[i]])]

ConnectBlank(c, m) == \* mutant: the cached state is not replayed
  /\ conn[c] = "none"
  /\ subs' = subs \cup {c}
  /\ skipped' = [skipped EXCEPT ![c] = {}]
  /\ conn' = [conn EXCEPT ![c] = IF m = "GET" THEN "open" ELSE "head"]
  /\ UNCHANGED <<producers, last, order, queue, behind, out, link, seen>>

\* events() past its session check: add_subscriber() runs.  A request without
\* a session is refused and leaves no trace.
Connect(c, m) ==
  /\ conn[c] = "none"
  /\ subs' = subs \cup {c}
  /\ queue' = [queue EXCEPT ![c] = Replay]
  /\ skipped' = [skipped EXCEPT ![c] = {order[i] : i \in (ReplaySize + 1)..Len(order)}]
  /\ conn' = [conn EXCEPT ![c] = IF m = "GET" THEN "open" ELSE "head"]
  /\ UNCHANGED <<producers, last, order, behind, out, link, seen>>

\* The server iterates over the response: gen() starts and yields a comment.
Start(c) ==
  /\ conn[c] = "open"
  /\ conn' = [conn EXCEPT ![c] = "send"]
  /\ UNCHANGED <<producers, hub, out, link, seen>>

\* The server answers a HEAD request: gen() is never iterated, and the
\* finally clause of a generator that was not started does not run.
AnswerHead(c) ==
  /\ conn[c] = "head"
  /\ conn' = [conn EXCEPT ![c] = "answered"]
  /\ UNCHANGED <<producers, hub, out, link, seen>>

\* q.get() returns an event.
Get(c) ==
  /\ conn[c] = "wait" /\ queue[c] # <<>>
  /\ out' = [out EXCEPT ![c] = Head(queue[c])]
  /\ queue' = [queue EXCEPT ![c] = Tail(@)]
  /\ conn' = [conn EXCEPT ![c] = "send"]
  /\ behind' = IF Len(queue[c]) = 1 THEN [n \in Names |-> behind[n] \ {c}] ELSE behind
  /\ UNCHANGED <<producers, last, order, subs, skipped, link, seen>>

\* q.get() times out: a heartbeat is due.
Ping(c) ==
  /\ conn[c] = "wait" /\ queue[c] = <<>>
  /\ conn' = [conn EXCEPT ![c] = "send"]
  /\ UNCHANGED <<producers, hub, out, link, seen>>

\* The yielded text is written.  A client that is gone takes one more write.
Write(c) ==
  /\ conn[c] = "send" /\ link[c] \in {"up", "cut"}
  /\ seen' = IF out[c] = NoEvent \/ link[c] = "cut" THEN seen
             ELSE [seen EXCEPT ![c] = [@ EXCEPT ![out[c].name] = out[c].ver]]
  /\ link' = [link EXCEPT ![c] = IF @ = "cut" THEN "reset" ELSE @]
  /\ out' = [out EXCEPT ![c] = NoEvent]
  /\ conn' = [conn EXCEPT ![c] = "wait"]
  /\ UNCHANGED <<producers, hub>>

CloseKept(c) == \* mutant: the finally clause is missing
  /\ conn[c] = "send" /\ link[c] = "reset"
  /\ conn' = [conn EXCEPT ![c] = "answered"]
  /\ UNCHANGED <<producers, hub, out, link, seen>>

\* The write fails: the generator is closed, its finally clause unsubscribes.
Close(c) ==
  /\ conn[c] = "send" /\ link[c] = "reset"
  /\ subs' = subs \ {c}
  /\ queue' = [queue EXCEPT ![c] = <<>>]
  /\ skipped' = [skipped EXCEPT ![c] = {}]
  /\ conn' = [conn EXCEPT ![c] = "none"]
  /\ out' = [out EXCEPT ![c] = NoEvent]
  /\ link' = [link EXCEPT ![c] = "up"]
  /\ seen' = [seen EXCEPT ![c] = Blank]
  /\ behind' = [n \in Names |-> behind[n] \ {c}]
  /\ UNCHANGED <<producers, last, order>>

-----------------------------------------------------------------------------
Streaming(c) == conn[c] \in {"open", "wait", "send"}

\* The client stops reading and the buffers fill, it reads on, or goes away.
Stall(c) ==
  /\ Streaming(c) /\ link[c] = "up"
  /\ link' = [link EXCEPT ![c] = "stalled"]
  /\ UNCHANGED <<producers, hub, conn, out, seen>>

Resume(c) ==
  /\ link[c] = "stalled"
  /\ link' = [link EXCEPT ![c] = "up"]
  /\ UNCHANGED <<producers, hub, conn, out, seen>>

Cut(c) ==
  /\ Streaming(c) /\ link[c] \in {"up", "stalled"}
  /\ link' = [link EXCEPT ![c] = IF @ = "up" THEN "cut" ELSE "reset"]
  /\ UNCHANGED <<producers, hub, conn, out, seen>>

Next ==
  \/ \E n \in Names : Change(n)
  \/ \E n \in Names : Sample(n)
  \/ \E n \in Names : Broadcast(n)
  \/ \E c \in Conns, m \in Methods : Connect(c, m)
  \/ \E c \in Conns : Start(c)
  \/ \E c \in Conns : AnswerHead(c)
  \/ \E c \in Conns : Get(c)
  \/ \E c \in Conns : Ping(c)
  \/ \E c \in Conns : Write(c)
  \/ \E c \in Conns : Close(c)
  \/ \E c \in Conns : Stall(c)
  \/ \E c \in Conns : Resume(c)
  \/ \E c \in Conns : Cut(c)

Spec == Init /\ [][Next]_vars

\* The client reads what the server writes.
Reading(c) == Streaming(c) /\ link[c] = "up"

\* A producer wakes up: sleep(2), sleep(3) or sleep(5) is over, which is
\* longer than a request thread takes to write the events of its queue to a
\* client that reads them.
Paced ==
  \A n \in Names : sending'[n] /\ ~sending[n] => \A c \in behind[n] : ~Reading(c)

\* Producers loop for ever, and a request thread goes on while it can: it is
\* woken by an event or by the 20s timeout, and only a client that stopped
\* reading keeps it from its next step.  However slow its clients have been,
\* from some time on those that read keep up with the producers' sleep.
Fairness ==
  /\ \A n \in Names : WF_vars(Sample(n)) /\ WF_vars(Broadcast(n))
  /\ \A c \in Conns : WF_vars(Start(c) \/ Get(c) \/ Ping(c) \/ Write(c) \/ Close(c))
  /\ <>[][Paced]_vars

FairSpec == Spec /\ Fairness

-----------------------------------------------------------------------------
(* Type correctness; a queue never holds more than QMax events.            *)
TypeOK ==
  /\ world \in [Names -> 1..MaxVersion]
  /\ value \in [Names -> 1..MaxVersion]
  /\ sending \in [Names -> BOOLEAN]
  /\ last \in [Names -> 0..MaxVersion]
  /\ order \in Seq(Names)
  /\ subs \subseteq Conns
  /\ queue \in [Conns -> Seq(Events)]
  /\ \A c \in Conns : Len(queue[c]) <= QMax
  /\ conn \in [Conns -> {"none", "open", "wait", "send", "head", "answered"}]
  /\ out \in [Conns -> Events \cup {NoEvent}]
  /\ link \in [Conns -> {"up", "stalled", "cut", "reset"}]
  /\ seen \in [Conns -> [Names -> 0..MaxVersion]]
  /\ skipped \in [Conns -> SUBSET Names]
  /\ behind \in [Names -> SUBSET Conns]

\* The states of name n on their way to c.
Pending(c, n) ==
  {queue[c][i].ver : i \in {j \in 1..Len(queue[c]) : queue[c][j].name = n}}
    \cup (IF out[c] # NoEvent /\ out[c].name = n THEN {out[c].ver} ELSE {})

(* Registration and replay leave no gap: unless the last broadcast of a    *)
(* name found the queue full, a reading client has its newest state or it  *)
(* is on its way, however connects and broadcasts interleave.              *)
NothingMissed ==
  \A c \in subs, n \in Names :
    link[c] \in {"up", "stalled"} /\ n \notin skipped[c] =>
      last[n] \in Pending(c, n) \cup {seen[c][n]}

Abstract == INSTANCE Feed

(* A panel never goes back to an older state: replay, broadcast and        *)
(* delivery together behave as the feed.                                   *)
ImplementsFeed == Abstract!Spec

(* A connection whose client went away is unsubscribed by the write that   *)
(* fails, at the latest by that of the next heartbeat.                     *)
GoneIsRemoved ==
  \A c \in Conns :
    (Streaming(c) /\ link[c] \in {"cut", "reset"}) ~> (c \notin subs)

(* The panel catches up: a client that goes on reading, or takes it up     *)
(* again, gets every state or a newer one, whatever broadcasts it missed   *)
(* while its queue was full, and whether other clients read, have stopped  *)
(* reading for good or come and go.                                        *)
CatchesUp ==
  \A c \in Conns, n \in Names : \A v \in 1..MaxVersion :
    []<>(Reading(c) /\ world[n] >= v => seen[c][n] >= v)
=============================================================================
