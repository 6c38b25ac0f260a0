----------------------------- MODULE PanelProofs -----------------------------
(***************************************************************************)
(* Proofs for Panel: for any number of requests under way and of calls of  *)
(* initApp that overlap, the page loses track of no interval and of no     *)
(* EventSource, sse.connected tells the truth, and the card shows          *)
(* lastStatus.  The four hold together: an interval is cleared through its *)
(* variable, so that there is never a second one needs that every running  *)
(* one is named by it, and `open` concerns sse.es for the same reason.     *)
(* With them, a page that shows the lock or the app card goes on asking.   *)
(***************************************************************************)
EXTENDS Panel, TLAPS

IInv == TypeOK /\ OneOfEach /\ CardShowsLast /\ GateIsTrue

(* What the intervals alone satisfy.                                       *)
Loops ==
  /\ running \in [Timers -> 0..1] /\ held \subseteq Timers
  /\ \A t \in Timers : running[t] > 0 => t \in held

(* What the EventSources alone satisfy.                                    *)
Streams ==
  /\ live \in [Sources -> {"closed", "connecting", "open"}]
  /\ es \in Sources \cup {NoSource} /\ connected \in BOOLEAN
  /\ \A s \in Sources : live[s] # "closed" => s = es
  /\ connected => \E s \in Sources : s = es /\ live[s] = "open"

(* What the card, the answers and the counters satisfy.                    *)
Shown ==
  /\ session \in BOOLEAN /\ screen \in Screens
  /\ card \in {"blank", "login", "lock", "app"} /\ last \in Status
  /\ initialized \in BOOLEAN /\ starting \in 0..MaxStarting
  /\ card \in {"blank", CardOf(last)}

Requests == fetch \in [Slots -> Fetch] /\ due \in 0..MaxDue

LEMMA Parts == IInv <=> Loops /\ Streams /\ Shown /\ Requests
  BY DEF IInv, TypeOK, OneOfEach, CardShowsLast, GateIsTrue, Loops, Streams, Shown,
         Requests

-----------------------------------------------------------------------------
(* Clearing an interval through its variable leaves none of its kind.      *)
LEMMA ClearedIsZero == ASSUME Loops, NEW t \in Timers PROVE Cleared(t) = 0
  BY DEF Loops, Cleared

LEMMA StartLoops == ASSUME Loops, NEW T \in SUBSET Timers, Start(T) PROVE Loops'
<1>1. \A t \in Timers : Cleared(t) = 0
  BY ClearedIsZero
<1>2. running' = [t \in Timers |-> IF t \in T THEN 1 ELSE running[t]]
  BY <1>1 DEF Start
<1> QED
  BY <1>2 DEF Loops, Start

(* An EventSource that is closed leaves none that is open.                 *)
LEMMA AllClosed == ASSUME Streams, NEW s \in Sources PROVE Closed[s] = "closed"
  BY DEF Streams, Closed

LEMMA StopAll == ASSUME Loops, Streams, stopAllPolling PROVE Loops' /\ Streams'
<1>1. \A t \in Timers : Cleared(t) = 0
  BY ClearedIsZero
<1>2. running' = [t \in Timers |-> 0]
  BY <1>1 DEF stopAllPolling
<1>3. \A s \in Sources : live'[s] = "closed"
  BY AllClosed DEF stopAllPolling
<1>4. live' \in [Sources -> {"closed", "connecting", "open"}]
  BY DEF stopAllPolling, Closed, Streams
<1>5. Loops'
  BY <1>2 DEF Loops, stopAllPolling
<1>6. Streams'
  BY <1>3, <1>4 DEF Streams, stopAllPolling
<1> QED
  BY <1>5, <1>6

LEMMA OpenStreams == ASSUME Streams, openEventStream PROVE Streams'
<1> DEFINE new == CHOOSE x \in Sources : Closed[x] = "closed"
<1>0. CASE Sources = {}
  BY <1>0 DEF openEventStream, Streams
<1> SUFFICES ASSUME Sources # {} PROVE Streams'
  BY <1>0
<1>1. new \in Sources
  BY AllClosed
<1>2. live' = [Closed EXCEPT ![new] = "connecting"] /\ es' = new /\ connected' = FALSE
  BY DEF openEventStream
<1>3. Closed \in [Sources -> {"closed", "connecting", "open"}]
  BY DEF Closed, Streams
<1> HIDE DEF new
<1>4. \A s \in Sources : live'[s] = IF s = new THEN "connecting" ELSE "closed"
  BY <1>1, <1>2, <1>3, AllClosed
<1>5. live' \in [Sources -> {"closed", "connecting", "open"}]
  BY <1>2, <1>3
<1> QED
  BY <1>1, <1>2, <1>4, <1>5 DEF Streams

LEMMA CardOfRange == ASSUME NEW d PROVE CardOf(d) \in {"login", "lock", "app"}
  BY DEF CardOf

(* Showing an answer, of any sender and at any time.                       *)
LEMMA ApplyOK ==
  ASSUME Loops, Streams, Shown, NEW d \in Status, applyAuthState(d),
         session' \in BOOLEAN, screen' \in Screens
  PROVE  Loops' /\ Streams' /\ Shown'
<1>1. last' = d /\ card' = CardOf(d) /\ card' \in {"login", "lock", "app"}
  BY CardOfRange DEF applyAuthState
<1>2. CASE card' = "login"
  <2>1. stopAllPolling /\ initialized' = FALSE /\ starting' = starting
    BY <1>2 DEF applyAuthState
  <2> QED
    BY <1>1, <2>1, StopAll DEF Shown, CardOf
<1>3. CASE card' = "lock"
  <2>1. Start({"lock"}) /\ UNCHANGED <<initialized, starting, live, es, connected>>
    BY <1>3 DEF applyAuthState
  <2> QED
    BY <1>1, <2>1, StartLoops DEF Shown, Streams, CardOf, Timers
<1>4. CASE card' = "app"
  <2>1. Start({"lock"}) /\ initApp /\ UNCHANGED <<live, es, connected>>
    BY <1>4 DEF applyAuthState
  <2>2. initialized' \in BOOLEAN /\ starting' \in 0..MaxStarting
    BY <2>1, BoundAssumption DEF initApp, Shown
  <2>3. Loops' /\ Streams'
    BY <2>1, StartLoops DEF Streams, Timers
  <2> QED
    BY <1>1, <2>2, <2>3 DEF Shown, CardOf
<1> QED
  BY <1>1, <1>2, <1>3, <1>4

LEMMA NoAnswerIsStatus == NoAnswer \in Status
  BY DEF NoAnswer, Status, Screens

(* What a sender does with an answer, be it none.                          *)
LEMMA UseOK ==
  ASSUME Loops, Streams, Shown, NEW i, NEW d \in Status, Use(i, d),
         session' \in BOOLEAN, screen' \in Screens
  PROVE  Loops' /\ Streams' /\ Shown'
<1>1. CASE applyAuthState(d)
  BY <1>1, ApplyOK
<1>2. CASE UNCHANGED <<page, loops>>
  BY <1>2 DEF page, loops, Loops, Streams, Shown, CardOf
<1> QED
  BY <1>1, <1>2 DEF Use

LEMMA SendOK == ASSUME Requests, Shown, NEW i \in Slots, Send(i)
                PROVE  fetch' \in [Slots -> Fetch]
<1>1. Sent \in Fetch
  BY DEF Sent, Fetch, Status, NoAnswer, Screens, Shown
<1> QED
  BY <1>1 DEF Send, Requests

-----------------------------------------------------------------------------
LEMMA InitIInv == Init => IInv
<1> SUFFICES ASSUME Init PROVE Loops /\ Streams /\ Shown /\ Requests
  BY Parts
<1>1. Sent \in Fetch /\ Idle \in Fetch
  BY NoAnswerIsStatus DEF Sent, Idle, Fetch, Status, NoAnswer, Screens, Init
<1>2. Requests
  BY <1>1, BoundAssumption DEF Init, Loaded, Requests
<1>3. Loops
  BY DEF Init, Loaded, Loops
<1>4. Streams
  BY DEF Init, Loaded, Streams
<1>5. last \in Status /\ starting \in 0..MaxStarting
  BY BoundAssumption DEF Init, Loaded, Status, Screens
<1>6. Shown
  BY <1>5 DEF Init, Loaded, Shown
<1> QED
  BY <1>2, <1>3, <1>4, <1>6

LEMMA NextIInv == IInv /\ [Next]_vars => IInv'
<1> SUFFICES ASSUME Loops, Streams, Shown, Requests, [Next]_vars
             PROVE  Loops' /\ Streams' /\ Shown' /\ Requests'
  BY DEF IInv, TypeOK, OneOfEach, CardShowsLast, GateIsTrue, Loops, Streams, Shown,
         Requests
<1> USE DEF Slots
<1>1. ASSUME Started PROVE Loops' /\ Streams' /\ Shown' /\ Requests'
  <2>1. Loops'
    BY <1>1, StartLoops DEF Started, Timers
  <2>2. Streams'
    BY <1>1, OpenStreams DEF Started
  <2>3. starting' \in 0..MaxStarting
    BY <1>1, BoundAssumption DEF Started, Shown
  <2> QED
    BY <1>1, <2>1, <2>2, <2>3 DEF Started, Shown, Requests, world, asked, CardOf
<1>2. ASSUME checkAuth PROVE Loops' /\ Streams' /\ Shown' /\ Requests'
  <2>1. fetch' \in [Slots -> Fetch]
    BY <1>2, SendOK DEF checkAuth
  <2>2. due' \in 0..MaxDue
    BY <1>2, BoundAssumption DEF checkAuth, Requests
  <2> QED
    BY <1>2, <2>1, <2>2 DEF checkAuth, world, page, loops, Loops, Streams, Shown, Requests, CardOf
<1>3. ASSUME LockPoll PROVE Loops' /\ Streams' /\ Shown' /\ Requests'
  BY <1>3, SendOK DEF LockPoll, world, page, loops, Loops, Streams, Shown, Requests, CardOf
<1>4. ASSUME NEW i \in Slots, Answer(i) PROVE Loops' /\ Streams' /\ Shown' /\ Requests'
  <2>1. PICK good \in {TRUE, session} :
          fetch' = [fetch EXCEPT ![i] =
                     [step |-> "answered",
                      answer |-> [authed |-> @.answer.authed /\ good, screen |-> screen]]]
    BY <1>4 DEF Answer
  <2>2. (fetch[i].answer.authed /\ good) \in BOOLEAN
    OBVIOUS
  <2> DEFINE a == fetch[i].answer.authed /\ good
  <2>3. fetch' = [fetch EXCEPT ![i] =
                   [step |-> "answered", answer |-> [authed |-> a, screen |-> screen]]]
    BY <2>1
  <2>4. a \in BOOLEAN
    BY <2>2
  <2> HIDE DEF a
  <2>5. [step |-> "answered", answer |-> [authed |-> a, screen |-> screen]] \in Fetch
    BY <2>4 DEF Fetch, Status, Shown
  <2>6. fetch' \in [Slots -> Fetch]
    BY <2>3, <2>5 DEF Requests
  <2> QED
    BY <1>4, <2>6 DEF Answer, world, page, loops, Loops, Streams, Shown, Requests, CardOf
<1>5. ASSUME NEW i \in Slots, Arrive(i) PROVE Loops' /\ Streams' /\ Shown' /\ Requests'
  <2>1. fetch[i].answer \in Status
    BY DEF Requests, Fetch
  <2>2. fetch[i].answer.authed \in BOOLEAN
    BY <2>1 DEF Status
  <2>3. session' \in BOOLEAN /\ screen' \in Screens
    BY <1>5, <2>2 DEF Arrive, Shown
  <2>4. Loops' /\ Streams' /\ Shown'
    BY <1>5, <2>1, <2>3, UseOK DEF Arrive
  <2>5. Requests'
    BY <1>5, NoAnswerIsStatus DEF Arrive, Requests, Idle, Fetch
  <2> QED
    BY <2>4, <2>5
<1>6. ASSUME NEW i \in Slots, Fail(i) PROVE Loops' /\ Streams' /\ Shown' /\ Requests'
  <2>1. session' \in BOOLEAN /\ screen' \in Screens
    BY <1>6 DEF Fail, world, Shown
  <2>2. Loops' /\ Streams' /\ Shown'
    BY <1>6, <2>1, NoAnswerIsStatus, UseOK DEF Fail
  <2>3. Requests'
    BY <1>6, NoAnswerIsStatus DEF Fail, Requests, Idle, Fetch
  <2> QED
    BY <2>2, <2>3
<1>7. ASSUME SignedIn PROVE Loops' /\ Streams' /\ Shown' /\ Requests'
  <2>1. session' \in BOOLEAN /\ screen' \in Screens
    BY <1>7 DEF SignedIn, Shown, Screens
  <2>2. fetch' \in [Slots -> Fetch]
    BY <1>7, SendOK DEF SignedIn
  <2> QED
    BY <1>7, <2>1, <2>2 DEF SignedIn, page, loops, Loops, Streams, Shown, Requests, CardOf
<1>8. ASSUME SignedOut PROVE Loops' /\ Streams' /\ Shown' /\ Requests'
  <2>1. Loops' /\ Streams'
    BY <1>8, StopAll DEF SignedOut
  <2>2. due' \in 0..MaxDue
    BY <1>8, BoundAssumption DEF SignedOut, Requests
  <2> QED
    BY <1>8, <2>1, <2>2 DEF SignedOut, Shown, Requests, CardOf
<1>9. ASSUME Lock PROVE Loops' /\ Streams' /\ Shown' /\ Requests'
  <2>1. due' \in 0..MaxDue
    BY <1>9, BoundAssumption DEF Lock, Requests
  <2> QED
    BY <1>9, <2>1 DEF Lock, world, page, loops, Loops, Streams, Shown, Requests, CardOf
<1>10. ASSUME UseCode PROVE Loops' /\ Streams' /\ Shown' /\ Requests'
  BY <1>10, SendOK DEF UseCode, world, page, loops, Loops, Streams, Shown, Requests, CardOf
<1>11. ASSUME NEW s \in Sources,
              StreamOpens(s) \/ StreamRefused(s) \/ StreamBreaks(s)
       PROVE  Loops' /\ Streams' /\ Shown' /\ Requests'
  <2>1. s = es
    BY <1>11 DEF StreamOpens, StreamRefused, StreamBreaks, Streams
  <2>2. Streams'
    BY <1>11, <2>1 DEF StreamOpens, StreamRefused, StreamBreaks, Streams
  <2> QED
    BY <1>11, <2>2 DEF StreamOpens, StreamRefused, StreamBreaks, world, page, asked,
                       Loops, Shown, Requests, CardOf
<1>12. ASSUME NEW s \in Sources, NEW sc \in Screens, LockEvent(s, sc)
       PROVE  Loops' /\ Streams' /\ Shown' /\ Requests'
  BY <1>12, SendOK DEF LockEvent, world, page, loops, Loops, Streams, Shown, Requests, CardOf
<1>13. ASSUME SessionEnds \/ ScreenMoves PROVE Loops' /\ Streams' /\ Shown' /\ Requests'
  <2>1. session' \in BOOLEAN /\ screen' \in Screens
    BY <1>13 DEF SessionEnds, ScreenMoves, Shown
  <2>2. UNCHANGED <<page, loops, asked>>
    BY <1>13 DEF SessionEnds, ScreenMoves
  <2> QED
    BY <2>1, <2>2 DEF page, loops, asked, Loops, Streams, Shown, Requests, CardOf
<1>14. ASSUME UNCHANGED vars PROVE Loops' /\ Streams' /\ Shown' /\ Requests'
  BY <1>14 DEF vars, world, page, loops, asked, Loops, Streams, Shown, Requests, CardOf
<1> QED
  BY <1>1, <1>2, <1>3, <1>4, <1>5, <1>6, <1>7, <1>8, <1>9, <1>10, <1>11, <1>12, <1>13,
     <1>14 DEF Next

-----------------------------------------------------------------------------
(* The page's bookkeeping holds in every state it can reach.               *)
THEOREM InductiveInvariant == Spec => []IInv
  BY InitIInv, NextIInv, PTL DEF Spec

(* Every variable keeps its type; no timer ever ticks twice.               *)
THEOREM TypeCorrect == Spec => []TypeOK
<1>1. IInv => TypeOK
  BY DEF IInv
<1> QED
  BY <1>1, InductiveInvariant, PTL

(* No interval and no EventSource escapes stopAllPolling, however often    *)
(* initApp resumes after its awaits (app.js:1300-1325, 1625-1633).         *)
THEOREM NothingEscapes == Spec => []OneOfEach
<1>1. IInv => OneOfEach
  BY DEF IInv
<1> QED
  BY <1>1, InductiveInvariant, PTL

(* The card is the one of lastStatus, in whatever order answers, polls and *)
(* events come (app.js:284-325, 1606-1623, 1667-1678).                     *)
THEOREM CardAgrees == Spec => []CardShowsLast
<1>1. IInv => CardShowsLast
  BY DEF IInv
<1> QED
  BY <1>1, InductiveInvariant, PTL

(* sse.connected never suppresses the polling without an open stream       *)
(* (app.js:1611, 1645-1659).                                               *)
THEOREM GateSound == Spec => []GateIsTrue
<1>1. IInv => GateIsTrue
  BY DEF IInv
<1> QED
  BY <1>1, InductiveInvariant, PTL
-----------------------------------------------------------------------------
(* A checkAuth that is due or under way, which will show its answer.       *)
Checking == due > 0 \/ \E c \in Checks : fetch[c].step # "idle"

(* The page is never adrift: on the lock card and the app card it polls    *)
(* the state of the screen, and on the app card the data too or it will    *)
(* once initApp has gone on; where it does not, a checkAuth is due or      *)
(* under way, after the page was loaded and after a sign-out.              *)
NeverAdrift ==
  /\ card = "blank" => Checking
  /\ card = "lock" => running["lock"] > 0
  /\ card = "app" => initialized \/ Checking
  /\ initialized => running["lock"] > 0 /\ (running["data"] > 0 \/ starting > 0)

(* What starts an interval leaves it running, and stops no other.          *)
LEMMA StartRuns ==
  ASSUME Loops, NEW T \in SUBSET Timers, Start(T)
  PROVE  \A t \in Timers : IF t \in T THEN running'[t] = 1 ELSE running'[t] = running[t]
  BY ClearedIsZero DEF Start

(* An answer that is shown leaves nothing to wait for.                     *)
LEMMA ApplyWatches ==
  ASSUME Loops, Shown, NeverAdrift, NEW d \in Status, applyAuthState(d)
  PROVE  NeverAdrift'
<1>1. card' = CardOf(d) /\ card' \in {"login", "lock", "app"}
  BY CardOfRange DEF applyAuthState
<1>2. CASE card' = "login"
  <2>1. initialized' = FALSE
    BY <1>2 DEF applyAuthState
  <2> QED BY <1>2, <2>1 DEF NeverAdrift
<1>3. CASE card' \in {"lock", "app"}
  <2>1. Start({"lock"})
    BY <1>3 DEF applyAuthState
  <2>2. running'["lock"] = 1 /\ running'["data"] = running["data"]
    BY <2>1, StartRuns DEF Timers
  <2>3. CASE card' = "lock"
    <3>1. UNCHANGED <<initialized, starting>>
      BY <2>3 DEF applyAuthState
    <3> QED BY <2>2, <2>3, <3>1 DEF NeverAdrift
  <2>4. CASE card' = "app"
    <3>1. initApp
      BY <2>4 DEF applyAuthState
    <3>2. initialized' /\ (initialized => starting' = starting)
                       /\ (~initialized => starting' > 0)
      BY <3>1, BoundAssumption DEF initApp, Shown
    <3> QED BY <2>2, <2>4, <3>2 DEF NeverAdrift
  <2> QED BY <1>3, <2>3, <2>4
<1> QED BY <1>1, <1>2, <1>3

(* The end of a request: a check shows what it has; another request may    *)
(* show something, and takes no check away.                                *)
LEMMA EndWatches ==
  ASSUME Loops, Shown, Requests, NeverAdrift, NEW i \in Slots, NEW d \in Status, Use(i, d),
         fetch' = [fetch EXCEPT ![i] = Idle], due' = due
  PROVE  NeverAdrift'
<1>1. CASE applyAuthState(d)
  BY <1>1, ApplyWatches
<1>2. CASE i \notin Checks /\ UNCHANGED <<page, loops>>
  <2>1. Checking => Checking'
    BY <1>2 DEF Checking, Requests, Slots
  <2> QED BY <1>2, <2>1 DEF NeverAdrift, page, loops
<1> QED BY <1>1, <1>2 DEF Use

(* A request that is sent takes no check away.                             *)
LEMMA SendWatches ==
  ASSUME Requests, NEW i \in Slots, Send(i)
  PROVE  \A c \in Checks : fetch[c].step # "idle" => fetch'[c].step # "idle"
  BY DEF Send, Requests, Slots, Sent

LEMMA NextWatches == IInv /\ NeverAdrift /\ [Next]_vars => NeverAdrift'
<1> SUFFICES ASSUME Loops, Streams, Shown, Requests, NeverAdrift, [Next]_vars
             PROVE  NeverAdrift'
  BY Parts
<1> DEFINE Kept == UNCHANGED <<page, loops>> /\ (Checking => Checking')
<1>1. ASSUME Kept PROVE NeverAdrift'
  BY <1>1 DEF NeverAdrift, page, loops
<1>2. CASE Started
  <2>1. Start({"data"}) /\ UNCHANGED <<card, initialized, asked>>
    BY <1>2 DEF Started
  <2>2. running'["data"] = 1 /\ running'["lock"] = running["lock"]
    BY <2>1, StartRuns DEF Timers
  <2>3. Checking' = Checking
    BY <2>1 DEF asked, Checking
  <2> QED BY <2>1, <2>2, <2>3 DEF NeverAdrift
<1>3. CASE checkAuth
  <2>1. PICK c \in Checks : Send(c)
    BY <1>3 DEF checkAuth
  <2>2. fetch'[c].step # "idle"
    BY <2>1 DEF Send, Requests, Slots, Sent
  <2> QED BY <1>1, <1>3, <2>2 DEF checkAuth, Checking, page, loops
<1>4. CASE LockPoll \/ SignedIn \/ UseCode
            \/ \E s \in Sources, sc \in Screens : LockEvent(s, sc)
  <2>1. (\E i \in Slots : Send(i)) /\ due' = due /\ UNCHANGED <<page, loops>>
    BY <1>4 DEF LockPoll, SignedIn, UseCode, LockEvent, Slots
  <2> QED BY <1>1, <2>1, SendWatches DEF Checking
<1>5. ASSUME NEW i \in Slots, Answer(i) PROVE NeverAdrift'
  <2>1. /\ \A c \in Checks : fetch[c].step # "idle" => fetch'[c].step # "idle"
        /\ UNCHANGED <<page, loops, due>>
    BY <1>5 DEF Answer, Requests, Slots
  <2> QED BY <1>1, <2>1 DEF Checking
<1>6. ASSUME NEW i \in Slots, Arrive(i) \/ Fail(i) PROVE NeverAdrift'
  <2>1. fetch[i].answer \in Status
    BY DEF Requests, Fetch
  <2> QED BY <1>6, <2>1, NoAnswerIsStatus, EndWatches DEF Arrive, Fail
<1>7. CASE SignedOut
  <2>1. due' > 0 /\ ~initialized' /\ card' = "app"
    BY <1>7 DEF SignedOut, Requests
  <2> QED BY <2>1 DEF NeverAdrift, Checking
<1>8. CASE Lock
  <2>1. due' > 0 /\ UNCHANGED <<page, loops>>
    BY <1>8 DEF Lock, Requests
  <2> QED BY <1>1, <2>1 DEF Checking
<1>9. CASE \E s \in Sources : StreamOpens(s) \/ StreamRefused(s) \/ StreamBreaks(s)
  BY <1>9 DEF StreamOpens, StreamRefused, StreamBreaks, page, asked, NeverAdrift, Checking
<1>10. CASE SessionEnds \/ ScreenMoves \/ UNCHANGED vars
  <2>1. UNCHANGED <<page, loops, asked>>
    BY <1>10 DEF SessionEnds, ScreenMoves, vars
  <2> QED BY <1>1, <2>1 DEF Checking, asked
<1> QED BY <1>2, <1>3, <1>4, <1>5, <1>6, <1>7, <1>8, <1>9, <1>10 DEF Next

(* Whatever answers come late, are lost or overtake one another, and       *)
(* however often the user signs in and out, a page that shows the lock     *)
(* card or the app card goes on asking (app.js:284-331, 630-643,           *)
(* 1606-1623): the safety part of SignOutIsSeen, LockIsSeen, PollsAgain.   *)
THEOREM KeepsAsking == Spec => []NeverAdrift
<1>1. Init => NeverAdrift
  BY DEF Init, Loaded, NeverAdrift, Checking, Sent, Slots
<1> QED BY <1>1, InitIInv, NextIInv, NextWatches, PTL DEF Spec
=============================================================================
