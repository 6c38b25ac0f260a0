----------------------------- MODULE HostProofs -----------------------------
(***************************************************************************)
(* Proofs for Host and for Daemons: the bounds on the age of what the      *)
(* caches and the login code answer hold for any number of threads and any *)
(* durations, the themes offered are whole for any files, and the history  *)
(* of notifications is true, and misses none it promised, for any number   *)
(* of them.                                                                *)
(*                                                                         *)
(* Each component has its own inductive invariant.  It is also kept by the *)
(* steps of another component, which only let time pass while no request   *)
(* of this one is under way.                                               *)
(***************************************************************************)
EXTENDS Host, Daemons, WellFoundedInduction, TLAPS

(* Time passes, or not.                                                    *)
Later == clock' \in Nat /\ clock' >= clock

-----------------------------------------------------------------------------
(* The cached value was true at some moment after d, if it has not been    *)
(* overtaken by a change of the screen.                                    *)
LockFits(d) == lockCache.read.good /\ moved < d => lockCache.read.value = screen

(* What a thread knows at each step of its call.                           *)
Asks(r) ==
  /\ r.step # "idle" => r.now <= clock /\ clock <= r.now + CallTime
  /\ r.step = "store" /\ r.read.good /\ moved < r.now => r.read.value = screen
  /\ r.step = "stamp" => LockFits(r.now - CallTime)
  /\ r.step = "hit" => LockFits(r.now - LockTTL - CallTime + 1)

(* A thread may stamp a value that another one has just stored: that one   *)
(* was asking too, so its value is no older than one call.                 *)
LockInv ==
  /\ LockTypeOK
  /\ lockCache.ts <= clock
  /\ LockFits(lockCache.ts - CallTime)
  /\ \A t \in Threads : Asks(asking[t])

NobodyAsks == \A t \in Threads : asking[t].step = "idle"

LEMMA LockStarts == LockInit => LockInv /\ NobodyAsks
  BY LockAssumption, ClockAssumption
  DEF LockInit, LockInv, LockTypeOK, LockFits, Asks, Reading, NoReading, NotAsking,
      NobodyAsks

LEMMA LockWaits ==
  ASSUME LockInv, NobodyAsks, UNCHANGED lockState, Later
  PROVE  LockInv' /\ NobodyAsks'
  BY DEF LockInv, LockTypeOK, LockFits, Asks, lockState, NobodyAsks, Later

(* The screen changes, or stays as it is.                                  *)
LEMMA LockMoves ==
  ASSUME LockInv, screen' \in BOOLEAN, moved' = clock \/ (moved' = moved /\ screen' = screen),
         orders' \subseteq BOOLEAN, UNCHANGED <<clock, lockCache, asking>>
  PROVE  LockInv'
<1> USE LockAssumption DEF LockInv, LockTypeOK, LockFits, Asks
<1>1. LockTypeOK' /\ lockCache'.ts <= clock'
  OBVIOUS
<1>2. LockFits(lockCache.ts - CallTime)'
  OBVIOUS
<1>3. ASSUME NEW t \in Threads
      PROVE  Asks(asking[t])'
  OBVIOUS
<1> QED
  BY <1>1, <1>2, <1>3

(* A thread goes on without touching the cache.                            *)
LEMMA LockGoesOn ==
  ASSUME LockInv, NEW t \in Threads, UNCHANGED <<clock, screen, moved, orders, lockCache>>,
         Enter(t) \/ Look(t) \/ Hit(t) \/ Ask(t)
  PROVE  LockInv'
<1> DEFINE Call == [step : {"idle", "look", "hit", "ask", "store", "stamp"},
                    now : Nat, read : Reading]
<1>1. asking \in [Threads -> Call] /\ Asks(asking[t])
  BY DEF LockInv, LockTypeOK
<1>2. PICK r \in Call : asking' = [asking EXCEPT ![t] = r] /\ Asks(r)
  <2>1. CASE Enter(t)
    <3> DEFINE r == [asking[t] EXCEPT !.step = "look", !.now = clock]
    <3>1. asking' = [asking EXCEPT ![t] = r]
      BY <1>1, <2>1 DEF Enter
    <3>2. r \in Call
      BY <1>1 DEF LockInv, LockTypeOK
    <3>3. Asks(r)
      BY <1>1, LockAssumption DEF Asks, LockInv, LockTypeOK
    <3> QED
      BY <3>1, <3>2, <3>3
  <2>2. CASE Look(t)
    <3> DEFINE r == [asking[t] EXCEPT !.step =
                       IF asking[t].now - lockCache.ts < LockTTL THEN "hit" ELSE "ask"]
    <3>1. asking' = [asking EXCEPT ![t] = r]
      BY <1>1, <2>2 DEF Look
    <3>2. r \in Call
      BY <1>1
    <3>3. Asks(r)
      BY <1>1, <2>2, LockAssumption DEF Look, Asks, LockFits, LockInv, LockTypeOK
    <3> QED
      BY <3>1, <3>2, <3>3
  <2>3. CASE Hit(t)
    <3>1. NotAsking \in Call /\ Asks(NotAsking)
      BY DEF NotAsking, NoReading, Reading, Asks
    <3> QED
      BY <2>3, <3>1 DEF Hit
  <2>4. CASE Ask(t)
    <3>1. PICK good \in BOOLEAN :
            asking' = [asking EXCEPT ![t].step = "store",
                         ![t].read = [value |-> good /\ screen, good |-> good]]
      BY <2>4 DEF Ask
    <3> DEFINE r == [asking[t] EXCEPT !.step = "store",
                       !.read = [value |-> good /\ screen, good |-> good]]
    <3>2. asking' = [asking EXCEPT ![t] = r]
      BY <1>1, <3>1
    <3>3. [value |-> good /\ screen, good |-> good] \in Reading
      BY DEF Reading
    <3>4. good => (good /\ screen) = screen
      BY DEF LockInv, LockTypeOK
    <3>5. r.step = "store" /\ r.now = asking[t].now
            /\ r.read.value = (good /\ screen) /\ r.read.good = good
      BY <1>1
    <3>6. r \in Call
      BY <1>1, <3>3
    <3>7. Asks(r)
      BY <1>1, <2>4, <3>4, <3>5 DEF Ask, Asks
    <3> QED
      BY <3>2, <3>6, <3>7
  <2> QED
    BY <2>1, <2>2, <2>3, <2>4
<1>3. \A u \in Threads : Asks(asking[u])'
  BY <1>1, <1>2 DEF LockInv, Asks, LockFits
<1> QED
  BY <1>1, <1>2, <1>3 DEF LockInv, LockTypeOK, LockFits

(* A thread stores its value or stamps the cache.                          *)
LEMMA LockWrites ==
  ASSUME LockInv, NEW t \in Threads, Write(t)
  PROVE  LockInv'
<1> USE LockAssumption DEF LockFits
<1>1. CASE asking[t].step = "store"
  <2>1. /\ lockCache' = [lockCache EXCEPT !.read = asking[t].read]
        /\ asking' = [asking EXCEPT ![t].step = "stamp"]
        /\ UNCHANGED <<clock, screen, moved, orders>>
    BY <1>1 DEF Write
  <2>2. LockTypeOK'
    BY <2>1 DEF LockInv, LockTypeOK
  <2>3. LockFits(clock - CallTime)'
    BY <1>1, <2>1 DEF LockInv, LockTypeOK, Asks
  <2>4. ASSUME NEW u \in Threads
        PROVE  Asks(asking[u])'
    <3>1. asking'[u].now = asking[u].now /\ asking'[u].read = asking[u].read
      BY <2>1 DEF LockInv, LockTypeOK
    <3>2. asking'[u].step = IF u = t THEN "stamp" ELSE asking[u].step
      BY <2>1 DEF LockInv, LockTypeOK
    <3>3. /\ asking'[u].step # "idle" => asking'[u].now <= clock' /\ clock' <= asking'[u].now + CallTime
          /\ asking'[u].step = "store" /\ asking'[u].read.good /\ moved' < asking'[u].now
               => asking'[u].read.value = screen'
      BY <1>1, <2>1, <3>1, <3>2 DEF LockInv, Asks
    <3> QED
      BY <2>1, <2>2, <2>3, <3>1, <3>3 DEF Asks, LockTypeOK
  <2> QED
    BY <2>1, <2>2, <2>3, <2>4 DEF LockInv, LockTypeOK
<1>2. CASE asking[t].step = "stamp"
  <2>1. /\ lockCache' = [lockCache EXCEPT !.ts = asking[t].now]
        /\ asking' = [asking EXCEPT ![t] = NotAsking]
        /\ UNCHANGED <<clock, screen, moved, orders>>
    BY <1>2 DEF Write
  <2>2. LockTypeOK'
    BY <2>1 DEF LockInv, LockTypeOK, NotAsking, NoReading, Reading
  <2>3. lockCache'.ts = asking[t].now /\ lockCache'.read = lockCache.read
    BY <2>1 DEF LockInv, LockTypeOK
  <2>4. LockFits(lockCache.ts - CallTime)' /\ lockCache'.ts <= clock'
    BY <1>2, <2>1, <2>3 DEF LockInv, Asks
  <2>5. ASSUME NEW u \in Threads
        PROVE  Asks(asking[u])'
    <3>1. asking'[u] = IF u = t THEN NotAsking ELSE asking[u]
      BY <2>1 DEF LockInv, LockTypeOK
    <3> QED
      BY <2>1, <2>3, <3>1 DEF LockInv, Asks, NotAsking
  <2> QED
    BY <2>2, <2>4, <2>5 DEF LockInv
<1> QED
  BY <1>1, <1>2 DEF Write

LEMMA LockSteps ==
  ASSUME LockInv, LockNext
  PROVE  LockInv'
<1>1. CASE LockTick
  <2>1. ASSUME NEW t \in Threads
        PROVE  Asks(asking[t])'
    BY <1>1, LockAssumption DEF LockTick, LockInv, LockTypeOK, LockFits, Asks
  <2> QED
    BY <1>1, <2>1 DEF LockTick, LockInv, LockTypeOK, LockFits
<1>2. CASE ScreenMoves
  BY <1>2, LockMoves DEF ScreenMoves, LockInv, LockTypeOK
<1>3. ASSUME NEW b \in BOOLEAN, Order(b)
      PROVE  LockInv'
  BY <1>3, LockMoves DEF Order, LockInv, LockTypeOK
<1>4. ASSUME NEW b \in BOOLEAN, Obey(b)
      PROVE  LockInv'
  BY <1>4, LockMoves DEF Obey, LockInv, LockTypeOK
<1>5. ASSUME NEW t \in Threads, Enter(t) \/ Look(t) \/ Hit(t) \/ Ask(t)
      PROVE  LockInv'
  BY <1>5, LockGoesOn DEF Enter, Look, Hit, Ask
<1>6. ASSUME NEW t \in Threads, Write(t)
      PROVE  LockInv'
  BY <1>6, LockWrites
<1> QED
  BY <1>1, <1>2, <1>3, <1>4, <1>5, <1>6 DEF LockNext

LEMMA LockHolds == LockInv => LockTypeOK /\ LockSettled
  BY LockAssumption DEF LockInv, LockTypeOK, LockFits, Asks, LockSettled, Reading
-----------------------------------------------------------------------------
(* A handler has drawn a code and has not yet set its expiry.              *)
Expiring == \E i \in DOMAIN frames : frames[i].step = "expire"

(* A handler will print the code in force, if nobody replaces it.          *)
Owes(f)  == f.step \in {"expire", "return"} \/ (f.step = "print" /\ f.code = code)
Owed     == \E i \in DOMAIN frames : Owes(frames[i])

Drawn == \A c \in DOMAIN drawn : drawn[c] <= clock

Printable == \A i \in DOMAIN frames : frames[i].step = "print" => frames[i].code \in DOMAIN drawn

(* A handler has its time, and the code in force was drawn since a handler *)
(* began that has yet to set the expiry.                                   *)
InTime(f) ==
  /\ f.of = "signal" => f.since <= clock /\ clock <= f.since + HandlerTime
  /\ f.step = "expire" => f.of = "signal" /\ f.since <= drawn[code]
  /\ f.step = "assign" => f.of = "signal"

Tried == \A t \in Threads : login[t].step = "compare" => login[t].at <= clock

(* The expiry is that of the code in force, but for the time of a handler, *)
(* and the one of an older code only while a handler is about to set it.   *)
CodeInv ==
  /\ CodeTypeOK /\ Drawn /\ Printable /\ Tried
  /\ \A i \in DOMAIN frames : InTime(frames[i])
  /\ expires <= drawn[code] + CodeTTL + HandlerTime
  /\ Expiring \/ expires >= drawn[code] + CodeTTL
  /\ Owed \/ code \in printed
  /\ CodeInTime

NobodyTries ==
  /\ \A i \in DOMAIN frames : frames[i].of = "banner"
  /\ \A t \in Threads : login[t].step = "idle"

Frames == [of : {"banner", "signal"}, step : {"assign", "expire", "return", "print"},
           code : Nat, since : Nat]

LEMMA CodeTyped ==
  ASSUME CodeInv
  PROVE  /\ clock \in Nat /\ expires \in Nat /\ code \in DOMAIN drawn /\ code \in Nat
         /\ drawn \in Seq(Nat) /\ drawn[code] \in Nat /\ frames \in Seq(Frames)
         /\ \A i \in DOMAIN frames : frames[i] \in Frames
<1>1. clock \in Nat /\ expires \in Nat /\ code \in DOMAIN drawn /\ drawn \in Seq(Nat)
  BY DEF CodeInv, CodeTypeOK
<1>2. frames \in Seq(Frames)
  BY DEF CodeInv, CodeTypeOK, Frames
<1>3. code \in Nat /\ drawn[code] \in Nat
  BY <1>1
<1>4. \A i \in DOMAIN frames : frames[i] \in Frames
  BY <1>2
<1> QED BY <1>1, <1>2, <1>3, <1>4

LEMMA CodeStarts == CodeInit => CodeInv /\ NobodyTries
<1> SUFFICES ASSUME CodeInit PROVE CodeInv /\ NobodyTries
  OBVIOUS
<1> DEFINE f == Frame("banner", "return")
<1>1. /\ clock \in Nat /\ drawn = <<clock>> /\ code = 1 /\ expires = clock + CodeTTL
      /\ frames = <<f>> /\ printed = {} /\ login = [t \in Threads |-> NotTrying]
  BY ClockAssumption DEF CodeInit
<1>2. f \in Frames /\ f.of = "banner" /\ f.step = "return"
  BY <1>1 DEF Frame, Frames
<1> HIDE DEF f
<1>3. /\ frames \in Seq(Frames) /\ DOMAIN frames = {1} /\ frames[1] = f
      /\ drawn \in Seq(Nat) /\ DOMAIN drawn = {1} /\ drawn[1] = clock
  BY <1>1, <1>2
<1>4. CodeTypeOK
  BY <1>1, <1>3, CodeAssumption DEF CodeTypeOK, Frames, NotTrying
<1>5. Owed /\ \A i \in DOMAIN frames : InTime(frames[i])
  BY <1>2, <1>3 DEF Owed, Owes, InTime
<1> QED
  BY <1>1, <1>2, <1>3, <1>4, <1>5, CodeAssumption
  DEF CodeInv, Printable, Drawn, Tried, Expiring, CodeInTime, NotTrying, NobodyTries

LEMMA CodeWaits ==
  ASSUME CodeInv, NobodyTries, UNCHANGED codeState, Later
  PROVE  CodeInv' /\ NobodyTries'
<1>1. \A i \in DOMAIN frames : frames[i].of = "banner" /\ frames[i].step \notin {"assign", "expire"}
  BY DEF CodeInv, InTime, NobodyTries
<1>2. \A i \in DOMAIN frames' : InTime(frames[i])'
  BY <1>1 DEF InTime, codeState
<1> QED
  BY <1>2 DEF CodeInv, CodeTypeOK, Printable, Drawn, Tried, Expiring, Owed, Owes, CodeInTime,
              codeState, NobodyTries, Later

(* The innermost frame goes on to its next step.                           *)
LEMMA GoMoves ==
  ASSUME CodeInv, frames # <<>>, NEW s \in {"assign", "expire", "return", "print"}, NEW c \in Nat,
         Go(s, c)
  PROVE  /\ frames' \in Seq(Frames) /\ DOMAIN frames' = DOMAIN frames
         /\ Len(frames) \in DOMAIN frames
         /\ frames'[Len(frames)].step = s /\ frames'[Len(frames)].code = c
         /\ frames'[Len(frames)].of = frames[Len(frames)].of
         /\ frames'[Len(frames)].since = frames[Len(frames)].since
         /\ \A i \in DOMAIN frames : i # Len(frames) => frames'[i] = frames[i]
<1>1. /\ frames \in Seq(Frames) /\ Len(frames) \in DOMAIN frames
      /\ frames[Len(frames)] \in Frames
  BY CodeTyped
<1> DEFINE f == [frames[Len(frames)] EXCEPT !.step = s, !.code = c]
<1>2. /\ f \in Frames /\ f.step = s /\ f.code = c /\ f.of = frames[Len(frames)].of
      /\ f.since = frames[Len(frames)].since
  BY <1>1 DEF Frames
<1>3. frames' = [frames EXCEPT ![Len(frames)] = f]
  BY DEF Go
<1> HIDE DEF f
<1> QED BY <1>1, <1>2, <1>3

(* A new code is drawn and comes into force.                               *)
LEMMA DrawsNew ==
  ASSUME CodeInv, UNCHANGED clock, drawn' = Append(drawn, clock), code' = Len(drawn')
  PROVE  /\ drawn' \in Seq(Nat) /\ DOMAIN drawn' = DOMAIN drawn \cup {code'}
         /\ code' \in DOMAIN drawn' /\ drawn'[code'] = clock /\ code' \in Nat
         /\ Drawn' /\ drawn[code] <= clock /\ drawn[code] \in Nat
  BY DEF CodeInv, CodeTypeOK, Drawn

LEMMA RestartKeeps ==
  ASSUME CodeInv, ServerRestarts
  PROVE  CodeInv'
<1> DEFINE f == Frame("banner", "return")
<1>1. /\ code' = Len(drawn') /\ drawn' = Append(drawn, clock) /\ clock' = clock
      /\ expires' = clock + CodeTTL /\ frames' = <<f>> /\ printed' = {}
      /\ login' = [t \in Threads |-> NotTrying] /\ clock \in Nat
  BY CodeTyped DEF ServerRestarts
<1>2. /\ drawn' \in Seq(Nat) /\ code' \in DOMAIN drawn' /\ drawn'[code'] = clock /\ Drawn'
  BY <1>1, DrawsNew
<1>3. f \in Frames /\ f.of = "banner" /\ f.step = "return"
  BY <1>1 DEF Frame, Frames
<1> HIDE DEF f
<1>4. frames' \in Seq(Frames) /\ DOMAIN frames' = {1} /\ frames'[1] = f
  BY <1>1, <1>3
<1>5. CodeTypeOK'
  BY <1>1, <1>2, <1>4, CodeAssumption DEF CodeTypeOK, Frames, NotTrying
<1>6. Owed' /\ \A i \in DOMAIN frames' : InTime(frames[i])'
  BY <1>3, <1>4 DEF Owed, Owes, InTime
<1> QED
  BY <1>1, <1>2, <1>3, <1>4, <1>5, <1>6, CodeAssumption
  DEF CodeInv, Printable, Tried, Expiring, CodeInTime, NotTrying

LEMMA SignalKeeps ==
  ASSUME CodeInv, Signal
  PROVE  CodeInv'
<1> DEFINE f == Frame("signal", "assign")
<1>1. frames' = Append(frames, f) /\ UNCHANGED <<clock, code, expires, login, drawn, printed>>
  BY DEF Signal
<1>2. /\ frames \in Seq(Frames) /\ f \in Frames
      /\ f.of = "signal" /\ f.step = "assign" /\ f.since = clock /\ clock \in Nat
  BY CodeTyped DEF Frame, Frames
<1> HIDE DEF f
<1>3. /\ frames' \in Seq(Frames) /\ DOMAIN frames' = DOMAIN frames \cup {Len(frames) + 1}
      /\ frames'[Len(frames) + 1] = f /\ \A i \in DOMAIN frames : frames'[i] = frames[i]
  BY <1>1, <1>2
<1>4. Expiring' <=> Expiring
  BY <1>2, <1>3 DEF Expiring
<1>5. Owed => Owed'
  BY <1>1, <1>3 DEF Owed, Owes
<1>6. \A i \in DOMAIN frames' : InTime(frames[i])'
  BY <1>1, <1>2, <1>3, CodeAssumption DEF CodeInv, InTime
<1> QED
  BY <1>1, <1>2, <1>3, <1>4, <1>5, <1>6
  DEF CodeInv, CodeTypeOK, Printable, Drawn, Tried, CodeInTime, Frames

LEMMA RegenerateKeeps ==
  ASSUME CodeInv, Regenerate
  PROVE  CodeInv'
<1> DEFINE n == Len(frames)
<1>1. CASE At("assign") /\ drawn' = Append(drawn, clock) /\ code' = Len(drawn') /\ Go("expire", 0)
             /\ UNCHANGED <<clock, expires, login, printed>>
  <2>1. /\ drawn' \in Seq(Nat) /\ code' \in DOMAIN drawn' /\ drawn'[code'] = clock /\ code' \in Nat
        /\ DOMAIN drawn' = DOMAIN drawn \cup {code'} /\ Drawn' /\ drawn[code] <= clock
        /\ drawn[code] \in Nat /\ clock \in Nat /\ expires \in Nat
    BY <1>1, DrawsNew, CodeTyped
  <2>2. /\ frames' \in Seq(Frames) /\ DOMAIN frames' = DOMAIN frames /\ n \in DOMAIN frames
        /\ frames'[n].step = "expire" /\ frames'[n].of = frames[n].of
        /\ frames'[n].since = frames[n].since /\ frames[n].step = "assign"
        /\ \A i \in DOMAIN frames : i # n => frames'[i] = frames[i]
    BY <1>1, GoMoves DEF At
  <2>3. Expiring' /\ Owed'
    BY <2>2 DEF Expiring, Owed, Owes
  <2>4. expires' <= drawn'[code'] + CodeTTL + HandlerTime
    BY <1>1, <2>1, CodeAssumption DEF CodeInv
  <2>5. CodeTypeOK'
    BY <1>1, <2>1, <2>2 DEF CodeInv, CodeTypeOK, Frames
  <2>6. CodeInTime' /\ Tried'
    BY <1>1, <2>1, CodeAssumption DEF CodeInTime, Tried, CodeInv, CodeTypeOK
  <2>7. Printable'
    BY <2>1, <2>2 DEF CodeInv, Printable
  <2>8. ASSUME NEW i \in DOMAIN frames' PROVE InTime(frames[i])'
    <3>1. InTime(frames[i]) /\ frames[i].since \in Nat /\ InTime(frames[n])
      BY <2>2, <2>8, CodeTyped DEF CodeInv, Frames
    <3>2. CASE i = n
      BY <1>1, <2>1, <2>2, <3>1, <3>2 DEF InTime
    <3>3. CASE i # n
      BY <1>1, <2>1, <2>2, <2>8, <3>1, <3>3 DEF InTime
    <3> QED BY <3>2, <3>3
  <2> QED
    BY <1>1, <2>1, <2>3, <2>4, <2>5, <2>6, <2>7, <2>8 DEF CodeInv
<1>2. CASE At("expire") /\ expires' = clock + CodeTTL /\ Go("return", 0)
             /\ UNCHANGED <<clock, code, login, drawn, printed>>
  <2>1. /\ frames' \in Seq(Frames) /\ DOMAIN frames' = DOMAIN frames /\ n \in DOMAIN frames
        /\ frames'[n].step = "return" /\ frames'[n].of = frames[n].of
        /\ frames'[n].since = frames[n].since /\ frames[n].step = "expire"
        /\ \A i \in DOMAIN frames : i # n => frames'[i] = frames[i]
    BY <1>2, GoMoves DEF At
  <2>2. /\ InTime(frames[n]) /\ frames[n].since \in Nat /\ drawn[code] \in Nat
        /\ drawn[code] <= clock /\ clock \in Nat /\ expires \in Nat
    BY <2>1, CodeTyped DEF CodeInv, Frames, Drawn
  <2>3. /\ expires' <= drawn'[code'] + CodeTTL + HandlerTime
        /\ expires' >= drawn'[code'] + CodeTTL
    BY <1>2, <2>1, <2>2, CodeAssumption DEF InTime
  <2>4. Owed'
    BY <2>1 DEF Owed, Owes
  <2>5. CodeTypeOK'
    <3>1. expires' \in Nat
      BY <1>2, <2>2, CodeAssumption
    <3> QED
      BY <1>2, <2>1, <3>1 DEF CodeInv, CodeTypeOK, Frames
  <2>6. Printable'
    BY <1>2, <2>1 DEF CodeInv, Printable
  <2>7. \A i \in DOMAIN frames' : InTime(frames[i])'
    BY <1>2, <2>1 DEF CodeInv, InTime
  <2> QED
    BY <1>2, <2>3, <2>4, <2>5, <2>6, <2>7 DEF CodeInv, Drawn, Tried, CodeInTime
<1> QED
  BY <1>1, <1>2 DEF Regenerate

LEMMA AnnounceKeeps ==
  ASSUME CodeInv, Announce
  PROVE  CodeInv'
<1> DEFINE n == Len(frames)
<1>1. CASE At("return") /\ Go("print", code)
             /\ UNCHANGED <<clock, code, expires, login, drawn, printed>>
  <2>1. /\ frames' \in Seq(Frames) /\ DOMAIN frames' = DOMAIN frames /\ n \in DOMAIN frames
        /\ frames'[n].step = "print" /\ frames'[n].of = frames[n].of /\ frames'[n].code = code
        /\ frames'[n].since = frames[n].since /\ frames[n].step = "return"
        /\ \A i \in DOMAIN frames : i # n => frames'[i] = frames[i]
    BY <1>1, GoMoves, CodeTyped DEF At
  <2>2. Expiring' <=> Expiring
    BY <2>1 DEF Expiring
  <2>3. Owed'
    BY <1>1, <2>1 DEF Owed, Owes
  <2>4. Printable'
    BY <1>1, <2>1 DEF CodeInv, CodeTypeOK, Printable
  <2>5. \A i \in DOMAIN frames' : InTime(frames[i])'
    BY <1>1, <2>1 DEF CodeInv, InTime
  <2> QED
    BY <1>1, <2>1, <2>2, <2>3, <2>4, <2>5
    DEF CodeInv, CodeTypeOK, Drawn, Tried, CodeInTime, Frames
<1>2. CASE /\ At("print") /\ printed' = printed \cup {frames[n].code}
           /\ frames' = SubSeq(frames, 1, n - 1)
           /\ UNCHANGED <<clock, code, expires, login, drawn>>
  <2>1. frames \in Seq(Frames) /\ frames # <<>> /\ n \in DOMAIN frames /\ n \in Nat
    BY <1>2, CodeTyped DEF At
  <2>2. /\ frames' \in Seq(Frames) /\ DOMAIN frames' = DOMAIN frames \ {n}
        /\ \A i \in DOMAIN frames' : frames'[i] = frames[i]
    BY <1>2, <2>1
  <2>3. Expiring' <=> Expiring
    BY <1>2, <2>1, <2>2 DEF Expiring, At
  <2>4. Owed' \/ code' \in printed'
    BY <1>2, <2>1, <2>2 DEF CodeInv, Owed, Owes, At
  <2>5. Printable' /\ printed' \subseteq DOMAIN drawn'
    BY <1>2, <2>1, <2>2 DEF CodeInv, CodeTypeOK, Printable, At
  <2>6. \A i \in DOMAIN frames' : InTime(frames[i])'
    BY <1>2, <2>1, <2>2 DEF CodeInv, InTime
  <2> QED
    BY <1>2, <2>2, <2>3, <2>4, <2>5, <2>6
    DEF CodeInv, CodeTypeOK, Drawn, Tried, CodeInTime, Frames
<1> QED
  BY <1>1, <1>2 DEF Announce

LEMMA LoginKeeps ==
  ASSUME CodeInv, NEW t \in Threads,
         (\E c \in DOMAIN drawn : TryCode(t, c)) \/ CompareCode(t)
  PROVE  CodeInv'
<1> DEFINE Try == [step : {"idle", "compare"}, tried : Nat, at : Nat]
<1>1. UNCHANGED <<clock, code, expires, frames, drawn, printed>> /\ login \in [Threads -> Try]
  BY DEF TryCode, CompareCode, CodeInv, CodeTypeOK
<1>2. PICK r \in Try :
        /\ login' = [login EXCEPT ![t] = r]
        /\ r.step = "compare" => r.at = clock /\ clock <= expires
  <2>1. CASE \E c \in DOMAIN drawn : TryCode(t, c)
    <3>1. PICK c \in DOMAIN drawn : TryCode(t, c)
      BY <2>1
    <3> DEFINE r == [step |-> "compare", tried |-> c, at |-> clock]
    <3>2. r \in Try /\ r.at = clock
      BY CodeTyped
    <3>3. login' = [login EXCEPT ![t] = r] /\ clock <= expires
      BY <3>1 DEF TryCode
    <3> QED BY <3>2, <3>3
  <2>2. CASE CompareCode(t)
    <3>1. NotTrying \in Try /\ NotTrying.step = "idle"
      BY DEF NotTrying
    <3> QED BY <2>2, <3>1 DEF CompareCode
  <2> QED BY <2>1, <2>2
<1>3. \A u \in Threads : login'[u] = IF u = t THEN r ELSE login[u]
  BY <1>1, <1>2
<1>4. CodeTypeOK'
  BY <1>1, <1>2 DEF CodeInv, CodeTypeOK
<1>5. Tried'
  BY <1>1, <1>2, <1>3, CodeTyped DEF CodeInv, Tried
<1>6. CodeInTime'
  <2>1. expires <= drawn[code] + CodeTTL + HandlerTime /\ expires \in Nat /\ clock \in Nat
        /\ drawn[code] \in Nat /\ CodeInTime
    BY CodeTyped DEF CodeInv
  <2>2. r.step = "compare" => r.at <= drawn[code] + CodeTTL + HandlerTime
    BY <1>2, <2>1, CodeAssumption
  <2> QED
    BY <1>1, <1>3, <2>1, <2>2 DEF CodeInTime
<1>7. \A i \in DOMAIN frames' : InTime(frames[i])'
  BY <1>1 DEF CodeInv, InTime
<1> QED
  BY <1>1, <1>4, <1>5, <1>6, <1>7 DEF CodeInv, Drawn, Printable, Expiring, Owed, Owes

LEMMA CodeSteps ==
  ASSUME CodeInv, CodeNext
  PROVE  CodeInv'
<1>1. CASE CodeTick
  <2>1. clock' = clock + 1 /\ UNCHANGED codeState /\ clock \in Nat
    BY <1>1, CodeTyped DEF CodeTick, codeState
  <2>2. \A i \in DOMAIN frames : frames[i] \in Frames /\ frames[i].since \in Nat
    BY CodeTyped DEF Frames
  <2>3. \A i \in DOMAIN frames' : InTime(frames[i])'
    BY <1>1, <2>1, <2>2, CodeAssumption DEF CodeTick, CodeInv, InTime, codeState
  <2>4. Drawn' /\ Tried'
    BY <2>1 DEF CodeInv, CodeTypeOK, Drawn, Tried, codeState
  <2> QED
    BY <2>1, <2>3, <2>4
    DEF CodeInv, CodeTypeOK, Printable, Expiring, Owed, Owes, CodeInTime, codeState
<1>2. CASE ServerRestarts
  BY <1>2, RestartKeeps
<1>3. CASE Signal
  BY <1>3, SignalKeeps
<1>4. CASE Regenerate
  BY <1>4, RegenerateKeeps
<1>5. CASE Announce
  BY <1>5, AnnounceKeeps
<1>6. ASSUME NEW t \in Threads, (\E c \in DOMAIN drawn : TryCode(t, c)) \/ CompareCode(t)
      PROVE  CodeInv'
  BY <1>6, LoginKeeps
<1> QED
  BY <1>1, <1>2, <1>3, <1>4, <1>5, <1>6 DEF CodeNext

LEMMA CodeHolds == CodeInv => CodeTypeOK /\ CodeInTime /\ AsPrinted
<1> SUFFICES ASSUME CodeInv PROVE CodeTypeOK /\ CodeInTime /\ AsPrinted
  OBVIOUS
<1>1. expires \in Nat /\ drawn[code] \in Nat
  BY CodeTyped
<1> QED
  BY <1>1, CodeAssumption DEF CodeInv, Expiring, Owed, AsPrinted

-----------------------------------------------------------------------------
(* An answer that is d old shows the windows, if they were left alone.     *)
WinFits(data, d) == arranged < d => data = windows

(* What a request knows at each step of its query.                         *)
Queries(r) ==
  /\ r.op \in {"status", "toggle", "close"} => r.app \in WebApps
  /\ r.step \in {"act", "launch"} => r.op \in {"toggle", "close"}
  /\ r.step \in {"script", "journal"} => r.began <= clock /\ clock <= r.began + QueryTime
  /\ r.step = "journal" => WinFits(r.data, r.began)
  /\ r.step = "use" => r.began <= clock
  /\ r.step = "use" /\ r.good => WinFits(r.data, r.began - WindowTTL - QueryTime + 1)

(* However old the answer that is stored last, it is no older than a query *)
(* takes.                                                                  *)
WinInv ==
  /\ WinTypeOK
  /\ winCache.ts <= clock
  /\ WinFits(winCache.data, winCache.ts - QueryTime)
  /\ \A t \in Threads : Queries(winReq[t])

NobodyWaits == \A t \in Threads : winReq[t].step = "idle"

Requested == [op : {"none", "status", "toggle", "close", "batch"},
              app : WebApps \cup {"none"},
              step : {"idle", "query", "script", "journal", "use", "act", "launch"},
              began : Nat, left : SUBSET WebApps, data : [WebApps -> Window], good : BOOLEAN]

LEMMA ClosedTyped == Closed \in [WebApps -> Window]
  BY DEF Closed, Window

LEMMA NoReqTyped == NoReq \in Requested /\ Queries(NoReq)
  BY ClosedTyped DEF NoReq, Requested, Queries

LEMMA WinStarts == WinInit => WinInv /\ NobodyWaits
<1>1. SUFFICES ASSUME WinInit PROVE WinInv /\ NobodyWaits
  OBVIOUS
<1>2. winReq = [t \in Threads |-> NoReq] /\ winCache = [data |-> Closed, ts |-> 0]
        /\ arranged = 0 /\ clock = Start /\ opening = {} /\ windows \in [WebApps -> Window]
  BY <1>1 DEF WinInit
<1>3. WinTypeOK
  BY <1>2, NoReqTyped, ClosedTyped, ClockAssumption DEF WinTypeOK, Requested
<1>4. NobodyWaits
  BY <1>2 DEF NobodyWaits, NoReq
<1> QED
  BY <1>2, <1>3, <1>4, NoReqTyped, ClockAssumption, WindowAssumption DEF WinInv, WinFits

LEMMA WinWaits ==
  ASSUME WinInv, NobodyWaits, UNCHANGED winState, Later
  PROVE  WinInv' /\ NobodyWaits'
<1>1. UNCHANGED <<windows, arranged, opening, winCache, winReq>>
  BY DEF winState
<1>2. WinTypeOK' /\ winCache'.ts <= clock'
  BY <1>1 DEF WinInv, WinTypeOK, Later
<1>3. \A t \in Threads : Queries(winReq[t])' /\ winReq'[t].step = "idle"
  BY <1>1 DEF WinInv, NobodyWaits, Queries
<1> QED
  BY <1>1, <1>2, <1>3 DEF WinInv, WinFits, NobodyWaits

(* The windows change, or stay as they are; answers under way keep their   *)
(* bounds.                                                                 *)
LEMMA WinMoves ==
  ASSUME WinInv, NEW w \in [WebApps -> Window], Arrange(w), UNCHANGED clock,
         opening' \subseteq WebApps, UNCHANGED winCache
  PROVE  /\ windows' \in [WebApps -> Window] /\ arranged' \in 0..clock
         /\ WinFits(winCache.data, winCache.ts - QueryTime)'
         /\ \A r \in Requested : Queries(r) => Queries(r)'
  BY WindowAssumption DEF WinInv, WinTypeOK, WinFits, Queries, Arrange, Requested
(* A request goes on without touching the cache.                           *)
LEMMA ReqMoves ==
  ASSUME WinInv, NEW t \in Threads, NEW r \in Requested, Queries(r),
         winReq' = [winReq EXCEPT ![t] = r], UNCHANGED <<clock, windows, arranged, winCache>>,
         opening' \subseteq WebApps
  PROVE  WinInv'
<1>1. winReq \in [Threads -> Requested]
  BY DEF WinInv, WinTypeOK, Requested
<1>2. \A u \in Threads : Queries(winReq[u])'
  BY <1>1 DEF WinInv, Queries, WinFits
<1> QED
  BY <1>1, <1>2 DEF WinInv, WinTypeOK, WinFits, Requested

LEMMA QueryKeeps ==
  ASSUME WinInv, NEW t \in Threads, Query(t)
  PROVE  WinInv'
<1> DEFINE hit == [winReq[t] EXCEPT !.step = "use", !.data = winCache.data, !.good = TRUE,
                                    !.began = clock]
           miss == [winReq[t] EXCEPT !.step = "script", !.began = clock]
<1>1. winReq[t] \in Requested /\ winCache \in [data : [WebApps -> Window], ts : Nat] /\ clock \in Nat
  BY DEF WinInv, WinTypeOK, Requested
<1>2. UNCHANGED <<clock, windows, arranged, opening, winCache>> /\ opening' \subseteq WebApps
  BY DEF Query, WinInv, WinTypeOK
<1>3. CASE clock - winCache.ts < WindowTTL
  <2>1. winReq' = [winReq EXCEPT ![t] = hit] /\ hit \in Requested
    BY <1>1, <1>3 DEF Query, Back, Requested
  <2>2. Queries(hit)
    BY <1>1, <1>3, WindowAssumption DEF WinInv, WinTypeOK, WinFits, Queries
  <2> QED
    BY <1>2, <2>1, <2>2, ReqMoves
<1>4. CASE ~(clock - winCache.ts < WindowTTL)
  <2>1. winReq' = [winReq EXCEPT ![t] = miss] /\ miss \in Requested
    BY <1>1, <1>4 DEF Query, Requested
  <2>2. Queries(miss)
    BY <1>1, WindowAssumption DEF WinInv, Queries
  <2> QED
    BY <1>2, <2>1, <2>2, ReqMoves
<1> QED
  BY <1>3, <1>4

(* A query that failed says nothing about the windows.                     *)
LEMMA FallsBack ==
  ASSUME WinInv, NEW t \in Threads, FallBack(t),
         UNCHANGED <<clock, windows, arranged, opening, winCache>>
  PROVE  WinInv'
<1> DEFINE r == [winReq[t] EXCEPT !.step = "use", !.data = winCache.data, !.good = FALSE,
                                  !.began = clock]
<1>1. winReq \in [Threads -> Requested] /\ winCache.data \in [WebApps -> Window] /\ clock \in Nat
  BY DEF WinInv, WinTypeOK, Requested
<1>2. winReq' = [winReq EXCEPT ![t] = r]
  BY <1>1 DEF FallBack, Back
<1>3. r \in Requested
  BY <1>1 DEF Requested
<1>4. Queries(r)
  BY <1>1 DEF Queries, WinInv
<1> QED
  BY <1>2, <1>3, <1>4, ReqMoves DEF WinInv, WinTypeOK

LEMMA ScriptKeeps ==
  ASSUME WinInv, NEW t \in Threads, Script(t)
  PROVE  WinInv'
<1>1. CASE winReq' = [winReq EXCEPT ![t].step = "journal", ![t].data = windows]
  <2> DEFINE r == [winReq[t] EXCEPT !.step = "journal", !.data = windows]
  <2>1. winReq' = [winReq EXCEPT ![t] = r] /\ r \in Requested
    BY <1>1 DEF WinInv, WinTypeOK, Requested
  <2>2. Queries(r)
    BY DEF Script, Queries, WinFits, WinInv, WinTypeOK
  <2> QED
    BY <2>1, <2>2, ReqMoves DEF Script, WinInv, WinTypeOK
<1>2. CASE FallBack(t)
  BY <1>2, FallsBack DEF Script
<1> QED
  BY <1>1, <1>2 DEF Script

LEMMA JournalKeeps ==
  ASSUME WinInv, NEW t \in Threads, Journal(t)
  PROVE  WinInv'
<1>1. CASE winCache' = [data |-> winReq[t].data, ts |-> clock] /\ Back(t, winReq[t].data, TRUE)
  <2> DEFINE r == [winReq[t] EXCEPT !.step = "use", !.data = winReq[t].data, !.good = TRUE,
                                    !.began = clock]
             data == winReq[t].data
             began == winReq[t].began
  <2> USE DEF Requested
  <2>0. winReq \in [Threads -> Requested] /\ clock \in Nat
    BY DEF WinInv, WinTypeOK
  <2>1. winReq' = [winReq EXCEPT ![t] = r] /\ r \in Requested
    BY <1>1, <2>0 DEF Back
  <2>2. UNCHANGED <<clock, windows, arranged, opening>> /\ clock \in Nat /\ arranged \in Nat
    BY DEF Journal, WinInv, WinTypeOK
  <2>3. WinFits(data, began) /\ began \in Nat /\ clock <= began + QueryTime
    BY DEF Journal, WinInv, Queries, WinTypeOK
  <2>4. WinFits(data, clock - QueryTime) /\ WinFits(data, clock - WindowTTL - QueryTime + 1)
    BY <2>2, <2>3, WindowAssumption, ClockAssumption DEF WinFits
  <2>5. Queries(r)
    BY <2>0, <2>2, <2>4 DEF WinInv, Queries
  <2>6. \A u \in Threads : Queries(winReq[u])'
    BY <2>1, <2>2, <2>5 DEF WinInv, WinTypeOK, Queries, WinFits
  <2>7. WinTypeOK'
    BY <1>1, <2>1, <2>2 DEF WinInv, WinTypeOK, Requested
  <2> QED
    BY <1>1, <2>2, <2>4, <2>6, <2>7 DEF WinInv, WinFits
<1>2. CASE UNCHANGED winCache /\ FallBack(t)
  BY <1>2, FallsBack DEF Journal
<1> QED
  BY <1>1, <1>2 DEF Journal

LEMMA HandlerKeeps ==
  ASSUME WinInv, NEW t \in Threads, UseAnswer(t) \/ LaunchWebApp(t)
  PROVE  WinInv'
<1>1. PICK r \in Requested : winReq' = [winReq EXCEPT ![t] = r] /\ Queries(r)
  <2>1. CASE UseAnswer(t)
    <3> DEFINE q    == winReq[t]
               runs == q.app \in WebApps /\ q.data[q.app] # "none"
               next == [NoReq EXCEPT !.op = q.op, !.app = q.app]
               r1   == [next EXCEPT !.step = IF runs THEN "act" ELSE "launch"]
               r2   == [next EXCEPT !.step = "query"]
               r3   == [next EXCEPT !.step = "query",
                                    !.left = q.left \ {CHOOSE a \in q.left : TRUE}]
    <3>1. q \in Requested /\ next \in Requested
      BY NoReqTyped DEF WinInv, WinTypeOK, Requested
    <3>2. \/ q.op = "toggle" /\ winReq' = [winReq EXCEPT ![t] = r1]
          \/ \E r \in {r2, r3, NoReq} : winReq' = [winReq EXCEPT ![t] = r]
      BY <2>1 DEF UseAnswer
    <3>3. r1 \in Requested /\ r2 \in Requested /\ r3 \in Requested
      BY <3>1 DEF Requested
    <3>4. (q.op = "toggle" => Queries(r1)) /\ Queries(r2) /\ Queries(r3)
      <4>1. Queries(q) /\ r1.op = q.op /\ r2.op = q.op /\ r3.op = q.op
              /\ r1.app = q.app /\ r2.app = q.app /\ r3.app = q.app
        BY <3>1 DEF WinInv, Requested
      <4>2. /\ r1.step \in {"act", "launch"} /\ r2.step = "query" /\ r3.step = "query"
        BY <3>1 DEF Requested
      <4> QED
        BY <4>1, <4>2 DEF Queries
    <3> QED
      BY <3>2, <3>3, <3>4, NoReqTyped
  <2>2. CASE LaunchWebApp(t)
    BY <2>2, NoReqTyped DEF LaunchWebApp
  <2> QED
    BY <2>1, <2>2
<1>2. UNCHANGED <<clock, windows, arranged, winCache>> /\ opening' \subseteq WebApps
  <2>1. CASE UseAnswer(t)
    BY <2>1 DEF UseAnswer, WinInv, WinTypeOK
  <2>2. CASE LaunchWebApp(t)
    <3>1. winReq[t].app \in WebApps
      BY <2>2 DEF LaunchWebApp, WinInv, Queries
    <3> QED
      BY <2>2, <3>1 DEF LaunchWebApp, WinInv, WinTypeOK
  <2> QED
    BY <2>1, <2>2
<1> QED
  BY <1>1, <1>2, ReqMoves
LEMMA ActKeeps ==
  ASSUME WinInv, NEW t \in Threads, Act(t)
  PROVE  WinInv'
<1> DEFINE a == winReq[t].app
<1>1. PICK s \in Acted(winReq[t].op, windows[a]) \cup {windows[a]} :
        Arrange([windows EXCEPT ![a] = s])
  BY DEF Act
<1>2. a \in WebApps /\ windows[a] \in Window /\ windows \in [WebApps -> Window]
  BY DEF Act, WinInv, WinTypeOK, Queries
<1>3. s \in Window
  BY <1>1, <1>2 DEF Acted, Window
<1>4. UNCHANGED <<clock, opening, winCache>> /\ winReq' = [winReq EXCEPT ![t] = NoReq]
  BY DEF Act
<1>5. /\ windows' \in [WebApps -> Window] /\ arranged' \in 0..clock
      /\ WinFits(winCache.data, winCache.ts - QueryTime)'
      /\ \A r \in Requested : Queries(r) => Queries(r)'
  BY <1>1, <1>2, <1>3, <1>4, WinMoves DEF WinInv, WinTypeOK
<1>6. winReq' \in [Threads -> Requested]
  BY <1>4, NoReqTyped DEF WinInv, WinTypeOK, Requested
<1>7. \A u \in Threads : Queries(winReq[u])'
  <2>1. ASSUME NEW u \in Threads
        PROVE  winReq'[u] \in Requested /\ Queries(winReq'[u])
    BY <1>4, NoReqTyped DEF WinInv, WinTypeOK, Requested
  <2> QED
    BY <1>5, <2>1
<1> QED
  BY <1>4, <1>5, <1>6, <1>7 DEF WinInv, WinTypeOK, Requested

(* A step that changes windows and no request.                             *)
LEMMA WindowsKeep ==
  ASSUME WinInv, NEW w \in [WebApps -> Window], Arrange(w), opening' \subseteq WebApps,
         UNCHANGED <<clock, winCache, winReq>>
  PROVE  WinInv'
<1>1. winReq \in [Threads -> Requested]
  BY DEF WinInv, WinTypeOK, Requested
<1>2. \A u \in Threads : Queries(winReq[u])'
  BY <1>1, WinMoves DEF WinInv
<1> QED
  BY <1>2, WinMoves DEF WinInv, WinTypeOK

LEMMA WinTicks ==
  ASSUME WinInv, WinTick
  PROVE  WinInv'
<1>1. UNCHANGED <<windows, arranged, opening, winCache, winReq>> /\ clock' = clock + 1
  BY DEF WinTick
<1>2. ASSUME NEW t \in Threads
      PROVE  Queries(winReq[t])'
  BY <1>1, WindowAssumption DEF WinTick, Querying, Queries, WinFits, WinInv, WinTypeOK
<1> QED
  BY <1>1, <1>2 DEF WinInv, WinTypeOK, WinFits

LEMMA WinSteps ==
  ASSUME WinInv, WinNext
  PROVE  WinInv'
<1>1. CASE WinTick
  BY <1>1, WinTicks
<1>2. ASSUME NEW a \in WebApps, NEW s \in Window, WindowMoves(a, s)
      PROVE  WinInv'
  <2>1. [windows EXCEPT ![a] = s] \in [WebApps -> Window]
    BY DEF WinInv, WinTypeOK
  <2> QED
    BY <1>2, <2>1, WindowsKeep DEF WindowMoves, WinInv, WinTypeOK
<1>3. ASSUME NEW a \in WebApps, WindowOpens(a)
      PROVE  WinInv'
  <2>1. [windows EXCEPT ![a] = "shown"] \in [WebApps -> Window]
    BY DEF WinInv, WinTypeOK, Window
  <2> QED
    BY <1>3, <2>1, WindowsKeep DEF WindowOpens, WinInv, WinTypeOK
<1>4. ASSUME NEW t \in Threads, NEW a \in WebApps \cup {"none"},
             NEW op \in {"status", "toggle", "close", "batch"},
             op = "batch" \/ a \in WebApps, Request(t, op, a)
      PROVE  WinInv'
  <2> DEFINE r == [NoReq EXCEPT !.op = op, !.app = a,
                     !.step = IF op = "close" THEN "act" ELSE "query",
                     !.left = IF op = "batch" THEN WebApps
                              ELSE IF op = "status" THEN {a} ELSE {}]
  <2>1. winReq' = [winReq EXCEPT ![t] = r]
    BY <1>4 DEF Request
  <2>2. r \in Requested
    BY <1>4, NoReqTyped DEF Requested
  <2>3. Queries(r)
    BY <1>4, NoReqTyped DEF Queries, Requested
  <2> QED
    BY <1>4, <2>1, <2>2, <2>3, ReqMoves DEF Request, WinInv, WinTypeOK
<1>5. ASSUME NEW t \in Threads, Query(t) \/ Script(t) \/ Journal(t)
      PROVE  WinInv'
  BY <1>5, QueryKeeps, ScriptKeeps, JournalKeeps
<1>6. ASSUME NEW t \in Threads, UseAnswer(t) \/ Act(t) \/ LaunchWebApp(t)
      PROVE  WinInv'
  BY <1>6, HandlerKeeps, ActKeeps
<1> QED
  BY <1>1, <1>2, <1>3, <1>4, <1>5, <1>6 DEF WinNext

LEMMA WinHolds == WinInv => WinTypeOK /\ WindowsSettled
  BY WindowAssumption DEF WinInv, WinTypeOK, WinFits, Queries, WindowsSettled
-----------------------------------------------------------------------------
Pressed == [op : {"none", "dnd", "power"},
            step : {"idle", "read", "key", "look", "call", "set", "reply"},
            want : {"none", On, Off} \cup ToSet(POWER_PROFILES), clean : BOOLEAN]

Switching == {"key", "look", "call"}

(* What a request has brought about at each of its steps, if it is clean.  *)
Does(r) ==
  /\ r.step \in Switching => r.op = "dnd" /\ r.want \in {On, Off}
  /\ r.step = "set" => r.op = "power" /\ r.want \in ToSet(POWER_PROFILES)
  /\ r.step = "reply" => r.op \in {"dnd", "power"}
  /\ r.clean /\ r.op = "dnd" /\ r.step \in {"look", "call", "reply"} => (until <=> r.want = On)
  /\ r.clean /\ r.step = "call" => (cookie <=> r.want # On)
  /\ r.clean /\ r.op = "dnd" /\ r.step = "reply" => (cookie <=> r.want = On)
  /\ r.clean /\ r.op = "power" /\ r.step = "reply" => profile = r.want

(* A clean request has no other one beside it that is still at work.       *)
Alone(t) == \A u \in Threads \ {t} : press[u].step \in {"idle", "reply"}

SwitchInv ==
  /\ SwitchTypeOK
  /\ \A t \in Threads : Does(press[t])
  /\ \A t \in Threads : press[t].clean /\ press[t].step # "idle" => Alone(t)

LEMMA NotPressedDoes == NotPressed \in Pressed /\ Does(NotPressed) /\ ~NotPressed.clean
  BY DEF NotPressed, Pressed, Does, Switching

LEMMA SwitchStarts == SwitchInit => SwitchInv
  BY NotPressedDoes DEF SwitchInit, SwitchInv, SwitchTypeOK, Pressed

LEMMA SwitchWaits == ASSUME SwitchInv, UNCHANGED switchVars PROVE SwitchInv'
  BY DEF SwitchInv, SwitchTypeOK, Does, Alone, switchVars

(* Whoever goes on alone, or spoils its own cleanliness, keeps the         *)
(* invariant: the others that are at work are not clean.                   *)
LEMMA OneGoesOn ==
  ASSUME SwitchInv, NEW t \in Threads, NEW r \in Pressed,
         press' = [press EXCEPT ![t] = r], press[t].step # "idle",
         r.clean => press[t].clean,
         Does(r)', until' \in BOOLEAN, cookie' \in BOOLEAN, profile' \in ToSet(POWER_PROFILES),
         (r.step \in {"idle", "reply"} /\ press[t].step = "reply") \/ press[t].step # "reply",
         press[t].step = "reply" => UNCHANGED <<until, cookie, profile>>
  PROVE  SwitchInv'
<1>1. press \in [Threads -> Pressed]
  BY DEF SwitchInv, SwitchTypeOK, Pressed
<1>2. SwitchTypeOK'
  BY <1>1 DEF SwitchTypeOK, Pressed
<1>3. ASSUME NEW u \in Threads
      PROVE  Does(press[u])' /\ (press'[u].clean /\ press'[u].step # "idle" => Alone(u)')
  <2>1. CASE u = t
    <3>1. press'[u] = r
      BY <1>1, <2>1
    <3>2. r.clean => Alone(t)
      BY <2>1 DEF SwitchInv
    <3> QED
      BY <1>1, <2>1, <3>1, <3>2 DEF Alone
  <2>2. CASE u # t
    <3>1. press'[u] = press[u]
      BY <2>2
    <3>2. CASE press[t].step = "reply"
      <4>1. UNCHANGED <<until, cookie, profile>> /\ r.step \in {"idle", "reply"}
        BY <3>2
      <4>2. press'[t] = r
        BY <1>1
      <4> QED
        BY <1>1, <3>1, <4>1, <4>2 DEF SwitchInv, Does, Alone
    <3>3. CASE press[t].step # "reply"
      <4>1. press[u].clean => press[u].step = "idle"
        BY <2>2, <3>3 DEF SwitchInv, Alone
      <4>2. Does(press[u])'
        BY <3>1, <4>1 DEF SwitchInv, Does, Switching
      <4> QED
        BY <3>1, <4>1, <4>2
    <3> QED
      BY <3>2, <3>3
  <2> QED
    BY <2>1, <2>2
<1> QED
  BY <1>2, <1>3 DEF SwitchInv
LEMMA PressedTyped == SwitchInv => press \in [Threads -> Pressed]
  BY DEF SwitchInv, SwitchTypeOK, Pressed

LEMMA FollowingTyped == \A p : Following(p) \in ToSet(POWER_PROFILES)
<1> SUFFICES ASSUME NEW p
             PROVE  Following(p) \in ToSet(POWER_PROFILES)
  OBVIOUS
<1> DEFINE n == Len(POWER_PROFILES)
           i == IF p \in ToSet(POWER_PROFILES)
                  THEN CHOOSE j \in DOMAIN POWER_PROFILES : POWER_PROFILES[j] = p
                  ELSE 2
<1>1. /\ POWER_PROFILES \in Seq(STRING) /\ n \in Nat \ {0}
      /\ DOMAIN POWER_PROFILES = 1..n
      /\ ToSet(POWER_PROFILES) = {POWER_PROFILES[j] : j \in 1..n}
  BY ProfilesAssumption DEF ToSet
<1>2. i \in Nat
  BY <1>1
<1> HIDE DEF i
<1>3. (i % n) + 1 \in 1..n
  BY <1>1, <1>2
<1>4. Following(p) = POWER_PROFILES[(i % n) + 1]
  BY DEF Following, i
<1> QED
  BY <1>1, <1>3, <1>4

LEMMA DndKeeps ==
  ASSUME SwitchInv, NEW t \in Threads,
         ReadSwitch(t) \/ WriteKey(t) \/ LookAtCookie(t) \/ CallDaemon(t)
  PROVE  SwitchInv'
<1>0. press \in [Threads -> Pressed] /\ Does(press[t])
  BY PressedTyped DEF SwitchInv
<1>1. PICK r \in Pressed :
        /\ press' = [press EXCEPT ![t] = r] /\ (r.clean => press[t].clean)
        /\ Does(r)' /\ press[t].step \notin {"idle", "reply"}
  <2>1. CASE ReadSwitch(t)
    <3> DEFINE r == [press[t] EXCEPT !.step = "key", !.want = IF until THEN Off ELSE On]
    <3>1. press' = [press EXCEPT ![t] = r]
      BY <1>0, <2>1 DEF ReadSwitch
    <3>2. r \in Pressed
      BY <1>0 DEF Pressed
    <3>3. r.step = "key" /\ r.op = "dnd" /\ r.want \in {On, Off} /\ r.clean = press[t].clean
      BY <1>0, <2>1 DEF ReadSwitch, Pressed
    <3> QED
      BY <2>1, <3>1, <3>2, <3>3 DEF ReadSwitch, Does, Switching
  <2>2. CASE WriteKey(t)
    <3>1. /\ press[t].op = "dnd" /\ press[t].want \in {On, Off} /\ press[t].step = "key"
      BY <1>0, <2>2 DEF WriteKey, Does, Switching
    <3>2. CASE until' = (press[t].want = On) /\ Done(t, "look")
      <4> DEFINE r == [press[t] EXCEPT !.step = "look"]
      <4>1. press' = [press EXCEPT ![t] = r] /\ r \in Pressed
        BY <1>0, <3>2 DEF Done, Pressed
      <4>2. r.step = "look" /\ r.op = press[t].op /\ r.want = press[t].want
              /\ r.clean = press[t].clean
        BY <1>0 DEF Pressed
      <4> QED
        BY <3>1, <3>2, <4>1, <4>2 DEF Does, Switching
    <3>3. CASE UNCHANGED until /\ Spoilt(t, "look")
      <4> DEFINE r == [press[t] EXCEPT !.step = "look", !.clean = FALSE]
      <4>1. press' = [press EXCEPT ![t] = r] /\ r \in Pressed
        BY <1>0, <3>3 DEF Spoilt, Pressed
      <4>2. r.step = "look" /\ r.op = press[t].op /\ r.want = press[t].want /\ ~r.clean
        BY <1>0 DEF Pressed
      <4> QED
        BY <3>1, <4>1, <4>2 DEF Does, Switching
    <3> QED
      BY <2>2, <3>2, <3>3 DEF WriteKey
  <2>3. CASE LookAtCookie(t)
    <3> DEFINE r == [press[t] EXCEPT !.step =
                       IF cookie = (press[t].want = On) THEN "reply" ELSE "call"]
    <3>1. press' = [press EXCEPT ![t] = r] /\ r \in Pressed
      BY <1>0, <2>3 DEF LookAtCookie, Pressed
    <3>2. /\ press[t].op = "dnd" /\ press[t].want \in {On, Off} /\ press[t].step = "look"
          /\ UNCHANGED <<until, cookie, profile>>
          /\ press[t].clean => (until <=> press[t].want = On)
      BY <1>0, <2>3 DEF LookAtCookie, Does, Switching
    <3>3. r.op = "dnd" /\ r.want = press[t].want /\ r.clean = press[t].clean
      BY <1>0, <3>2 DEF Pressed
    <3>4. \/ r.step = "reply" /\ (cookie <=> press[t].want = On)
          \/ r.step = "call" /\ (cookie <=> press[t].want # On)
      BY <1>0 DEF Pressed, SwitchInv, SwitchTypeOK
    <3> QED
      BY <3>1, <3>2, <3>3, <3>4 DEF Does, Switching
  <2>4. CASE CallDaemon(t)
    <3>1. /\ press[t].op = "dnd" /\ press[t].want \in {On, Off} /\ press[t].step = "call"
          /\ UNCHANGED <<until, profile>>
          /\ press[t].clean => (until <=> press[t].want = On)
      BY <1>0, <2>4 DEF CallDaemon, Does, Switching
    <3>2. CASE cookie' = (press[t].want = On) /\ Done(t, "reply")
      <4> DEFINE r == [press[t] EXCEPT !.step = "reply"]
      <4>1. press' = [press EXCEPT ![t] = r] /\ r \in Pressed
        BY <1>0, <3>2 DEF Done, Pressed
      <4>2. r.step = "reply" /\ r.op = press[t].op /\ r.want = press[t].want
              /\ r.clean = press[t].clean
        BY <1>0 DEF Pressed
      <4> QED
        BY <3>1, <3>2, <4>1, <4>2 DEF Does, Switching
    <3>3. CASE Spoilt(t, "reply")
      <4> DEFINE r == [press[t] EXCEPT !.step = "reply", !.clean = FALSE]
      <4>1. press' = [press EXCEPT ![t] = r] /\ r \in Pressed
        BY <1>0, <3>3 DEF Spoilt, Pressed
      <4>2. r.step = "reply" /\ r.op = press[t].op /\ ~r.clean
        BY <1>0 DEF Pressed
      <4> QED
        BY <3>1, <4>1, <4>2 DEF Does, Switching
    <3> QED
      BY <2>4, <3>2, <3>3 DEF CallDaemon
  <2> QED
    BY <2>1, <2>2, <2>3, <2>4
<1>2. until' \in BOOLEAN /\ cookie' \in BOOLEAN /\ profile' \in ToSet(POWER_PROFILES)
  <2>1. CASE ReadSwitch(t)
    BY <2>1 DEF ReadSwitch, SwitchInv, SwitchTypeOK
  <2>2. CASE WriteKey(t)
    BY <2>2 DEF WriteKey, SwitchInv, SwitchTypeOK
  <2>3. CASE LookAtCookie(t)
    BY <2>3 DEF LookAtCookie, SwitchInv, SwitchTypeOK
  <2>4. CASE CallDaemon(t)
    BY <2>4 DEF CallDaemon, SwitchInv, SwitchTypeOK
  <2> QED
    BY <2>1, <2>2, <2>3, <2>4
<1> QED
  BY <1>1, <1>2, OneGoesOn

LEMMA PowerKeeps ==
  ASSUME SwitchInv, NEW t \in Threads, ReadProfile(t) \/ SetProfile(t)
  PROVE  SwitchInv'
<1>0. press \in [Threads -> Pressed] /\ Does(press[t])
  BY PressedTyped DEF SwitchInv
<1>1. PICK r \in Pressed :
        /\ press' = [press EXCEPT ![t] = r] /\ (r.clean => press[t].clean)
        /\ Does(r)' /\ press[t].step \notin {"idle", "reply"}
  <2>1. CASE ReadProfile(t)
    <3>1. PICK p \in {profile, "balanced"} :
            press' = [press EXCEPT ![t].step = "set", ![t].want = Following(p),
                        ![t].clean = @ /\ p = profile]
      BY <2>1 DEF ReadProfile
    <3> DEFINE c == press[t].clean /\ p = profile
               r == [press[t] EXCEPT !.step = "set", !.want = Following(p), !.clean = c]
    <3>2. press' = [press EXCEPT ![t] = r]
      BY <1>0, <3>1
    <3>3. c \in BOOLEAN /\ Following(p) \in ToSet(POWER_PROFILES)
      BY FollowingTyped
    <3>4. r \in Pressed
      BY <1>0, <3>3 DEF Pressed
    <3>5. r.step = "set" /\ r.op = "power" /\ r.want \in ToSet(POWER_PROFILES)
            /\ (r.clean => press[t].clean)
      BY <1>0, <2>1, <3>3 DEF ReadProfile, Pressed
    <3> QED
      BY <2>1, <3>2, <3>4, <3>5 DEF ReadProfile, Does, Switching
  <2>2. CASE SetProfile(t)
    <3>1. press[t].op = "power" /\ press[t].step = "set"
      BY <1>0, <2>2 DEF SetProfile, Does
    <3>2. CASE profile' = press[t].want /\ Done(t, "reply")
      <4> DEFINE r == [press[t] EXCEPT !.step = "reply"]
      <4>1. press' = [press EXCEPT ![t] = r] /\ r \in Pressed
        BY <1>0, <3>2 DEF Done, Pressed
      <4>2. r.step = "reply" /\ r.op = press[t].op /\ r.want = press[t].want
              /\ r.clean = press[t].clean
        BY <1>0 DEF Pressed
      <4> QED
        BY <3>1, <3>2, <4>1, <4>2 DEF Does, Switching
    <3>3. CASE press' = [press EXCEPT ![t] = NotPressed]
      BY <3>1, <3>3, NotPressedDoes DEF NotPressed, Does, Switching
    <3> QED
      BY <2>2, <3>2, <3>3 DEF SetProfile
  <2> QED
    BY <2>1, <2>2
<1>2. until' \in BOOLEAN /\ cookie' \in BOOLEAN /\ profile' \in ToSet(POWER_PROFILES)
  <2>1. CASE ReadProfile(t)
    BY <2>1 DEF ReadProfile, SwitchInv, SwitchTypeOK
  <2>2. CASE SetProfile(t)
    BY <1>0, <2>2 DEF SetProfile, Does, SwitchInv, SwitchTypeOK
  <2> QED
    BY <2>1, <2>2
<1> QED
  BY <1>1, <1>2, OneGoesOn

LEMMA ReplyKeeps ==
  ASSUME SwitchInv, NEW t \in Threads, ReplySwitch(t)
  PROVE  SwitchInv'
<1>1. /\ press[t].step = "reply" /\ press' = [press EXCEPT ![t] = NotPressed]
      /\ UNCHANGED <<until, cookie, profile>>
  BY DEF ReplySwitch
<1>2. Does(NotPressed)' /\ NotPressed.step = "idle"
  BY DEF Does, NotPressed, Switching
<1> QED
  BY <1>1, <1>2, NotPressedDoes, OneGoesOn DEF SwitchInv, SwitchTypeOK

LEMMA PressKeeps ==
  ASSUME SwitchInv, NEW t \in Threads, NEW op \in {"dnd", "power"}, Press(t, op)
  PROVE  SwitchInv'
<1> DEFINE alone == \A v \in Threads \ {t} : press[v].step \in {"idle", "reply"}
           r     == [op |-> op, step |-> "read", want |-> "none", clean |-> alone]
           Rest(u) == [press[u] EXCEPT !.clean = FALSE]
<1>1. press \in [Threads -> Pressed]
  BY PressedTyped
<1>2. /\ press' = [u \in Threads |-> IF u = t THEN r ELSE Rest(u)]
      /\ UNCHANGED <<until, cookie, profile>>
  BY DEF Press
<1>3. r \in Pressed /\ \A u \in Threads : Rest(u) \in Pressed
  BY <1>1 DEF Pressed
<1>4. ASSUME NEW u \in Threads, u # t
      PROVE  /\ press'[u].step = press[u].step /\ press'[u].op = press[u].op
             /\ press'[u].want = press[u].want /\ ~press'[u].clean
  BY <1>1, <1>2, <1>4 DEF Pressed
<1>5. press'[t] = r
  BY <1>2
<1>6. \A u \in Threads : Does(press[u])'
  BY <1>2, <1>4, <1>5 DEF SwitchInv, Does, Switching
<1>7. r.clean => Alone(t)'
  BY <1>4 DEF Alone
<1>8. \A u \in Threads : press'[u].clean /\ press'[u].step # "idle" => Alone(u)'
  BY <1>4, <1>5, <1>7
<1> QED
  BY <1>2, <1>3, <1>6, <1>8 DEF SwitchInv, SwitchTypeOK, Pressed

LEMMA DisturbedKeeps ==
  ASSUME SwitchInv, DesktopSwitches \/ SwitchesForgotten
  PROVE  SwitchInv'
<1>1. CASE DesktopSwitches
  <2>1. press' = [t \in Threads |-> [press[t] EXCEPT !.clean = FALSE]]
          /\ press \in [Threads -> Pressed]
    BY <1>1, PressedTyped DEF DesktopSwitches
  <2>2. \A u \in Threads : ~press'[u].clean /\ press'[u].step = press[u].step
           /\ press'[u].op = press[u].op /\ press'[u].want = press[u].want
    BY <2>1 DEF Pressed
  <2>3. SwitchTypeOK'
    <3>1. press' \in [Threads -> Pressed]
      BY <2>1 DEF Pressed
    <3>2. until' \in BOOLEAN /\ cookie' \in BOOLEAN /\ profile' \in ToSet(POWER_PROFILES)
      BY <1>1 DEF DesktopSwitches, SwitchInv, SwitchTypeOK
    <3> QED
      BY <3>1, <3>2 DEF SwitchTypeOK, Pressed
  <2> QED
    BY <2>2, <2>3 DEF SwitchInv, Does, Switching
<1>2. CASE SwitchesForgotten
  BY <1>2, NotPressedDoes
  DEF SwitchesForgotten, SwitchInv, SwitchTypeOK, Pressed, NotPressed, Does, Switching
<1> QED
  BY <1>1, <1>2

LEMMA SwitchSteps ==
  ASSUME SwitchInv, SwitchNext
  PROVE  SwitchInv'
  BY DndKeeps, PowerKeeps, ReplyKeeps, PressKeeps, DisturbedKeeps DEF SwitchNext

LEMMA SwitchHolds == SwitchInv => SwitchTypeOK /\ AnswersTrue
<1> SUFFICES ASSUME SwitchInv, NEW t \in Threads, press[t].step = "reply", press[t].clean
             PROVE  IF press[t].op = "power" THEN profile = press[t].want
                    ELSE until = cookie /\ until = (press[t].want = On)
  BY DEF SwitchInv, AnswersTrue
<1>1. Does(press[t]) /\ until \in BOOLEAN /\ cookie \in BOOLEAN
  BY DEF SwitchInv, SwitchTypeOK
<1>2. CASE press[t].op = "power"
  BY <1>1, <1>2 DEF Does
<1>3. CASE press[t].op = "dnd"
  <2>1. (until <=> press[t].want = On) /\ (cookie <=> press[t].want = On)
    BY <1>1, <1>3 DEF Does
  <2> QED
    BY <1>1, <1>3, <2>1
<1> QED
  BY <1>1, <1>2, <1>3 DEF Does
-----------------------------------------------------------------------------
(* How far the holder of the lock has come with replacing the entries.     *)
Replaced(r) ==
  /\ r.step = "default" => themesState.themes = r.new.themes
  /\ r.step = "css" => themesState.themes = r.new.themes /\ themesState.default = r.new.default

Holds(t) == reload[t].step \in {"themes", "default", "css"}

(* The entries are those of one file unless the lock is held, and then its *)
(* holder is about to make them so.                                        *)
ThemeInv ==
  /\ ThemeTypeOK
  /\ holders = {t \in Threads : Holds(t)}
  /\ \A t, u \in Threads : Holds(t) /\ Holds(u) => t = u
  /\ \A t \in Threads : Replaced(reload[t])
  /\ OneFile

Loading == [step : {"idle", "open", "copy", "exists", "read", "acquire",
                    "themes", "default", "css"},
            new  : States]

LEMMA NothingIsState == Nothing \in States
  BY DEF States

(* An entry may be of one state and the next entry of another.             *)
Mixed == [themes  : {s.themes : s \in States},
          default : {s.default : s \in States},
          css     : {s.css : s \in States}]

LEMMA StatesTyped == \A s \in States : s \in Mixed
<1> SUFFICES ASSUME NEW s \in States PROVE s \in Mixed
  OBVIOUS
<1>1. s = [themes |-> s.themes, default |-> s.default, css |-> s.css]
  BY DEF States, Built, Nothing
<1> QED
  BY <1>1 DEF Mixed

LEMMA ThemeStarts == ThemeInit => ThemeInv
<1> SUFFICES ASSUME ThemeInit PROVE ThemeInv
  OBVIOUS
<1>1. themesFile \in ThemeFiles
  BY ThemesAssumption DEF ThemeInit
<1>2. themesState \in States
  BY <1>1 DEF ThemeInit, States
<1>3. holders = {} /\ reload = [t \in Threads |-> NotLoading]
  BY DEF ThemeInit
<1>4. NotLoading \in Loading /\ NotLoading.step = "idle"
  BY NothingIsState DEF NotLoading, Loading
<1>5. ThemeTypeOK
  BY <1>1, <1>2, <1>3, <1>4, StatesTyped DEF ThemeTypeOK, Loading, Mixed
<1> QED
  BY <1>2, <1>3, <1>4, <1>5 DEF ThemeInv, Holds, Replaced, OneFile
LEMMA ThemeWaits == ASSUME ThemeInv, UNCHANGED themeVars PROVE ThemeInv'
  BY DEF ThemeInv, ThemeTypeOK, Replaced, Holds, OneFile, States, themeVars

(* A call of load() that does not hold the lock goes on.                   *)
LEMMA LoaderKeeps ==
  ASSUME ThemeInv, NEW t \in Threads, NEW r \in Loading, reload' = [reload EXCEPT ![t] = r],
         ~Holds(t), ~(r.step \in {"themes", "default", "css"}),
         themesFile' \in ThemeFiles, UNCHANGED <<themesState, holders>>
  PROVE  ThemeInv'
<1>1. reload \in [Threads -> Loading]
  BY DEF ThemeInv, ThemeTypeOK, Loading
<1>2. \A u \in Threads : (Holds(u)' <=> Holds(u)) /\ (u # t => reload'[u] = reload[u])
  BY <1>1 DEF Holds
<1>3. \A u \in Threads : Replaced(reload[u])'
  <2>1. reload'[t] = r
    BY <1>1
  <2> QED
    BY <1>2, <2>1 DEF ThemeInv, Replaced
<1>4. ThemeTypeOK'
  BY <1>1 DEF ThemeInv, ThemeTypeOK, Loading, States
<1> QED
  BY <1>2, <1>3, <1>4 DEF ThemeInv, OneFile, States

LEMMA BuiltIsState == \A f \in ThemeFiles : Built(f) \in States
  BY DEF States

LEMMA ReadKeeps ==
  ASSUME ThemeInv, NEW t \in Threads, CopyExample(t) \/ ReadThemes(t)
  PROVE  ThemeInv'
<1>1. reload \in [Threads -> Loading] /\ themesFile \in ThemeFiles
  BY DEF ThemeInv, ThemeTypeOK, Loading
<1>2. ~Holds(t) /\ UNCHANGED <<themesState, holders>> /\ themesFile' \in ThemeFiles
  BY <1>1, ThemesAssumption DEF CopyExample, ReadThemes, Holds
<1>3. PICK r \in Loading : /\ reload' = [reload EXCEPT ![t] = r]
                           /\ ~(r.step \in {"themes", "default", "css"})
  <2>1. /\ NotLoading \in Loading /\ NotLoading.step = "idle" /\ reload[t].new \in States
        /\ Built(themesFile) \in States /\ Nothing \in States
    BY <1>1, NothingIsState, BuiltIsState DEF NotLoading, Loading
  <2>2. ASSUME NEW s \in {"open", "copy", "exists", "read"}, reload' = [reload EXCEPT ![t].step = s]
        PROVE  \E r \in Loading : /\ reload' = [reload EXCEPT ![t] = r]
                                  /\ ~(r.step \in {"themes", "default", "css"})
    <3> DEFINE r == [reload[t] EXCEPT !.step = s]
    <3>1. reload' = [reload EXCEPT ![t] = r]
      BY <2>2
    <3>2. r \in Loading /\ ~(r.step \in {"themes", "default", "css"})
      BY <1>1 DEF Loading
    <3> QED BY <3>1, <3>2
  <2>3. ASSUME NEW s \in States, reload' = [reload EXCEPT ![t] = [step |-> "acquire", new |-> s]]
        PROVE  \E r \in Loading : /\ reload' = [reload EXCEPT ![t] = r]
                                  /\ ~(r.step \in {"themes", "default", "css"})
    <3>1. [step |-> "acquire", new |-> s] \in Loading
      BY DEF Loading
    <3> QED BY <2>3, <3>1
  <2>4. CASE CopyExample(t)
    BY <2>2, <2>4 DEF CopyExample
  <2>5. CASE ReadThemes(t)
    BY <2>1, <2>2, <2>3, <2>5 DEF ReadThemes
  <2> QED
    BY <2>4, <2>5
<1> QED
  BY <1>2, <1>3, LoaderKeeps

LEMMA AcquireKeeps ==
  ASSUME ThemeInv, NEW t \in Threads, Acquire(t)
  PROVE  ThemeInv'
<1> DEFINE r == [reload[t] EXCEPT !.step = "themes"]
<1>1. reload \in [Threads -> Loading] /\ \A u \in Threads : ~Holds(u)
  BY DEF ThemeInv, ThemeTypeOK, Loading, Acquire
<1>2. /\ reload' = [reload EXCEPT ![t] = r] /\ r \in Loading /\ r.step = "themes"
      /\ holders' = {t} /\ UNCHANGED <<themesFile, themesState>>
  BY <1>1 DEF Acquire, Loading
<1>3. \A u \in Threads : Holds(u)' <=> u = t
  BY <1>1, <1>2 DEF Holds
<1>4. \A u \in Threads : Replaced(reload[u])'
  <2>1. \A u \in Threads : reload'[u] = IF u = t THEN r ELSE reload[u]
    BY <1>1, <1>2
  <2> QED
    BY <1>2, <2>1 DEF ThemeInv, Replaced
<1>5. ThemeTypeOK'
  BY <1>1, <1>2 DEF ThemeInv, ThemeTypeOK, Loading, States
<1> QED
  BY <1>2, <1>3, <1>4, <1>5 DEF ThemeInv, OneFile

LEMMA ReplaceKeeps ==
  ASSUME ThemeInv, NEW t \in Threads, Replace(t)
  PROVE  ThemeInv'
<1> DEFINE new == reload[t].new
<1>1. /\ reload \in [Threads -> Loading] /\ new \in States /\ new \in Mixed
      /\ themesState \in Mixed /\ themesFile' = themesFile
  BY StatesTyped DEF ThemeInv, ThemeTypeOK, Loading, Mixed, Replace
<1>2. /\ Holds(t) /\ holders = {t} /\ \A u \in Threads : u # t => ~Holds(u)
  BY DEF Replace, Holds, ThemeInv
<1>3. ASSUME NEW r \in Loading, reload' = [reload EXCEPT ![t] = r], themesState' \in Mixed,
             r.step \in {"default", "css"} => themesState'.themes = r.new.themes,
             r.step = "css" => themesState'.default = r.new.default,
             r.step \in {"default", "css"} \/ themesState' \in States,
             r.step \in {"default", "css"} => holders' = {t},
             r.step \notin {"default", "css"} => r.step = "idle" /\ holders' = {}
      PROVE  ThemeInv'
  <2>1. \A u \in Threads : reload'[u] = IF u = t THEN r ELSE reload[u]
    BY <1>1, <1>3
  <2>2. \A u \in Threads : Holds(u)' <=> u = t /\ r.step \in {"default", "css"}
    BY <1>2, <1>3, <2>1 DEF Holds
  <2>3. \A u \in Threads : Replaced(reload[u])'
    BY <1>2, <1>3, <2>1 DEF Replaced, Holds
  <2>4. ThemeTypeOK'
    BY <1>1, <1>3 DEF ThemeInv, ThemeTypeOK, Loading, Mixed, States
  <2>5. OneFile'
    BY <1>3 DEF OneFile, States
  <2> QED
    BY <1>3, <2>2, <2>3, <2>4, <2>5 DEF ThemeInv
<1>4. CASE reload[t].step = "themes"
  <2> DEFINE r == [reload[t] EXCEPT !.step = "default"]
  <2>1. /\ reload' = [reload EXCEPT ![t] = r] /\ r \in Loading
        /\ r.step = "default" /\ r.new = new /\ holders' = {t}
        /\ themesState' = [themesState EXCEPT !.themes = new.themes]
    BY <1>1, <1>2, <1>4 DEF Replace, Loading
  <2>2. themesState' \in Mixed /\ themesState'.themes = new.themes
    BY <1>1, <2>1 DEF Mixed
  <2> QED
    BY <1>3, <2>1, <2>2
<1>5. CASE reload[t].step = "default"
  <2> DEFINE r == [reload[t] EXCEPT !.step = "css"]
  <2>1. /\ reload' = [reload EXCEPT ![t] = r] /\ r \in Loading
        /\ r.step = "css" /\ r.new = new /\ holders' = {t}
        /\ themesState' = [themesState EXCEPT !.default = new.default]
    BY <1>1, <1>2, <1>5 DEF Replace, Loading
  <2>2. /\ themesState' \in Mixed /\ themesState'.default = new.default
        /\ themesState'.themes = themesState.themes
    BY <1>1, <2>1 DEF Mixed
  <2>3. themesState.themes = new.themes
    BY <1>5 DEF Replaced, ThemeInv
  <2> QED
    BY <1>3, <2>1, <2>2, <2>3
<1>6. CASE reload[t].step = "css"
  <2>1. /\ reload' = [reload EXCEPT ![t] = NotLoading] /\ holders' = {}
        /\ themesState' = [themesState EXCEPT !.css = new.css]
    BY <1>2, <1>6 DEF Replace
  <2>2. NotLoading \in Loading /\ NotLoading.step = "idle"
    BY NothingIsState DEF NotLoading, Loading
  <2>3. themesState.themes = new.themes /\ themesState.default = new.default
    BY <1>6 DEF ThemeInv, Replaced
  <2>4. themesState' = new
    BY <1>1, <2>1, <2>3 DEF Mixed
  <2> QED
    BY <1>1, <1>3, <2>1, <2>2, <2>4
<1> QED
  BY <1>4, <1>5, <1>6 DEF Replace

LEMMA ThemeSteps ==
  ASSUME ThemeInv, ThemeNext
  PROVE  ThemeInv'
<1>1. CASE EditThemes
  BY <1>1 DEF EditThemes, ThemeInv, ThemeTypeOK, Replaced, Holds, OneFile, States
<1> QED
  BY <1>1, ReadKeeps, AcquireKeeps, ReplaceKeeps DEF ThemeNext

-----------------------------------------------------------------------------
(* Induction over the natural numbers, for a set of them.                  *)
LEMMA NatSetInduction ==
  ASSUME NEW S, 0 \in S, \A n \in Nat : n \in S => n + 1 \in S
  PROVE  Nat \subseteq S
<1> DEFINE T == Nat \ S
           R == OpToRel(<, Nat)
<1> SUFFICES ASSUME T # {} PROVE FALSE
  OBVIOUS
<1>1. IsWellFoundedOn(R, Nat)
  BY NatLessThanWellFounded, Zenon
<1>2. \A x, y \in Nat : y < x => <<y, x>> \in R
  BY DEF OpToRel
<1> HIDE DEF T, R
<1>3. T \subseteq Nat
  BY DEF T
<1>4. PICK x \in T : \A y \in T : ~(<<y, x>> \in R)
  BY <1>1, <1>3, WFMin
<1>5. x \in Nat /\ x # 0
  BY <1>4 DEF T
<1>6. x - 1 \in Nat /\ x - 1 < x /\ (x - 1) + 1 = x
  BY <1>5
<1>7. x - 1 \in S
  BY <1>2, <1>4, <1>5, <1>6 DEF T
<1>8. x \in S
  BY <1>6, <1>7
<1> QED BY <1>4, <1>8 DEF T

(* The loop of load() over the themes of a file, one theme further.        *)
Grown(f, g, i) ==
  IF i = 0 THEN <<>>
  ELSE IF f.themes[i].whole THEN Append(g[i - 1], f.themes[i].id)
  ELSE g[i - 1]

LEMMA KeptExists ==
  ASSUME NEW f, NEW n \in Nat
  PROVE  \E g : g = [i \in 0..n |-> Grown(f, g, i)]
<1> DEFINE S == {m \in Nat : \E g : g = [i \in 0..m |-> Grown(f, g, i)]}
<1>1. 0 \in S
  <2> DEFINE g == [i \in 0..0 |-> <<>>]
  <2>1. g = [i \in 0..0 |-> Grown(f, g, i)]
    BY DEF Grown
  <2> QED BY <2>1
<1>2. ASSUME NEW m \in Nat, m \in S PROVE m + 1 \in S
  <2> PICK g : g = [i \in 0..m |-> Grown(f, g, i)]
    BY <1>2
  <2> DEFINE last == IF f.themes[m + 1].whole THEN Append(g[m], f.themes[m + 1].id) ELSE g[m]
             g2   == [i \in 0..(m + 1) |-> IF i = m + 1 THEN last ELSE g[i]]
  <2>1. ASSUME NEW i \in 0..(m + 1) PROVE g2[i] = Grown(f, g2, i)
    <3>1. CASE i = m + 1
      <4>1. i # 0 /\ i - 1 = m /\ m \in 0..(m + 1) /\ m # m + 1
        BY <3>1
      <4>2. g2[i - 1] = g[m] /\ g2[i] = last
        BY <3>1, <4>1
      <4> QED BY <3>1, <4>1, <4>2 DEF Grown
    <3>2. CASE i = 0
      <4>1. i \in 0..m /\ g[i] = Grown(f, g, i) /\ g2[i] = g[i]
        BY <3>2
      <4> QED BY <3>2, <4>1 DEF Grown
    <3>3. CASE i \in 1..m
      <4>1. /\ i \in 0..m /\ i # 0 /\ i # m + 1
            /\ i - 1 \in 0..m /\ i - 1 \in 0..(m + 1) /\ i - 1 # m + 1
        BY <3>3
      <4>2. g[i] = Grown(f, g, i) /\ g2[i] = g[i] /\ g2[i - 1] = g[i - 1]
        BY <4>1
      <4> HIDE DEF g2
      <4> QED BY <4>1, <4>2 DEF Grown
    <3> QED BY <3>1, <3>2, <3>3
  <2> HIDE DEF last
  <2>2. g2 = [i \in 0..(m + 1) |-> Grown(f, g2, i)]
    <3>1. g2 = [i \in 0..(m + 1) |-> g2[i]]
      OBVIOUS
    <3> HIDE DEF g2
    <3> QED BY <2>1, <3>1
  <2> HIDE DEF g2
  <2>3. \E k : k = [i \in 0..(m + 1) |-> Grown(f, k, i)]
    BY <2>2
  <2> QED BY <2>3
<1> HIDE DEF S
<1>3. n \in S
  BY <1>1, <1>2, NatSetInduction
<1> QED BY <1>3 DEF S

(* What is accepted is a sequence of ids of the file.                      *)
LEMMA KeptTyped ==
  ASSUME NEW f \in ThemeFiles
  PROVE  Kept(f)[Len(f.themes)] \in Seq({f.themes[i].id : i \in 1..Len(f.themes)})
<1> DEFINE n   == Len(f.themes)
           Ids == {f.themes[i].id : i \in 1..n}
           g   == Kept(f)
           S   == {m \in Nat : m <= n => g[m] \in Seq(Ids)}
<1>1. n \in Nat
  BY ThemesAssumption
<1> HIDE DEF n
<1>2. g = [i \in 0..n |-> Grown(f, g, i)]
  <2>1. \E k : k = [i \in 0..n |-> Grown(f, k, i)]
    BY <1>1, KeptExists
  <2>2. g = CHOOSE k : k = [i \in 0..n |-> Grown(f, k, i)]
    BY DEF Kept, Grown, n
  <2> QED BY <2>1, <2>2
<1> HIDE DEF g, Ids
<1>3. 0 \in S
  <2>1. g[0] = <<>>
    BY <1>1, <1>2 DEF Grown
  <2>2. <<>> \in Seq(Ids)
    OBVIOUS
  <2> QED BY <2>1, <2>2
<1>4. ASSUME NEW m \in Nat, m \in S PROVE m + 1 \in S
  <2> SUFFICES ASSUME m + 1 <= n PROVE g[m + 1] \in Seq(Ids)
    OBVIOUS
  <2>1. m <= n /\ m + 1 \in 1..n /\ m + 1 \in 0..n
    BY <1>1
  <2>2. g[m] \in Seq(Ids) /\ f.themes[m + 1].id \in Ids
    BY <1>4, <2>1 DEF Ids, n
  <2>3. g[m + 1] = Grown(f, g, m + 1)
    BY <1>2, <2>1
  <2>4. m + 1 # 0 /\ (m + 1) - 1 = m
    OBVIOUS
  <2> QED BY <2>2, <2>3, <2>4 DEF Grown
<1> HIDE DEF S
<1>5. n \in S
  BY <1>1, <1>3, <1>4, NatSetInduction
<1> QED BY <1>1, <1>5 DEF S, g, Ids, n

LEMMA AcceptedTyped ==
  ASSUME NEW f \in ThemeFiles
  PROVE  /\ Accepted(f) \in Seq({f.themes[i].id : i \in 1..Len(f.themes)})
         /\ THEMES_LIMIT > 0 => Len(Accepted(f)) <= THEMES_LIMIT
<1> DEFINE Ids   == {f.themes[i].id : i \in 1..Len(f.themes)}
           valid == Kept(f)[Len(f.themes)]
<1>1. valid \in Seq(Ids)
  BY KeptTyped
<1>2. Accepted(f) = IF THEMES_LIMIT > 0 /\ Len(valid) > THEMES_LIMIT
                      THEN SubSeq(valid, 1, THEMES_LIMIT) ELSE valid
  BY DEF Accepted
<1> HIDE DEF Ids, valid
<1>3. THEMES_LIMIT \in Nat /\ Len(valid) \in Nat
  BY <1>1, ThemesAssumption
<1>4. CASE THEMES_LIMIT > 0 /\ Len(valid) > THEMES_LIMIT
  BY <1>1, <1>2, <1>3, <1>4 DEF Ids
<1>5. CASE ~(THEMES_LIMIT > 0 /\ Len(valid) > THEMES_LIMIT)
  BY <1>1, <1>2, <1>3, <1>5 DEF Ids
<1> QED BY <1>4, <1>5

(* The parts of what load() builds fit together.                           *)
Fits(s) ==
  /\ s.themes = <<>> <=> s.css = <<>>
  /\ s.themes # <<>> =>
       /\ s.default \in ToSet(s.themes)
       /\ s.css = <<s.default>> \o s.themes
       /\ THEMES_LIMIT > 0 => Len(s.themes) <= THEMES_LIMIT

LEMMA StatesFit == \A s \in States : Fits(s)
<1>1. Fits(Nothing)
  BY DEF Fits, Nothing
<1>2. ASSUME NEW f \in ThemeFiles, f.kind # "missing"
      PROVE  Fits(Built(f))
  <2> DEFINE A   == Accepted(f)
             def == DefaultOf(f)
             Ids == {f.themes[i].id : i \in 1..Len(f.themes)}
  <2>1. Built(f) = [themes |-> A, default |-> def, css |-> ToCss(A, def)]
    BY <1>2 DEF Built
  <2>2. A \in Seq(Ids) /\ (THEMES_LIMIT > 0 => Len(A) <= THEMES_LIMIT)
    BY AcceptedTyped
  <2>3. def = IF f.default \in ToSet(A) \/ A = <<>> THEN f.default ELSE A[1]
    BY DEF DefaultOf
  <2>4. ToCss(A, def) =
          IF A = <<>> THEN <<>>
          ELSE <<IF def \in ToSet(A) THEN def ELSE A[1]>> \o A
    BY DEF ToCss
  <2> HIDE DEF A, def, Ids
  <2>5. CASE A = <<>>
    BY <2>1, <2>4, <2>5 DEF Fits
  <2>6. CASE A # <<>>
    <3>1. 1 \in DOMAIN A
      BY <2>2, <2>6
    <3>2. A[1] \in ToSet(A)
      BY <3>1 DEF ToSet
    <3>3. def \in ToSet(A)
      BY <2>3, <2>6, <3>2
    <3>4. ToCss(A, def) = <<def>> \o A
      BY <2>4, <2>6, <3>3
    <3>5. <<def>> \o A # <<>>
      <4>1. A \in Seq(Ids \cup {def}) /\ <<def>> \in Seq(Ids \cup {def})
        BY <2>2
      <4>2. Len(<<def>> \o A) = Len(A) + 1 /\ Len(A) \in Nat
        BY <4>1
      <4> QED BY <4>2
    <3> QED BY <2>1, <2>2, <2>6, <3>3, <3>4, <3>5 DEF Fits
  <2> QED BY <2>5, <2>6
<1>3. ASSUME NEW f \in ThemeFiles, f.kind = "missing"
      PROVE  Fits(Built(f))
  BY <1>1, <1>3 DEF Built
<1> QED BY <1>1, <1>2, <1>3 DEF States

LEMMA OneFileIsWhole == OneFile => ThemesWhole
  BY StatesFit DEF OneFile, ThemesWhole, Fits

-----------------------------------------------------------------------------
(* All components together.                                                *)
HostInv ==
  /\ part \in Parts
  /\ LockInv /\ CodeInv /\ SwitchInv /\ ThemeInv /\ WinInv
  /\ part # "lock" => NobodyAsks
  /\ part # "code" => NobodyTries
  /\ part # "windows" => NobodyWaits

LEMMA HostStarts == Init => HostInv
  BY LockStarts, CodeStarts, SwitchStarts, ThemeStarts, WinStarts DEF Init, HostInv

(* The clock never goes back.                                              *)
LEMMA ClockRises == HostInv /\ [Next]_vars => Later
<1> SUFFICES ASSUME HostInv, [Next]_vars PROVE Later
  OBVIOUS
<1>1. clock \in Nat
  BY DEF HostInv, LockInv, LockTypeOK
<1>2. clock' \in {clock, clock + 1}
  <2>1. CASE LockNext
    BY <2>1 DEF LockNext, LockTick, ScreenMoves, Order, Obey, Enter, Look, Hit, Ask, Write
  <2>2. CASE CodeNext
    BY <2>2 DEF CodeNext, CodeTick, ServerRestarts, Signal, Regenerate, Announce, TryCode,
                CompareCode
  <2>3. CASE WinNext
    BY <2>3 DEF WinNext, WinTick, WindowMoves, WindowOpens, Request, Query, Script, Journal,
                UseAnswer, Act, LaunchWebApp
  <2>4. CASE UNCHANGED clock
    BY <2>4
  <2> QED
    BY <2>1, <2>2, <2>3, <2>4 DEF Next, vars
<1> QED
  BY <1>1, <1>2 DEF Later

LEMMA HostSteps == HostInv /\ [Next]_vars => HostInv'
<1> SUFFICES ASSUME HostInv, [Next]_vars PROVE HostInv'
  OBVIOUS
<1>1. part' = part /\ Later
  BY ClockRises DEF Next, vars
<1>2. LockInv' /\ (part # "lock" => NobodyAsks')
  <2>1. CASE part = "lock" /\ LockNext
    BY <2>1, LockSteps DEF HostInv
  <2>2. CASE UNCHANGED <<clock, lockState>>
    BY <2>2 DEF HostInv, LockInv, LockTypeOK, LockFits, Asks, NobodyAsks, lockState
  <2>3. CASE part # "lock" /\ UNCHANGED lockState
    BY <1>1, <2>3, LockWaits DEF HostInv
  <2> QED
    BY <2>1, <2>2, <2>3 DEF Next, vars
<1>3. CodeInv' /\ (part # "code" => NobodyTries')
  <2>1. CASE part = "code" /\ CodeNext
    BY <2>1, CodeSteps DEF HostInv
  <2>2. CASE UNCHANGED <<clock, codeState>>
    <3>1. /\ clock' = clock /\ code' = code /\ expires' = expires /\ frames' = frames
          /\ login' = login /\ drawn' = drawn /\ printed' = printed /\ CodeInv
      BY <2>2 DEF HostInv, codeState
    <3>2. CodeTypeOK'
      BY <3>1 DEF CodeInv, CodeTypeOK
    <3>3. Drawn' /\ Printable' /\ Tried' /\ \A i \in DOMAIN frames' : InTime(frames[i])'
      BY <3>1 DEF CodeInv, Drawn, Printable, Tried, InTime
    <3>4. (Expiring' <=> Expiring) /\ (Owed' <=> Owed) /\ CodeInTime' /\ (NobodyTries' <=> NobodyTries)
      BY <3>1 DEF CodeInv, Expiring, Owed, Owes, CodeInTime, NobodyTries
    <3> QED
      BY <1>1, <3>1, <3>2, <3>3, <3>4 DEF HostInv, CodeInv
  <2>3. CASE part # "code" /\ UNCHANGED codeState
    BY <1>1, <2>3, CodeWaits DEF HostInv
  <2> QED
    BY <2>1, <2>2, <2>3 DEF Next, vars
<1>4. SwitchInv'
  BY SwitchSteps, SwitchWaits DEF HostInv, Next, vars
<1>5. ThemeInv'
  BY ThemeSteps, ThemeWaits DEF HostInv, Next, vars
<1>6. WinInv' /\ (part # "windows" => NobodyWaits')
  <2>1. CASE part = "windows" /\ WinNext
    BY <2>1, WinSteps DEF HostInv
  <2>2. CASE UNCHANGED <<clock, winState>>
    <3>1. UNCHANGED <<clock, windows, arranged, opening, winCache, winReq>>
      BY <2>2 DEF winState
    <3> QED
      BY <3>1 DEF HostInv, WinInv, WinTypeOK, WinFits, Queries, NobodyWaits
  <2>3. CASE part # "windows" /\ UNCHANGED winState
    BY <1>1, <2>3, WinWaits DEF HostInv
  <2> QED
    BY <2>1, <2>2, <2>3 DEF Next, vars
<1> QED
  BY <1>1, <1>2, <1>3, <1>4, <1>5, <1>6 DEF HostInv

LEMMA Invariance == Spec => []HostInv
  BY HostStarts, HostSteps, PTL DEF Spec

(* Every state of every component is well typed.                           *)
THEOREM TypeCorrect == Spec => []HostTypeOK
<1>1. HostInv => HostTypeOK
  BY LockHolds, CodeHolds, SwitchHolds, WinHolds DEF HostInv, HostTypeOK, ThemeInv
<1> QED
  BY <1>1, Invariance, PTL

(* A cached answer of screen_locked (routes/auth.py:185) is at most the    *)
(* time to live of the cache and one call old, for any number of threads.  *)
THEOREM LockIsRecent == Spec => []LockSettled
<1>1. HostInv => LockSettled
  BY LockHolds DEF HostInv
<1> QED
  BY <1>1, Invariance, PTL

(* No login code is accepted after its time (config.py:104-118), however   *)
(* many signals and attempts interleave.                                   *)
THEOREM CodeExpires == Spec => []CodeInTime
<1>1. HostInv => CodeInTime
  BY CodeHolds DEF HostInv
<1> QED
  BY <1>1, Invariance, PTL

(* When no handler runs, the code in force is one that was printed, with   *)
(* the life that was announced (server.py:261-277).                        *)
THEOREM CodeIsPrinted == Spec => []AsPrinted
<1>1. HostInv => AsPrinted
  BY CodeHolds DEF HostInv
<1> QED
  BY <1>1, Invariance, PTL

(* A switch that nothing disturbs leaves both records of do-not-disturb,   *)
(* or the profile, as it answers (core/system.py:91-131).                  *)
THEOREM SwitchesAgree == Spec => []AnswersTrue
<1>1. HostInv => AnswersTrue
  BY SwitchHolds DEF HostInv
<1> QED
  BY <1>1, Invariance, PTL

(* Whoever takes the lock of core/themes.py finds the entries of one file, *)
(* whatever reloads overlap.                                               *)
THEOREM ThemesOfOneFile == Spec => []OneFile
<1>1. HostInv => OneFile
  BY DEF HostInv, ThemeInv
<1> QED
  BY <1>1, Invariance, PTL

(* What a request is offered is a list within the limit, a default in it,  *)
(* CSS for each theme of it, and all three of one reading of the file,     *)
(* whatever the file holds, whenever it is edited and whatever reloads     *)
(* overlap (core/themes.py:103-132).                                       *)
THEOREM ThemesAreWhole == Spec => []ThemesWhole
<1> QED
  BY OneFileIsWhole, ThemesOfOneFile, PTL

(* The window states a request of a web app acts on are at most the life   *)
(* of the cache and one query old, though queries overlap                  *)
(* (core/kwin.py:139-167).                                                 *)
THEOREM WindowsAreRecent == Spec => []WindowsSettled
<1>1. HostInv => WindowsSettled
  BY WinHolds DEF HostInv
<1> QED
  BY <1>1, Invariance, PTL

-----------------------------------------------------------------------------
Lines   == [kind : Kinds, n : Nat]
Entries == [app : Lines, summary : Lines, body : Lines]

(* What may be printed after a line: a new notification begins with a      *)
(* head, and a plain one goes on with what comes next in it.               *)
Follows(a, b) ==
  /\ b.kind = "head" \/ b.n = a.n
  /\ a.n = b.n /\ a.n \in plain =>
       <<a.kind, b.kind>> \in
         {<<"head", "app">>, <<"app", "icon">>, <<"icon", "summary">>,
          <<"summary", "body">>, <<"body", "text">>, <<"text", "text">>}

(* After the body of a plain notification nothing but texts of it come.    *)
Ends(a, b) == a.n = b.n /\ a.n \in plain /\ a.kind \in {"body", "text"} => b.kind = "text"

(* The pipe holds the lines of one notification after those of the other.  *)
PipeInv ==
  /\ sent \in Nat /\ whole \subseteq plain /\ \A n \in plain : n \in Nat /\ n <= sent
  /\ pipe \in Seq(Lines)
  /\ \A i \in 1..Len(pipe) : pipe[i].n <= sent
  /\ \A i \in 1..(Len(pipe) - 1) : Follows(pipe[i], pipe[i + 1])
  /\ \A i, j \in 1..Len(pipe) :
       i < j => pipe[i].n <= pipe[j].n /\ Ends(pipe[i], pipe[j])

(* What can be next when the listener is in a notification.                *)
Awaited(line) ==
  line.kind # "head" =>
    /\ strings # <<>> => line.n = strings[1].n
    /\ line.n \in plain => line.kind = Told[Len(strings) + 2]

(* The strings are of one notification, the first of it if it is plain,    *)
(* and the pipe goes on with the next one of it, if it was not cut off.    *)
ListenerInv ==
  /\ inNotify \in BOOLEAN
  /\ strings \in Seq(Lines) /\ Len(strings) <= 3
  /\ ~inNotify => strings = <<>>
  /\ \A i \in 1..Len(strings) :
       /\ strings[i].n = strings[1].n /\ strings[i].n <= sent
       /\ strings[i].n \in plain => strings[i].kind = Told[i + 1]
  /\ inNotify /\ pipe # <<>> => Awaited(pipe[1])

(* The notification n, if it is plain, is not entered again: what is in    *)
(* the pipe of it are texts, and none of its strings is held.              *)
Over(n) ==
  n \in plain =>
    /\ \A j \in 1..Len(pipe) : pipe[j].n = n => pipe[j].kind = "text"
    /\ strings # <<>> => strings[1].n # n

(* No notification that may still be entered is older than those that are: *)
(* the one being read, and those in the pipe.                              *)
EntriesInv ==
  /\ history \in Seq(Entries)
  /\ HistoryTrue
  /\ \A i \in 1..Len(history) :
       /\ history[i].app.n <= sent
       /\ strings # <<>> => history[i].app.n <= strings[1].n
       /\ \A j \in 1..Len(pipe) : history[i].app.n <= pipe[j].n
       /\ Over(history[i].app.n)
  /\ strings # <<>> => \A j \in 1..Len(pipe) : strings[1].n <= pipe[j].n

NotifInv == PipeInv /\ ListenerInv /\ EntriesInv

-----------------------------------------------------------------------------
(* The elements of a sequence of lines or of entries.                      *)
LEMMA LinesTyped ==
  ASSUME NEW s \in Seq(Lines)
  PROVE  /\ Len(s) \in Nat /\ DOMAIN s = 1..Len(s) /\ (s # <<>> <=> 1 \in 1..Len(s))
         /\ \A i \in 1..Len(s) : s[i] \in Lines /\ s[i].kind \in Kinds /\ s[i].n \in Nat
<1>1. \A i \in 1..Len(s) : s[i] \in Lines
  OBVIOUS
<1> QED BY <1>1 DEF Lines

LEMMA EntriesTyped ==
  ASSUME NEW s \in Seq(Entries)
  PROVE  /\ Len(s) \in Nat /\ DOMAIN s = 1..Len(s)
         /\ \A i \in 1..Len(s) : s[i] \in Entries /\ s[i].app.n \in Nat
<1>1. \A i \in 1..Len(s) : s[i] \in Entries
  OBVIOUS
<1> QED BY <1>1 DEF Entries, Lines

LEMMA ToldKinds ==
  /\ Told[1] = "head" /\ Told[2] = "app" /\ Told[3] = "icon" /\ Told[4] = "summary"
  /\ Told[5] = "body" /\ \A k \in 2..5 : Told[k] # "head"
<1>1. \A k \in 2..5 : k = 2 \/ k = 3 \/ k = 4 \/ k = 5
  OBVIOUS
<1> QED BY <1>1 DEF Told

LEMMA NotifStarts == NotifInit => NotifInv
<1> SUFFICES ASSUME NotifInit PROVE NotifInv
  OBVIOUS
<1> USE DEF NotifInit
<1>1. PipeInv
  BY DEF PipeInv
<1>2. ListenerInv
  <2>1. 1..Len(strings) = {} /\ strings \in Seq(Lines) /\ Len(strings) <= 3
    OBVIOUS
  <2>2. inNotify \in BOOLEAN /\ ~inNotify
    OBVIOUS
  <2> QED BY <2>1, <2>2 DEF ListenerInv
<1>3. EntriesInv
  BY NotificationAssumption DEF EntriesInv, HistoryTrue
<1> QED BY <1>1, <1>2, <1>3 DEF NotifInv

LEMMA NotifWaits == ASSUME NotifInv, UNCHANGED notifVars PROVE NotifInv'
<1> USE DEF notifVars, NotifInv
<1>1. PipeInv'
  BY DEF PipeInv, Follows, Ends
<1>2. ListenerInv'
  BY DEF ListenerInv, Awaited
<1>3. EntriesInv'
  BY DEF EntriesInv, HistoryTrue, Over
<1> QED BY <1>1, <1>2, <1>3

(* What dbus-monitor prints of a new notification, or the first lines.     *)
Prints(p) ==
  /\ p \in Seq(Lines) /\ (p # <<>> => p[1].kind = "head")
  /\ \A i \in 1..Len(p) :
       /\ p[i].n = sent + 1
       /\ sent + 1 \in plain' => p[i].kind = IF i <= 5 THEN Told[i] ELSE "text"

LEMMA PrintedPrints ==
  ASSUME sent \in Nat, NEW p \in Printings, sent + 1 \in plain' => Plain(p)
  PROVE  /\ Prints(Printed(p, sent + 1))
         /\ Len(Printed(p, sent + 1)) = Len(p) /\ Len(p) \in Nat \ {0}
         /\ \A i \in 1..Len(p) : Printed(p, sent + 1)[i] = Line(p[i], sent + 1)
<1> DEFINE q == Printed(p, sent + 1)
<1>1. p \in Seq(Kinds) /\ p # <<>> /\ p[1] = "head" /\ Len(p) \in Nat \ {0}
  BY PrintingAssumption
<1>2. \A i \in 1..Len(p) : p[i] \in Kinds /\ Line(p[i], sent + 1) \in Lines
  BY <1>1 DEF Line, Lines
<1>3. q = [i \in 1..Len(p) |-> Line(p[i], sent + 1)]
  BY DEF Printed
<1> HIDE DEF q
<1>4. q \in Seq(Lines) /\ Len(q) = Len(p)
  BY <1>1, <1>2, <1>3
<1>5. \A i \in 1..Len(p) : /\ q[i] = Line(p[i], sent + 1)
                           /\ q[i].kind = p[i] /\ q[i].n = sent + 1
  BY <1>3 DEF Line
<1>6. 1 \in 1..Len(p)
  BY <1>1
<1>7. Prints(q)
  BY <1>1, <1>4, <1>5, <1>6 DEF Prints, Plain
<1> QED BY <1>1, <1>4, <1>5, <1>7 DEF q

LEMMA PrefixPrints ==
  ASSUME sent \in Nat, NEW p, Prints(p), NEW k \in 1..Len(p)
  PROVE  Prints(SubSeq(p, 1, k))
<1>1. p \in Seq(Lines) /\ k \in Nat /\ Len(p) \in Nat /\ k <= Len(p)
  BY DEF Prints
<1>2. /\ SubSeq(p, 1, k) \in Seq(Lines) /\ Len(SubSeq(p, 1, k)) = k
      /\ \A i \in 1..k : SubSeq(p, 1, k)[i] = p[i]
  BY <1>1
<1> DEFINE q == SubSeq(p, 1, k)
<1> HIDE DEF q
<1>3. q \in Seq(Lines) /\ Len(q) = k /\ \A i \in 1..k : i \in 1..Len(p) /\ q[i] = p[i]
  BY <1>1, <1>2 DEF q
<1>4. 1 \in 1..k /\ p # <<>>
  BY <1>1
<1>5. Prints(q)
  BY <1>3, <1>4 DEF Prints
<1> QED BY <1>5 DEF q

(* Neighbours in what is printed, and lines that are further apart.        *)
LEMMA PrintsInOrder ==
  ASSUME sent \in Nat, NEW p, Prints(p)
  PROVE  /\ \A i \in 1..(Len(p) - 1) : Follows(p[i], p[i + 1])'
         /\ \A i, j \in 1..Len(p) : i < j => Ends(p[i], p[j])'
<1>1. p \in Seq(Lines) /\ Len(p) \in Nat
  BY DEF Prints
<1>2. ASSUME NEW i \in 1..(Len(p) - 1), NEW a, NEW b, a = p[i], b = p[i + 1]
      PROVE  Follows(a, b)'
  <2>1. i \in 1..Len(p) /\ i + 1 \in 1..Len(p) /\ i \in Nat
    BY <1>1
  <2>2. a.n = sent + 1 /\ b.n = sent + 1
    BY <1>2, <2>1 DEF Prints
  <2>3. sent + 1 \in plain' => /\ a.kind = IF i <= 5 THEN Told[i] ELSE "text"
                               /\ b.kind = IF i + 1 <= 5 THEN Told[i + 1] ELSE "text"
    BY <1>2, <2>1 DEF Prints
  <2>4. i = 1 \/ i = 2 \/ i = 3 \/ i = 4 \/ i = 5 \/ i > 5
    BY <2>1
  <2> QED BY <2>1, <2>2, <2>3, <2>4, ToldKinds DEF Follows
<1>3. ASSUME NEW i \in 1..Len(p), NEW j \in 1..Len(p), i < j,
             NEW a, NEW b, a = p[i], b = p[j]
      PROVE  Ends(a, b)'
  <2> SUFFICES ASSUME a.n \in plain', a.kind \in {"body", "text"} PROVE b.kind = "text"
    BY DEF Ends
  <2>1. sent + 1 \in plain'
    BY <1>3 DEF Prints
  <2>2. /\ a.kind = IF i <= 5 THEN Told[i] ELSE "text"
        /\ b.kind = IF j <= 5 THEN Told[j] ELSE "text"
    BY <1>3, <2>1 DEF Prints
  <2>3. i = 1 \/ i = 2 \/ i = 3 \/ i = 4 \/ i >= 5
    BY <1>1
  <2>4. i >= 5
    BY <2>2, <2>3, ToldKinds
  <2>5. j > 5
    BY <1>1, <1>3, <2>4
  <2> QED BY <2>2, <2>5
<1> QED BY <1>2, <1>3

(* A notification is printed, in full or not.                              *)
LEMMA PrintKeeps ==
  ASSUME NotifInv, NEW p, Prints(p), pipe' = pipe \o p, sent' = sent + 1,
         plain \subseteq plain', plain' \subseteq plain \cup {sent + 1}, whole' \subseteq plain',
         UNCHANGED <<inNotify, strings, history>>
  PROVE  NotifInv'
<1> USE DEF NotifInv
<1>1. /\ sent \in Nat /\ pipe \in Seq(Lines) /\ p \in Seq(Lines)
      /\ Len(pipe) \in Nat /\ Len(p) \in Nat
      /\ \A n \in plain' : n \in Nat /\ n <= sent'
      /\ \A n \in Nat : n <= sent => (n \in plain' <=> n \in plain)
  <2>1. /\ sent \in Nat /\ pipe \in Seq(Lines) /\ p \in Seq(Lines)
        /\ \A n \in plain : n \in Nat /\ n <= sent
    BY DEF PipeInv, Prints
  <2>2. \A n \in plain' : n \in plain \/ n = sent + 1
    OBVIOUS
  <2> QED BY <2>1, <2>2
<1>2. /\ pipe' \in Seq(Lines) /\ Len(pipe') = Len(pipe) + Len(p)
      /\ \A i \in 1..Len(pipe) : pipe'[i] = pipe[i]
      /\ \A i \in (Len(pipe) + 1)..Len(pipe') :
            i - Len(pipe) \in 1..Len(p) /\ pipe'[i] = p[i - Len(pipe)]
  BY <1>1
<1>3. \A i \in 1..Len(pipe') : i \in 1..Len(pipe) \/ i \in (Len(pipe) + 1)..Len(pipe')
  BY <1>1, <1>2
<1>4. \A i \in 1..Len(pipe) : pipe[i].n \in Nat /\ pipe[i].n <= sent
  BY <1>1, LinesTyped DEF PipeInv
<1>5. \A i \in (Len(pipe) + 1)..Len(pipe') : pipe'[i].n = sent + 1
  BY <1>2 DEF Prints
<1>6. ASSUME NEW i \in 1..(Len(pipe') - 1), NEW a, NEW b, a = pipe'[i], b = pipe'[i + 1]
      PROVE  Follows(a, b)'
  <2>1. CASE i \in 1..(Len(pipe) - 1)
    <3>1. i \in 1..Len(pipe) /\ i + 1 \in 1..Len(pipe)
      BY <1>1, <2>1
    <3>2. a = pipe[i] /\ b = pipe[i + 1] /\ a.n \in Nat /\ a.n <= sent
      BY <1>2, <1>4, <1>6, <3>1
    <3>3. Follows(pipe[i], pipe[i + 1])
      BY <2>1 DEF PipeInv
    <3> QED BY <1>1, <3>2, <3>3 DEF Follows
  <2>2. CASE i = Len(pipe)
    <3>1. i \in 1..Len(pipe) /\ i + 1 \in (Len(pipe) + 1)..Len(pipe') /\ p # <<>>
      BY <1>1, <1>2, <2>2
    <3>2. a = pipe[i] /\ b = p[1] /\ b.n = sent + 1 /\ a.n <= sent /\ a.n \in Nat
      BY <1>1, <1>2, <1>4, <1>5, <1>6, <2>2, <3>1
    <3>3. b.kind = "head" /\ a.n # b.n
      BY <1>1, <3>1, <3>2 DEF Prints
    <3> QED BY <3>3 DEF Follows
  <2>3. CASE i \in (Len(pipe) + 1)..Len(pipe')
    <3>1. i - Len(pipe) \in 1..(Len(p) - 1)
      BY <1>1, <1>2, <2>3
    <3>2. a = p[i - Len(pipe)] /\ b = p[i - Len(pipe) + 1]
      BY <1>1, <1>2, <1>6, <2>3, <3>1
    <3> QED BY <1>1, <3>1, <3>2, PrintsInOrder
  <2> QED BY <1>1, <1>2, <2>1, <2>2, <2>3
<1>7. ASSUME NEW i \in 1..Len(pipe'), NEW j \in 1..Len(pipe'), i < j,
             NEW a, NEW b, a = pipe'[i], b = pipe'[j]
      PROVE  a.n <= b.n /\ Ends(a, b)'
  <2>1. CASE j \in 1..Len(pipe)
    <3>1. i \in 1..Len(pipe) /\ a = pipe[i] /\ b = pipe[j] /\ a.n \in Nat /\ a.n <= sent
      BY <1>1, <1>2, <1>4, <1>7, <2>1
    <3>2. pipe[i].n <= pipe[j].n /\ Ends(pipe[i], pipe[j])
      BY <1>7, <2>1, <3>1 DEF PipeInv
    <3> QED BY <1>1, <3>1, <3>2 DEF Ends
  <2>2. CASE i \in 1..Len(pipe) /\ j \in (Len(pipe) + 1)..Len(pipe')
    <3>1. a.n <= sent /\ a.n \in Nat /\ b.n = sent + 1
      BY <1>2, <1>4, <1>5, <1>7, <2>2
    <3> QED BY <1>1, <3>1 DEF Ends
  <2>3. CASE i \in (Len(pipe) + 1)..Len(pipe') /\ j \in (Len(pipe) + 1)..Len(pipe')
    <3>1. /\ i - Len(pipe) \in 1..Len(p) /\ j - Len(pipe) \in 1..Len(p)
          /\ i - Len(pipe) < j - Len(pipe)
          /\ a = p[i - Len(pipe)] /\ b = p[j - Len(pipe)] /\ a.n = sent + 1 /\ b.n = sent + 1
      BY <1>1, <1>2, <1>5, <1>7, <2>3
    <3>2. \A k, l \in 1..Len(p) : k < l => Ends(p[k], p[l])'
      BY <1>1, PrintsInOrder
    <3>3. PICK k \in 1..Len(p), l \in 1..Len(p) :
            k < l /\ k = i - Len(pipe) /\ l = j - Len(pipe)
      BY <3>1
    <3>4. Ends(p[k], p[l])' /\ a = p[k] /\ b = p[l]
      BY <3>1, <3>2, <3>3
    <3>5. Ends(a, b)'
      BY <3>4 DEF Ends
    <3>6. a.n <= b.n
      BY <1>1, <3>1
    <3> QED BY <3>5, <3>6
  <2> QED BY <1>1, <1>2, <1>3, <1>7, <2>1, <2>2, <2>3
<1>8. \A i \in 1..Len(pipe') : pipe'[i].n <= sent'
  BY <1>1, <1>2, <1>3, <1>4, <1>5
<1>9. PipeInv'
  <2>1. sent' \in Nat
    BY <1>1
  <2> QED BY <1>1, <1>2, <1>6, <1>7, <1>8, <2>1 DEF PipeInv
<1>10. inNotify /\ pipe' # <<>> => Awaited(pipe[1])'
  <2>1. CASE pipe # <<>>
    <3>1. 1 \in 1..Len(pipe) /\ pipe'[1] = pipe[1] /\ pipe[1].n <= sent /\ pipe[1].n \in Nat
      BY <1>1, <1>2, <1>4, <2>1
    <3>2. pipe[1].n \in plain' => pipe[1].n \in plain
      BY <1>1, <3>1
    <3>3. inNotify => Awaited(pipe[1])
      BY <2>1 DEF ListenerInv
    <3> QED BY <3>1, <3>2, <3>3 DEF Awaited
  <2>2. CASE pipe = <<>>
    <3>1. pipe' = p
      BY <1>1, <2>2
    <3>2. pipe' # <<>> => pipe'[1].kind = "head"
      BY <3>1 DEF Prints
    <3> QED BY <3>2 DEF Awaited
  <2> QED BY <2>1, <2>2
<1>11. \A i \in 1..Len(strings) : strings[i].n \in Nat /\ strings[i].n <= sent
  BY LinesTyped DEF ListenerInv
<1>12. ListenerInv'
  <2>1. \A i \in 1..Len(strings) : strings[i].n <= sent'
    BY <1>1, <1>11
  <2>2. \A i \in 1..Len(strings) : strings[i].n \in plain' => strings[i].kind = Told[i + 1]
    BY <1>1, <1>11 DEF ListenerInv
  <2> QED BY <1>10, <2>1, <2>2 DEF ListenerInv
<1>13. \A i \in 1..Len(history) : history[i].app.n \in Nat /\ history[i].app.n <= sent
  BY EntriesTyped DEF EntriesInv
<1>14. HistoryTrue'
  <2>1. \A i \in 1..Len(history) : history[i].app.n \in plain' <=> history[i].app.n \in plain
    BY <1>1, <1>13
  <2>2. DOMAIN history = 1..Len(history)
    BY EntriesTyped DEF EntriesInv
  <2> QED BY <2>1, <2>2 DEF EntriesInv, HistoryTrue
<1>15. strings # <<>> => strings[1].n \in Nat /\ strings[1].n <= sent
  BY <1>11, LinesTyped DEF ListenerInv
<1>16. \A j \in 1..Len(pipe') :
         /\ \A i \in 1..Len(history) : history[i].app.n <= pipe'[j].n
         /\ strings # <<>> => strings[1].n <= pipe'[j].n
  <2> TAKE j \in 1..Len(pipe')
  <2>1. CASE j \in 1..Len(pipe)
    BY <1>2, <2>1 DEF EntriesInv
  <2>2. CASE j \in (Len(pipe) + 1)..Len(pipe')
    BY <1>1, <1>5, <1>13, <1>15, <2>2
  <2> QED BY <1>3, <2>1, <2>2
<1>17. ASSUME NEW i \in 1..Len(history), NEW n, n = history[i].app.n
       PROVE  Over(n)'
  <2> SUFFICES ASSUME n \in plain'
               PROVE  /\ \A j \in 1..Len(pipe') : pipe'[j].n = n => pipe'[j].kind = "text"
                      /\ strings # <<>> => strings[1].n # n
    BY DEF Over
  <2>1. n \in plain /\ Over(n) /\ n <= sent /\ n \in Nat
    BY <1>1, <1>13, <1>17 DEF EntriesInv
  <2>2. ASSUME NEW j \in 1..Len(pipe'), pipe'[j].n = n PROVE pipe'[j].kind = "text"
    <3>1. j \in 1..Len(pipe)
      BY <1>1, <1>3, <1>5, <2>1, <2>2
    <3> QED BY <1>2, <2>1, <2>2, <3>1 DEF Over
  <2> QED BY <2>1, <2>2 DEF Over
<1>18. EntriesInv'
  <2>1. history' = history /\ strings' = strings
    OBVIOUS
  <2>2. \A i \in 1..Len(history) : history[i].app.n <= sent'
    BY <1>1, <1>13
  <2> QED BY <1>14, <1>16, <1>17, <2>1, <2>2 DEF EntriesInv
<1> QED BY <1>9, <1>12, <1>18

(* The line that is read, and what stays in the pipe.                      *)
LEMMA TailOfPipe ==
  ASSUME NotifInv, pipe # <<>>
  PROVE  /\ pipe[1] \in Lines /\ pipe[1].n \in Nat /\ pipe[1].n <= sent
         /\ Head(pipe) = pipe[1] /\ Tail(pipe) \in Seq(Lines)
         /\ Len(Tail(pipe)) = Len(pipe) - 1 /\ Len(pipe) \in Nat /\ 1 \in 1..Len(pipe)
         /\ \A i \in 1..Len(Tail(pipe)) : /\ i + 1 \in 1..Len(pipe) /\ 1 < i + 1
                                          /\ Tail(pipe)[i] = pipe[i + 1]
         /\ Tail(pipe) # <<>> => Follows(pipe[1], Tail(pipe)[1])
<1>1. /\ pipe \in Seq(Lines) /\ Len(pipe) \in Nat /\ 1 \in 1..Len(pipe)
      /\ pipe[1] \in Lines /\ pipe[1].n \in Nat
  BY LinesTyped DEF NotifInv, PipeInv
<1>2. /\ Head(pipe) = pipe[1] /\ Tail(pipe) \in Seq(Lines)
      /\ Len(Tail(pipe)) = Len(pipe) - 1
      /\ \A i \in 1..Len(Tail(pipe)) : /\ i + 1 \in 1..Len(pipe) /\ 1 < i + 1
                                       /\ Tail(pipe)[i] = pipe[i + 1]
  BY <1>1
<1>3. Tail(pipe) # <<>> => Follows(pipe[1], Tail(pipe)[1])
  <2> SUFFICES ASSUME Tail(pipe) # <<>> PROVE Follows(pipe[1], Tail(pipe)[1])
    OBVIOUS
  <2>1. 1 \in 1..Len(Tail(pipe))
    BY <1>2, LinesTyped
  <2>2. 1 \in 1..(Len(pipe) - 1) /\ Tail(pipe)[1] = pipe[2]
    BY <1>1, <1>2, <2>1
  <2>3. Follows(pipe[1], pipe[1 + 1])
    BY <2>2 DEF NotifInv, PipeInv
  <2> QED BY <2>2, <2>3
<1> QED BY <1>1, <1>2, <1>3 DEF NotifInv, PipeInv

LEMMA TailKeepsPipe ==
  ASSUME NotifInv, pipe # <<>>, pipe' = Tail(pipe), UNCHANGED <<sent, plain, whole>>
  PROVE  PipeInv'
<1> USE DEF NotifInv
<1>1. /\ pipe' \in Seq(Lines) /\ Len(pipe') = Len(pipe) - 1 /\ Len(pipe) \in Nat
      /\ \A i \in 1..Len(pipe') : i + 1 \in 1..Len(pipe) /\ pipe'[i] = pipe[i + 1]
  BY TailOfPipe
<1>2. ASSUME NEW i \in 1..(Len(pipe') - 1), NEW a, NEW b, a = pipe'[i], b = pipe'[i + 1]
      PROVE  Follows(a, b)'
  <2>1. /\ i + 1 \in 1..(Len(pipe) - 1) /\ i \in 1..Len(pipe') /\ i + 1 \in 1..Len(pipe')
    BY <1>1
  <2>2. Follows(pipe[i + 1], pipe[(i + 1) + 1])
    BY <2>1 DEF PipeInv
  <2>3. Follows(a, b)
    BY <1>1, <1>2, <2>1, <2>2
  <2> QED BY <2>3 DEF Follows
<1>3. ASSUME NEW i \in 1..Len(pipe'), NEW j \in 1..Len(pipe'), i < j,
             NEW a, NEW b, a = pipe'[i], b = pipe'[j]
      PROVE  a.n <= b.n /\ Ends(a, b)'
  <2>1. /\ i + 1 \in 1..Len(pipe) /\ j + 1 \in 1..Len(pipe) /\ i + 1 < j + 1
        /\ a = pipe[i + 1] /\ b = pipe[j + 1]
    BY <1>1, <1>3
  <2>2. a.n <= b.n /\ Ends(a, b)
    BY <2>1 DEF PipeInv
  <2> QED BY <2>2 DEF Ends
<1>4. \A i \in 1..Len(pipe') : pipe'[i].n <= sent'
  BY <1>1 DEF PipeInv
<1> QED BY <1>1, <1>2, <1>3, <1>4 DEF PipeInv

(* A line that makes no entry: the first of the strings, if there is one,  *)
(* is what it was or the line itself.                                      *)
LEMMA ReadKeepsEntries ==
  ASSUME NotifInv, pipe # <<>>, pipe' = Tail(pipe), UNCHANGED <<sent, plain, whole, history>>,
         \/ strings' = <<>>
         \/ strings # <<>> /\ strings' # <<>> /\ strings'[1] = strings[1]
         \/ /\ strings' # <<>> /\ strings'[1] = pipe[1]
            /\ pipe[1].n \in plain => pipe[1].kind # "text"
  PROVE  EntriesInv'
<1> USE DEF NotifInv
<1>1. /\ Len(pipe') = Len(pipe) - 1 /\ Len(pipe) \in Nat /\ 1 \in 1..Len(pipe)
      /\ \A i \in 1..Len(pipe') : i + 1 \in 1..Len(pipe) /\ 1 < i + 1 /\ pipe'[i] = pipe[i + 1]
  BY TailOfPipe
<1>2. ASSUME NEW i \in 1..Len(history), NEW n, n = history[i].app.n
      PROVE  /\ n <= sent /\ (strings' # <<>> => n <= strings'[1].n)
             /\ \A j \in 1..Len(pipe') : n <= pipe'[j].n
             /\ Over(n)'
  <2>1. /\ n <= sent /\ (strings # <<>> => n <= strings[1].n) /\ Over(n)
        /\ \A j \in 1..Len(pipe) : n <= pipe[j].n
    BY <1>2 DEF EntriesInv
  <2>2. Over(n)'
    BY <1>1, <2>1 DEF Over
  <2> QED BY <1>1, <2>1, <2>2
<1>3. ASSUME strings' # <<>>, NEW j \in 1..Len(pipe') PROVE strings'[1].n <= pipe'[j].n
  <2>1. j + 1 \in 1..Len(pipe) /\ 1 < j + 1 /\ pipe'[j] = pipe[j + 1]
    BY <1>1
  <2>2. pipe[1].n <= pipe[j + 1].n
    BY <1>1, <2>1 DEF PipeInv
  <2> QED BY <1>3, <2>1, <2>2 DEF EntriesInv
<1>4. HistoryTrue'
  BY DEF EntriesInv, HistoryTrue
<1>5. history' \in Seq(Entries) /\ history' = history /\ sent' = sent
  BY DEF EntriesInv
<1> QED BY <1>2, <1>3, <1>4, <1>5 DEF EntriesInv

LEMMA HeadKeeps ==
  ASSUME NotifInv, pipe # <<>>, pipe[1].kind = "head", pipe' = Tail(pipe),
         inNotify' = TRUE, strings' = <<>>, UNCHANGED <<sent, plain, whole, history>>
  PROVE  NotifInv'
<1>1. pipe' # <<>> => Awaited(pipe[1])'
  <2> SUFFICES ASSUME pipe' # <<>>, pipe'[1].kind # "head", pipe'[1].n \in plain
               PROVE  pipe'[1].kind = Told[0 + 2]
    BY DEF Awaited
  <2>1. Follows(pipe[1], pipe'[1])
    BY TailOfPipe
  <2> QED BY <2>1, ToldKinds DEF Follows
<1>2. ListenerInv'
  <2>1. 1..Len(strings') = {} /\ strings' \in Seq(Lines) /\ Len(strings') <= 3
    OBVIOUS
  <2> QED BY <1>1, <2>1 DEF ListenerInv
<1> QED BY <1>2, TailKeepsPipe, ReadKeepsEntries DEF NotifInv

LEMMA SkipKeeps ==
  ASSUME NotifInv, pipe # <<>>, pipe' = Tail(pipe), ~inNotify,
         UNCHANGED <<inNotify, strings, sent, plain, whole, history>>
  PROVE  NotifInv'
<1>1. ListenerInv'
  BY DEF NotifInv, ListenerInv
<1>2. EntriesInv'
  BY ReadKeepsEntries DEF NotifInv, ListenerInv
<1> QED BY <1>1, <1>2, TailKeepsPipe DEF NotifInv

(* A string that makes no entry yet.                                       *)
LEMMA StringKeeps ==
  ASSUME NotifInv, pipe # <<>>, pipe[1].kind # "head", pipe' = Tail(pipe),
         inNotify, strings' = Append(strings, pipe[1]),
         Len(strings') < 4, UNCHANGED <<inNotify, sent, plain, whole, history>>
  PROVE  NotifInv'
<1>1. strings \in Seq(Lines) /\ Len(strings) \in Nat /\ pipe[1] \in Lines
  BY TailOfPipe, LinesTyped DEF NotifInv, ListenerInv
<1>2. /\ strings' \in Seq(Lines) /\ Len(strings') = Len(strings) + 1 /\ strings' # <<>>
      /\ strings'[Len(strings) + 1] = pipe[1]
      /\ \A i \in 1..Len(strings) : strings'[i] = strings[i]
  BY <1>1
<1>3. Len(strings) \in 0..2
  <2>1. Len(strings') < 4
    OBVIOUS
  <2> DEFINE n == Len(strings)
  <2>2. n \in Nat /\ n + 1 < 4
    BY <1>1, <1>2, <2>1
  <2> HIDE DEF n
  <2>3. n \in 0..2
    BY <2>2
  <2> QED BY <2>3 DEF n
<1>4. /\ strings # <<>> <=> Len(strings) # 0
      /\ strings # <<>> => pipe[1].n = strings[1].n
      /\ pipe[1].n \in plain => pipe[1].kind = Told[Len(strings) + 2]
  <2>1. Awaited(pipe[1])
    BY DEF NotifInv, ListenerInv
  <2>2. strings # <<>> <=> Len(strings) # 0
    BY <1>1, LinesTyped
  <2> QED BY <2>1, <2>2 DEF Awaited
<1>5. strings'[1].n = pipe[1].n
  <2>1. CASE Len(strings) = 0
    BY <1>2, <2>1
  <2>2. CASE Len(strings) # 0
    <3>1. 1 \in 1..Len(strings)
      BY <1>1, <2>2
    <3> QED BY <1>2, <1>4, <2>2, <3>1
  <2> QED BY <2>1, <2>2
<1>6. inNotify' /\ pipe' # <<>> => Awaited(pipe[1])'
  <2> SUFFICES ASSUME pipe' # <<>>, pipe'[1].kind # "head"
               PROVE  /\ pipe'[1].n = strings'[1].n
                      /\ pipe'[1].n \in plain => pipe'[1].kind = Told[Len(strings') + 2]
    BY DEF Awaited
  <2>1. Follows(pipe[1], pipe'[1]) /\ pipe'[1].n = pipe[1].n
    BY TailOfPipe DEF Follows
  <2>2. CASE Len(strings) = 0
    BY <1>2, <1>4, <1>5, <2>1, <2>2, ToldKinds DEF Follows
  <2>3. CASE Len(strings) = 1
    BY <1>2, <1>4, <1>5, <2>1, <2>3, ToldKinds DEF Follows
  <2>4. CASE Len(strings) = 2
    BY <1>2, <1>4, <1>5, <2>1, <2>4, ToldKinds DEF Follows
  <2> QED BY <1>3, <2>2, <2>3, <2>4
<1>7. \A i \in 1..Len(strings') :
        /\ strings'[i].n = strings'[1].n
        /\ strings'[i].n <= sent'
        /\ strings'[i].n \in plain' => strings'[i].kind = Told[i + 1]
  <2> TAKE i \in 1..Len(strings')
  <2>1. CASE i \in 1..Len(strings)
    <3>1. /\ strings[i].n = strings[1].n /\ strings[i].n <= sent
          /\ strings[i].n \in plain => strings[i].kind = Told[i + 1]
      BY <2>1 DEF NotifInv, ListenerInv
    <3>2. 1 \in 1..Len(strings)
      BY <1>1, <2>1
    <3> QED BY <1>2, <2>1, <3>1, <3>2
  <2>2. CASE i = Len(strings) + 1
    BY <1>2, <1>4, <1>5, <2>2, TailOfPipe
  <2> QED BY <1>1, <1>2, <2>1, <2>2
<1>8. ListenerInv'
  BY <1>2, <1>3, <1>6, <1>7 DEF NotifInv, ListenerInv
<1>9. EntriesInv'
  <2>1. CASE Len(strings) = 0
    <3>1. strings'[1] = pipe[1] /\ (pipe[1].n \in plain => pipe[1].kind # "text")
      BY <1>2, <1>4, <2>1, ToldKinds
    <3> QED BY <1>2, <3>1, ReadKeepsEntries
  <2>2. CASE Len(strings) # 0
    <3>1. strings # <<>> /\ 1 \in 1..Len(strings) /\ strings'[1] = strings[1]
      BY <1>1, <1>2, <1>4, <2>2
    <3> QED BY <1>2, <3>1, ReadKeepsEntries
  <2> QED BY <2>1, <2>2
<1> QED BY <1>8, <1>9, TailKeepsPipe DEF NotifInv

(* An entry goes to the front, and what is over HistoryMax is dropped.     *)
LEMMA EnteredTyped ==
  ASSUME history \in Seq(Entries), NEW e \in Entries
  PROVE  /\ Entered(e) \in Seq(Entries)
         /\ Len(Entered(e)) \in 1..HistoryMax /\ Len(Entered(e)) <= Len(history) + 1
         /\ Entered(e)[1] = e
         /\ \A i \in 2..Len(Entered(e)) : /\ i - 1 \in 1..Len(history)
                                          /\ Entered(e)[i] = history[i - 1]
<1> DEFINE all == <<e>> \o history
           len == IF Len(all) > HistoryMax THEN HistoryMax ELSE Len(all)
<1>1. Len(history) \in Nat /\ HistoryMax \in Nat \ {0}
  BY EntriesTyped, NotificationAssumption
<1>2. /\ all \in Seq(Entries) /\ Len(all) = Len(history) + 1 /\ all[1] = e
      /\ \A i \in 2..Len(all) : i - 1 \in 1..Len(history) /\ all[i] = history[i - 1]
  BY <1>1
<1>3. len \in 1..HistoryMax /\ len <= Len(all) /\ Len(all) \in Nat
  BY <1>1, <1>2
<1> HIDE DEF all, len
<1>4. /\ SubSeq(all, 1, len) \in Seq(Entries) /\ Len(SubSeq(all, 1, len)) = len
      /\ \A i \in 1..len : SubSeq(all, 1, len)[i] = all[i]
  BY <1>1, <1>2, <1>3
<1>5. Entered(e) = SubSeq(all, 1, len)
  BY DEF Entered, all, len
<1> QED BY <1>1, <1>2, <1>3, <1>4, <1>5

LEMMA AppendLast ==
  ASSUME NEW s \in Seq(Lines), NEW line \in Lines
  PROVE  Append(s, line)[Len(s) + 1] = line
  OBVIOUS

LEMMA EntryKeeps ==
  ASSUME NotifInv, pipe # <<>>, pipe[1].kind # "head", pipe' = Tail(pipe),
         inNotify, Len(Append(strings, pipe[1])) >= 4,
         history' = Entered([app     |-> Append(strings, pipe[1])[1],
                             summary |-> Append(strings, pipe[1])[3],
                             body    |-> Append(strings, pipe[1])[4]]),
         inNotify' = FALSE, strings' = <<>>, UNCHANGED <<sent, plain, whole>>
  PROVE  NotifInv'
<1> DEFINE e == [app |-> strings[1], summary |-> strings[3], body |-> pipe[1]]
           m == strings[1].n
<1> USE DEF NotifInv
<1>1. /\ strings \in Seq(Lines) /\ Len(strings) = 3 /\ pipe[1] \in Lines
  <2>1. /\ strings \in Seq(Lines) /\ Len(strings) \in Nat /\ Len(strings) <= 3
        /\ pipe[1] \in Lines
    BY TailOfPipe, LinesTyped DEF ListenerInv
  <2> DEFINE n == Len(strings)
  <2>2. Len(Append(strings, pipe[1])) = n + 1
    BY <2>1
  <2>3. n \in Nat /\ n <= 3 /\ n + 1 >= 4
    BY <2>1, <2>2
  <2> HIDE DEF n
  <2>4. n = 3
    BY <2>3
  <2> QED BY <2>1, <2>4 DEF n
<1>2. history' = Entered(e)
  <2>1. /\ Append(strings, pipe[1])[1] = strings[1]
        /\ Append(strings, pipe[1])[3] = strings[3]
        /\ Append(strings, pipe[1])[4] = pipe[1]
    <3>1. \A i \in 1..3 : Append(strings, pipe[1])[i] = strings[i]
      BY <1>1
    <3>2. Append(strings, pipe[1])[Len(strings) + 1] = pipe[1]
      BY <1>1, AppendLast
    <3>3. Len(strings) + 1 = 4
      BY <1>1
    <3> QED BY <3>1, <3>2, <3>3
  <2> QED BY <2>1
<1>3. strings # <<>> /\ m \in Nat /\ m <= sent /\ pipe[1].n = m
  <2>1. strings # <<>> /\ 1 \in 1..Len(strings) /\ m \in Nat /\ m <= sent
    BY <1>1, LinesTyped DEF ListenerInv
  <2>2. Awaited(pipe[1])
    BY DEF ListenerInv
  <2> QED BY <2>1, <2>2 DEF Awaited
<1>4. /\ e \in Entries /\ e.app.n = m /\ e.summary.n = m /\ e.body.n = m
      /\ m \in plain =>
           e.app.kind = "app" /\ e.summary.kind = "summary" /\ e.body.kind = "body"
  <2>1. 1 \in 1..Len(strings) /\ 3 \in 1..Len(strings)
    BY <1>1
  <2>2. strings[1] \in Lines /\ strings[3] \in Lines /\ strings[3].n = m
    BY <1>1, <2>1, LinesTyped DEF ListenerInv
  <2>3. m \in plain => strings[1].kind = Told[1 + 1] /\ strings[3].kind = Told[3 + 1]
    BY <2>1, <2>2 DEF ListenerInv
  <2>4. m \in plain => pipe[1].kind = Told[5]
    <3>1. Awaited(pipe[1])
      BY DEF ListenerInv
    <3>2. Len(strings) + 2 = 5
      BY <1>1
    <3> QED BY <1>3, <3>1, <3>2 DEF Awaited
  <2> QED BY <1>1, <1>3, <2>2, <2>3, <2>4, ToldKinds DEF Entries
<1>5. ASSUME NEW i \in 1..Len(history)
      PROVE  /\ history[i].app.n <= m /\ history[i].app.n \in Nat
             /\ m \in plain => history[i].app.n < m
  <2>1. history[i].app.n \in Nat
    BY EntriesTyped DEF EntriesInv
  <2>2. history[i].app.n <= m /\ Over(history[i].app.n)
    BY <1>3 DEF EntriesInv
  <2>3. m \in plain => history[i].app.n # m
    BY <1>3, <2>2 DEF Over
  <2> QED BY <1>3, <2>1, <2>2, <2>3
<1>6. history \in Seq(Entries) /\ DOMAIN history = 1..Len(history)
  BY EntriesTyped DEF EntriesInv
<1> HIDE DEF e, m
<1>7. /\ history' \in Seq(Entries) /\ Len(history') \in 1..HistoryMax
      /\ history'[1] = e /\ DOMAIN history' = 1..Len(history')
      /\ \A i \in 2..Len(history') : i - 1 \in 1..Len(history) /\ history'[i] = history[i - 1]
  <2>1. e \in Entries /\ history' \in Seq(Entries)
    BY <1>2, <1>4, <1>6, EnteredTyped
  <2>2. DOMAIN history' = 1..Len(history')
    BY <2>1, EntriesTyped
  <2>3. /\ Len(history') \in 1..HistoryMax /\ history'[1] = e
        /\ \A i \in 2..Len(history') : /\ i - 1 \in 1..Len(history)
                                        /\ history'[i] = history[i - 1]
    <3>1. /\ Len(Entered(e)) \in 1..HistoryMax /\ Entered(e)[1] = e
          /\ \A i \in 2..Len(Entered(e)) : /\ i - 1 \in 1..Len(history)
                                           /\ Entered(e)[i] = history[i - 1]
      BY <1>4, <1>6, EnteredTyped
    <3> QED BY <1>2, <3>1
  <2> QED BY <2>1, <2>2, <2>3
<1>8. ASSUME NEW i \in 1..Len(history'), NEW d, d = history'[i]
      PROVE  /\ d.summary.n = d.app.n /\ d.body.n = d.app.n
             /\ d.app.n \in plain =>
                  d.app.kind = "app" /\ d.summary.kind = "summary" /\ d.body.kind = "body"
             /\ d.app.n \in Nat /\ d.app.n <= m
  <2>1. CASE i = 1
    BY <1>3, <1>4, <1>7, <1>8, <2>1
  <2>2. CASE i \in 2..Len(history')
    <3>1. i - 1 \in 1..Len(history) /\ d = history[i - 1]
      BY <1>7, <1>8, <2>2
    <3> QED BY <1>5, <1>6, <3>1 DEF EntriesInv, HistoryTrue
  <2> QED BY <1>7, <2>1, <2>2
<1>9. ASSUME NEW i \in 1..Len(history'), NEW j \in 1..Len(history'), i < j
      PROVE  IF history'[i].app.n \in plain THEN history'[j].app.n < history'[i].app.n
                                            ELSE history'[j].app.n <= history'[i].app.n
  <2>1. Len(history') \in Nat /\ j \in 2..Len(history')
    BY <1>7, <1>9
  <2>2. j - 1 \in 1..Len(history) /\ history'[j] = history[j - 1]
    BY <1>7, <2>1
  <2>3. CASE i = 1
    BY <1>4, <1>5, <1>7, <2>2, <2>3
  <2>4. CASE i # 1
    <3>1. i \in 2..Len(history')
      BY <1>9, <2>1, <2>4
    <3>2. i - 1 \in 1..Len(history) /\ history'[i] = history[i - 1]
      BY <1>7, <3>1
    <3>3. i - 1 < j - 1
      BY <1>9, <2>1
    <3> QED BY <1>6, <2>2, <3>2, <3>3 DEF EntriesInv, HistoryTrue
  <2> QED BY <2>3, <2>4
<1>10. HistoryTrue'
  <2>1. Len(history') <= HistoryMax
    BY <1>7, NotificationAssumption
  <2>2. ASSUME NEW i \in DOMAIN history', NEW d, d = history'[i]
        PROVE  /\ d.summary.n = d.app.n /\ d.body.n = d.app.n
               /\ d.app.n \in plain' =>
                    d.app.kind = "app" /\ d.summary.kind = "summary" /\ d.body.kind = "body"
               /\ \A j \in DOMAIN history' : i < j =>
                    IF d.app.n \in plain' THEN history'[j].app.n < d.app.n
                                          ELSE history'[j].app.n <= d.app.n
    <3>1. i \in 1..Len(history') /\ DOMAIN history' = 1..Len(history') /\ plain' = plain
      BY <1>7, <2>2 DEF ReadLine
    <3>2. /\ d.summary.n = d.app.n /\ d.body.n = d.app.n
          /\ d.app.n \in plain =>
               d.app.kind = "app" /\ d.summary.kind = "summary" /\ d.body.kind = "body"
      BY <1>8, <2>2, <3>1
    <3>3. ASSUME NEW j \in 1..Len(history'), i < j
          PROVE  IF d.app.n \in plain THEN history'[j].app.n < d.app.n
                                      ELSE history'[j].app.n <= d.app.n
      BY <1>9, <2>2, <3>1, <3>3
    <3> QED BY <3>1, <3>2, <3>3
  <2> QED BY <2>1, <2>2 DEF HistoryTrue
<1>11. ASSUME NEW j \in 1..Len(pipe')
       PROVE  /\ j + 1 \in 1..Len(pipe) /\ pipe'[j] = pipe[j + 1]
              /\ m <= pipe'[j].n /\ pipe'[j].n \in Nat /\ Ends(pipe[1], pipe[j + 1])
  <2>1. 1 \in 1..Len(pipe) /\ j + 1 \in 1..Len(pipe) /\ 1 < j + 1 /\ pipe'[j] = pipe[j + 1]
    BY TailOfPipe
  <2>2. pipe[1].n <= pipe[j + 1].n /\ Ends(pipe[1], pipe[j + 1])
    BY <2>1 DEF PipeInv
  <2>3. pipe[j + 1].n \in Nat
    BY <2>1, LinesTyped DEF PipeInv
  <2> QED BY <1>3, <2>1, <2>2, <2>3
<1>12. ASSUME NEW i \in 1..Len(history'), NEW n, n = history'[i].app.n
       PROVE  /\ n <= sent /\ (\A j \in 1..Len(pipe') : n <= pipe'[j].n)
              /\ Over(n)'
  <2>1. n \in Nat /\ n <= m
    BY <1>8, <1>12
  <2>2. n <= sent /\ (\A j \in 1..Len(pipe') : n <= pipe'[j].n)
    <3>1. sent \in Nat
      BY DEF PipeInv
    <3> QED BY <1>3, <1>11, <2>1, <3>1
  <2>3. Over(n)'
    <3> SUFFICES ASSUME n \in plain, NEW j \in 1..Len(pipe'), pipe'[j].n = n
                 PROVE  pipe'[j].kind = "text"
      BY DEF Over
    <3>1. CASE n = m
      BY <1>3, <1>4, <1>11, <3>1 DEF Ends, e
    <3>2. CASE n # m
      <4>1. i \in 2..Len(history')
        BY <1>4, <1>7, <1>12, <3>2
      <4>2. i - 1 \in 1..Len(history) /\ n = history[i - 1].app.n
        BY <1>7, <1>12, <4>1
      <4>3. Over(n)
        BY <4>2 DEF EntriesInv
      <4> QED BY <1>11, <4>3 DEF Over
    <3> QED BY <3>1, <3>2
  <2> QED BY <2>2, <2>3
<1>13. EntriesInv'
  BY <1>7, <1>10, <1>12 DEF EntriesInv
<1>14. ListenerInv'
  <2>1. 1..Len(strings') = {} /\ strings' \in Seq(Lines) /\ Len(strings') <= 3
    OBVIOUS
  <2> QED BY <2>1 DEF ListenerInv
<1> QED BY <1>13, <1>14, TailKeepsPipe

(* What the listener does with the line it reads.                          *)
LEMMA LineKeeps == ASSUME NotifInv, ReadLine PROVE NotifInv'
<1> USE DEF ReadLine
<1>1. pipe # <<>> /\ Head(pipe) = pipe[1]
  BY TailOfPipe
<1>2. /\ pipe' = Tail(pipe) /\ UNCHANGED <<sent, plain, whole>>
  OBVIOUS
<1>3. CASE pipe[1].kind = "head"
  <2>1. inNotify' = TRUE /\ strings' = <<>> /\ UNCHANGED history
    BY <1>1, <1>3
  <2> QED BY <1>1, <1>2, <1>3, <2>1, HeadKeeps
<1>4. CASE pipe[1].kind # "head" /\ ~inNotify
  <2>1. UNCHANGED <<inNotify, strings, history>>
    BY <1>1, <1>4
  <2> QED BY <1>1, <1>2, <1>4, <2>1, SkipKeeps
<1>5. CASE pipe[1].kind # "head" /\ inNotify
  <2> DEFINE got == Append(strings, pipe[1])
  <2>1. CASE Len(got) < 4
    <3>1. strings' = got /\ UNCHANGED <<inNotify, history>>
      BY <1>1, <1>5, <2>1
    <3>2. Len(strings') < 4
      BY <2>1, <3>1
    <3> QED BY <1>1, <1>2, <1>5, <3>1, <3>2, StringKeeps
  <2>2. CASE ~(Len(got) < 4)
    <3>1. /\ history' = Entered([app |-> got[1], summary |-> got[3], body |-> got[4]])
          /\ inNotify' = FALSE /\ strings' = <<>>
      BY <1>1, <1>5, <2>2
    <3>2. Len(got) >= 4
      <4>1. Len(got) \in Nat
        BY <1>1, TailOfPipe DEF NotifInv, ListenerInv
      <4> QED BY <2>2, <4>1
    <3> QED BY <1>1, <1>2, <1>5, <3>1, <3>2, EntryKeeps
  <2> QED BY <2>1, <2>2
<1> QED BY <1>3, <1>4, <1>5

(* Reading fails and what was in the pipe is gone.                         *)
LEMMA FailKeeps ==
  ASSUME NotifInv, pipe' = <<>>, UNCHANGED <<sent, inNotify, strings, history, plain, whole>>
  PROVE  NotifInv'
<1> USE DEF NotifInv
<1>0. 1..Len(pipe') = {} /\ 1..(Len(pipe') - 1) = {} /\ pipe' \in Seq(Lines)
  OBVIOUS
<1>1. PipeInv'
  BY <1>0 DEF PipeInv
<1>2. ListenerInv'
  BY DEF ListenerInv
<1>3. EntriesInv'
  BY <1>0 DEF EntriesInv, HistoryTrue, Over
<1> QED BY <1>1, <1>2, <1>3

(* dbus-monitor is started again, or the history is cleared.               *)
LEMMA StartKeeps ==
  ASSUME NotifInv, pipe = <<>>, strings' = <<>>, inNotify' = FALSE,
         UNCHANGED <<sent, pipe, history, plain, whole>>
  PROVE  NotifInv'
<1> USE DEF NotifInv
<1>1. PipeInv'
  BY DEF PipeInv, Follows, Ends
<1>2. ListenerInv'
  <2>1. 1..Len(strings') = {} /\ strings' \in Seq(Lines) /\ Len(strings') <= 3
    OBVIOUS
  <2> QED BY <2>1 DEF ListenerInv
<1>3. EntriesInv'
  BY DEF EntriesInv, HistoryTrue, Over
<1> QED BY <1>1, <1>2, <1>3

LEMMA ClearKeeps ==
  ASSUME NotifInv, history' = <<>>, UNCHANGED <<sent, pipe, inNotify, strings, plain, whole>>
  PROVE  NotifInv'
<1> USE DEF NotifInv
<1>1. PipeInv'
  BY DEF PipeInv, Follows, Ends
<1>2. ListenerInv'
  BY DEF ListenerInv, Awaited
<1>3. EntriesInv'
  <2>1. 1..Len(history') = {} /\ DOMAIN history' = {} /\ history' \in Seq(Entries)
    OBVIOUS
  <2>2. Len(history') <= HistoryMax
    BY NotificationAssumption
  <2> QED BY <2>1, <2>2 DEF EntriesInv, HistoryTrue
<1> QED BY <1>1, <1>2, <1>3

(* The steps of the listener keep the invariant.                           *)
LEMMA NotifSteps == ASSUME NotifInv, NotifNext PROVE NotifInv'
<1>0. sent \in Nat /\ sent + 1 \notin plain /\ whole \subseteq plain
  <2>1. sent \in Nat /\ whole \subseteq plain /\ \A n \in plain : n \in Nat /\ n <= sent
    BY DEF NotifInv, PipeInv
  <2> QED BY <2>1
<1>1. ASSUME NEW p \in Printings, Notify(p)
      PROVE  NotifInv'
  <2> DEFINE q == Printed(p, sent + 1)
  <2>1. /\ pipe' = pipe \o q /\ sent' = sent + 1
        /\ plain' = IF Plain(p) THEN plain \cup {sent + 1} ELSE plain
        /\ whole' = IF Plain(p) THEN whole \cup {sent + 1} ELSE whole
        /\ UNCHANGED <<inNotify, strings, history>>
    BY <1>1 DEF Notify
  <2>2. sent + 1 \in plain' => Plain(p)
    BY <1>0, <2>1
  <2>3. Prints(q)
    BY <1>0, <2>2, PrintedPrints
  <2>4. plain \subseteq plain' /\ plain' \subseteq plain \cup {sent + 1} /\ whole' \subseteq plain'
    BY <1>0, <2>1
  <2> HIDE DEF q
  <2> QED BY <2>1, <2>3, <2>4, PrintKeeps
<1>2. CASE MonitorEnds
  <2>1. CASE UNCHANGED <<sent, pipe, plain>>
    <3>1. UNCHANGED <<sent, pipe, plain, inNotify, strings, history, whole>>
      BY <1>2, <2>1 DEF MonitorEnds
    <3>2. PipeInv'
      BY <3>1 DEF NotifInv, PipeInv, Follows, Ends
    <3>3. ListenerInv'
      BY <3>1 DEF NotifInv, ListenerInv, Awaited
    <3>4. EntriesInv'
      BY <3>1 DEF NotifInv, EntriesInv, HistoryTrue, Over
    <3> QED BY <3>2, <3>3, <3>4 DEF NotifInv
  <2>2. CASE /\ sent' = sent + 1
             /\ \E p \in Printings : \E k \in 1..(Len(p) - 1) :
                  /\ pipe' = pipe \o SubSeq(Printed(p, sent'), 1, k)
                  /\ plain' = IF Plain(p) THEN plain \cup {sent'} ELSE plain
    <3>0. PICK p \in Printings : \E k \in 1..(Len(p) - 1) :
            /\ pipe' = pipe \o SubSeq(Printed(p, sent + 1), 1, k)
            /\ plain' = IF Plain(p) THEN plain \cup {sent + 1} ELSE plain
      BY <2>2
    <3>1. PICK k \in 1..(Len(p) - 1) :
            /\ pipe' = pipe \o SubSeq(Printed(p, sent + 1), 1, k)
            /\ plain' = IF Plain(p) THEN plain \cup {sent + 1} ELSE plain
      BY <3>0
    <3>2. UNCHANGED <<inNotify, strings, history, whole>>
      BY <1>2 DEF MonitorEnds
    <3> DEFINE all == Printed(p, sent + 1)
               q   == SubSeq(all, 1, k)
    <3>3. sent + 1 \in plain' => Plain(p)
      BY <1>0, <3>1
    <3>4. Prints(all) /\ Len(all) = Len(p) /\ Len(p) \in Nat \ {0}
      BY <1>0, <3>3, PrintedPrints
    <3> HIDE DEF all
    <3>5. Prints(q)
      <4>1. k \in 1..Len(all)
        BY <3>4
      <4> QED BY <1>0, <3>4, <4>1, PrefixPrints
    <3>6. /\ pipe' = pipe \o q /\ plain \subseteq plain'
          /\ plain' \subseteq plain \cup {sent + 1} /\ whole' \subseteq plain'
      BY <1>0, <3>1, <3>2 DEF all
    <3> HIDE DEF q
    <3> QED BY <2>2, <3>2, <3>5, <3>6, PrintKeeps
  <2> QED BY <1>2, <2>1, <2>2 DEF MonitorEnds
<1>3. CASE ReadFails
  BY <1>3, FailKeeps DEF ReadFails
<1>4. CASE ReadLine
  BY <1>4, LineKeeps
<1>5. CASE StartMonitor
  BY <1>5, StartKeeps DEF StartMonitor
<1>6. CASE ClearHistory
  BY <1>6, ClearKeeps DEF ClearHistory
<1> QED BY <1>1, <1>2, <1>3, <1>4, <1>5, <1>6 DEF NotifNext

(* The history shows notifications as they were printed, bounded and the   *)
(* newest first: strings never shift from one notification to the next,    *)
(* and those of one whose strings all match are its own app, summary, body.*)
THEOREM HistoryIsTrue == DaemonsSpec => []HistoryTrue
<1>1. DaemonsInit => NotifInv
  BY NotifStarts DEF DaemonsInit
<1>2. NotifInv /\ [DaemonsNext]_daemonVars => NotifInv'
  BY NotifWaits, NotifSteps DEF DaemonsNext, daemonVars, Listener, Shell
<1>3. NotifInv => HistoryTrue
  BY DEF NotifInv, EntriesInv
<1> QED BY <1>1, <1>2, <1>3, PTL DEF DaemonsSpec

-----------------------------------------------------------------------------
(* From line i on the pipe holds the lines of notification n from its m-th *)
(* to its body.                                                            *)
Comes(i, m, n) ==
  /\ i + 5 - m <= Len(pipe)
  /\ \A k \in m..5 : pipe[i + k - m] = Line(Told[k], n)

(* A notification is entered or lost, or in the pipe, or being read: the   *)
(* listener has its first strings and finds the others next.               *)
Awaits(n) ==
  \/ n \in heard \cup lost
  \/ \E i \in 1..Len(pipe) : Comes(i, 1, n)
  \/ inNotify /\ \E m \in 2..5 : /\ Len(strings) = m - 2 /\ Comes(1, m, n)
                                 /\ m > 2 => strings[1].n = n

(* Nothing else happens to what is printed in full and matches.            *)
NothingLost == \A n \in whole : Awaits(n)

(* More is printed.                                                        *)
LEMMA ComesBefore ==
  ASSUME pipe \in Seq(Lines), NEW p \in Seq(Lines), pipe' = pipe \o p,
         NEW i \in Nat \ {0}, NEW m \in 1..5, NEW n, Comes(i, m, n)
  PROVE  Comes(i, m, n)'
<1>1. /\ Len(pipe) \in Nat /\ Len(pipe') \in Nat /\ Len(pipe') >= Len(pipe)
      /\ \A j \in 1..Len(pipe) : pipe'[j] = pipe[j]
  OBVIOUS
<1>2. \A k \in m..5 : i + k - m \in 1..Len(pipe)
  BY <1>1 DEF Comes
<1> QED BY <1>1, <1>2 DEF Comes

(* A line is read.                                                         *)
LEMMA ComesNext ==
  ASSUME NotifInv, pipe # <<>>, pipe' = Tail(pipe),
         NEW i \in Nat \ {0}, NEW m \in 1..5, NEW n, Comes(i, m, n)
  PROVE  /\ i > 1 => Comes(i - 1, m, n)' /\ i - 1 \in 1..Len(pipe')
         /\ i = 1 => pipe[1] = Line(Told[m], n) /\ (m < 5 => Comes(1, m + 1, n)')
<1>1. /\ Len(pipe) \in Nat /\ Len(pipe') = Len(pipe) - 1
      /\ \A j \in 1..Len(pipe') : pipe'[j] = pipe[j + 1]
  BY TailOfPipe
<1>2. \A k \in m..5 : i + k - m \in 1..Len(pipe) /\ pipe[i + k - m] = Line(Told[k], n)
  BY <1>1 DEF Comes
<1>3. ASSUME i > 1 PROVE Comes(i - 1, m, n)' /\ i - 1 \in 1..Len(pipe')
  <2>1. (i - 1) + 5 - m <= Len(pipe') /\ i - 1 \in 1..Len(pipe')
    BY <1>1, <1>3 DEF Comes
  <2>2. ASSUME NEW k \in m..5 PROVE pipe'[(i - 1) + k - m] = Line(Told[k], n)
    <3>1. /\ (i - 1) + k - m \in 1..Len(pipe')
          /\ ((i - 1) + k - m) + 1 = i + k - m
      BY <1>1, <1>2, <1>3
    <3> QED BY <1>1, <1>2, <3>1
  <2> QED BY <2>1, <2>2 DEF Comes
<1>4. ASSUME i = 1 PROVE pipe[1] = Line(Told[m], n) /\ (m < 5 => Comes(1, m + 1, n)')
  <2>1. m \in m..5 /\ 1 + m - m = 1
    OBVIOUS
  <2>2. pipe[1] = Line(Told[m], n)
    BY <1>2, <1>4, <2>1
  <2>3. 1 + 5 - (m + 1) <= Len(pipe')
    BY <1>1, <1>4 DEF Comes
  <2>4. ASSUME NEW k \in (m + 1)..5 PROVE pipe'[1 + k - (m + 1)] = Line(Told[k], n)
    <3>1. /\ k \in m..5 /\ 1 + k - (m + 1) \in 1..Len(pipe')
          /\ (1 + k - (m + 1)) + 1 = 1 + k - m
      BY <1>1, <1>2, <1>4, <2>4
    <3> QED BY <1>1, <1>2, <1>4, <3>1
  <2> QED BY <2>2, <2>3, <2>4 DEF Comes
<1> QED BY <1>3, <1>4

LEMMA PrintLoses ==
  ASSUME NotifInv, NEW p \in Seq(Lines), pipe' = pipe \o p,
         UNCHANGED <<inNotify, strings, heard, lost>>, NEW n, Awaits(n)
  PROVE  Awaits(n)'
<1>1. pipe \in Seq(Lines) /\ Len(pipe) \in Nat /\ Len(pipe') \in Nat /\ Len(pipe) <= Len(pipe')
  BY DEF NotifInv, PipeInv
<1>2. ASSUME NEW i \in 1..Len(pipe), Comes(i, 1, n)
      PROVE  i \in 1..Len(pipe') /\ Comes(i, 1, n)'
  BY <1>1, <1>2, ComesBefore
<1>3. ASSUME NEW m \in 2..5, Comes(1, m, n) PROVE Comes(1, m, n)'
  <2>1. m \in 1..5 /\ 1 \in Nat \ {0}
    OBVIOUS
  <2> QED BY <1>1, <1>3, <2>1, ComesBefore
<1> QED BY <1>2, <1>3 DEF Awaits

(* The listener reads a line of n, or one before it.                       *)
LEMMA ReadLoses ==
  ASSUME NotifInv, ReadLine, NEW n, Awaits(n) PROVE Awaits(n)'
<1>1. /\ pipe # <<>> /\ pipe' = Tail(pipe) /\ Head(pipe) = pipe[1]
      /\ heard \subseteq heard' /\ lost' = lost
  BY TailOfPipe DEF ReadLine
<1>2. CASE n \in heard \cup lost
  BY <1>1, <1>2 DEF Awaits
<1>3. ASSUME NEW i \in 1..Len(pipe), Comes(i, 1, n) PROVE Awaits(n)'
  <2>1. i \in Nat \ {0}
    OBVIOUS
  <2>2. CASE i > 1
    BY <1>1, <1>3, <2>1, <2>2, ComesNext DEF Awaits
  <2>3. CASE i = 1
    <3>1. pipe[1] = Line(Told[1], n) /\ Comes(1, 1 + 1, n)'
      BY <1>1, <1>3, <2>1, <2>3, ComesNext
    <3>2. pipe[1].kind = "head"
      BY <3>1, ToldKinds DEF Line
    <3>3. inNotify' = TRUE /\ strings' = <<>>
      BY <1>1, <3>2 DEF ReadLine
    <3> QED BY <3>1, <3>3 DEF Awaits
  <2> QED BY <2>1, <2>2, <2>3
<1>4. ASSUME inNotify, NEW m \in 2..5, Len(strings) = m - 2, Comes(1, m, n),
             m > 2 => strings[1].n = n
      PROVE  Awaits(n)'
  <2>1. pipe[1] = Line(Told[m], n) /\ (m < 5 => Comes(1, m + 1, n)')
    BY <1>1, <1>4, ComesNext
  <2>2. pipe[1].n = n
    BY <2>1 DEF Line
  <2>3. pipe[1].kind # "head"
    BY <2>1, ToldKinds DEF Line
  <2> DEFINE got == Append(strings, pipe[1])
  <2>4. strings \in Seq(Lines) /\ pipe[1] \in Lines
    BY <1>1, TailOfPipe DEF NotifInv, ListenerInv
  <2>5. Len(got) = m - 1 /\ got[1].n = n
    <3>1. CASE m = 2
      <4>1. got[Len(strings) + 1] = pipe[1] /\ Len(strings) + 1 = 1
        BY <1>4, <2>4, <3>1, AppendLast
      <4> QED BY <1>4, <2>2, <2>4, <3>1, <4>1
    <3>2. CASE m > 2
      <4>1. got[1] = strings[1] /\ Len(got) = m - 1
        BY <1>4, <2>4, <3>2
      <4> QED BY <1>4, <3>2, <4>1
    <3> QED BY <3>1, <3>2
  <2> HIDE DEF got
  <2>6. CASE m < 5
    <3>1. Len(got) < 4
      BY <2>5, <2>6
    <3>2. strings' = got /\ inNotify' = inNotify
      BY <1>1, <1>4, <2>3, <3>1 DEF ReadLine, got
    <3>3. m + 1 \in 2..5 /\ Len(strings') = (m + 1) - 2 /\ strings'[1].n = n
      BY <2>5, <2>6, <3>2
    <3> QED BY <1>4, <2>1, <2>6, <3>2, <3>3 DEF Awaits
  <2>7. CASE m = 5
    <3>1. ~(Len(got) < 4)
      BY <2>5, <2>7
    <3>2. heard' = heard \cup {got[1].n}
      BY <1>1, <1>4, <2>3, <3>1 DEF ReadLine, got
    <3> QED BY <2>5, <3>2 DEF Awaits
  <2> QED BY <2>6, <2>7
<1> QED BY <1>2, <1>3, <1>4 DEF Awaits

(* A notification is printed, and the others stay.                         *)
LEMMA NotifyLoses ==
  ASSUME NotifInv, NothingLost, NEW p \in Printings, Notify(p)
  PROVE  NothingLost'
<1> DEFINE q == Printed(p, sent + 1)
<1>1. /\ pipe' = pipe \o q /\ UNCHANGED <<inNotify, strings, heard, lost>>
      /\ plain' = IF Plain(p) THEN plain \cup {sent + 1} ELSE plain
      /\ whole' = IF Plain(p) THEN whole \cup {sent + 1} ELSE whole
  BY DEF Notify
<1>2. sent \in Nat /\ pipe \in Seq(Lines) /\ sent + 1 \notin plain
  <2>1. sent \in Nat /\ pipe \in Seq(Lines) /\ \A n \in plain : n \in Nat /\ n <= sent
    BY DEF NotifInv, PipeInv
  <2> QED BY <2>1
<1>3. /\ q \in Seq(Lines) /\ Len(q) = Len(p) /\ Len(p) \in Nat
      /\ \A i \in 1..Len(p) : q[i] = Line(p[i], sent + 1)
  <2>1. sent + 1 \in plain' => Plain(p)
    BY <1>1, <1>2
  <2>2. /\ Prints(q) /\ Len(q) = Len(p) /\ Len(p) \in Nat
        /\ \A i \in 1..Len(p) : q[i] = Line(p[i], sent + 1)
    BY <1>2, <2>1, PrintedPrints
  <2> HIDE DEF q
  <2> QED BY <2>2 DEF Prints
<1> HIDE DEF q
<1>4. \A n : Awaits(n) => Awaits(n)'
  BY <1>1, <1>3, PrintLoses
<1>5. ASSUME Plain(p), NEW n, n = sent + 1 PROVE Awaits(n)'
  <2>1. PICK i \in Nat : i = Len(pipe) + 1
    BY <1>2
  <2>2. /\ Len(pipe) \in Nat /\ Len(pipe') = Len(pipe) + Len(q)
        /\ \A j \in 1..Len(q) : pipe'[Len(pipe) + j] = q[j]
    <3>1. pipe' = pipe \o q /\ pipe \in Seq(Lines) /\ q \in Seq(Lines)
      BY <1>1, <1>2, <1>3
    <3> QED BY <3>1
  <2>3. i + 5 - 1 <= Len(pipe') /\ i \in 1..Len(pipe')
    BY <1>3, <1>5, <2>1, <2>2 DEF Plain
  <2>4. ASSUME NEW k \in 1..5 PROVE pipe'[i + k - 1] = Line(Told[k], n)
    <3>1. k \in 1..Len(p) /\ p[k] = Told[k]
      BY <1>3, <1>5 DEF Plain
    <3>2. i + k - 1 = Len(pipe) + k /\ k \in 1..Len(q)
      BY <1>3, <2>1, <2>2, <3>1
    <3> QED BY <1>3, <1>5, <2>2, <3>1, <3>2
  <2>5. Comes(i, 1, n)'
    BY <2>3, <2>4 DEF Comes
  <2> QED BY <2>3, <2>5 DEF Awaits
<1>6. ASSUME NEW n \in whole' PROVE Awaits(n)'
  <2>1. CASE n \in whole
    BY <1>4, <2>1 DEF NothingLost
  <2>2. CASE n \notin whole
    BY <1>1, <1>5, <1>6, <2>2
  <2> QED BY <2>1, <2>2
<1> QED BY <1>6 DEF NothingLost

LEMMA NothingLoses == ASSUME NotifInv, NothingLost, NotifNext PROVE NothingLost'
<1>1. CASE MonitorEnds
  <2>1. UNCHANGED <<inNotify, strings, heard, lost, whole>>
    BY <1>1 DEF MonitorEnds
  <2>2. CASE UNCHANGED pipe
    BY <2>1, <2>2 DEF NothingLost, Awaits, Comes
  <2>3. CASE /\ sent' = sent + 1
             /\ \E p \in Printings : \E k \in 1..(Len(p) - 1) :
                  /\ pipe' = pipe \o SubSeq(Printed(p, sent'), 1, k)
                  /\ plain' = IF Plain(p) THEN plain \cup {sent'} ELSE plain
    <3>0. PICK p \in Printings : \E k \in 1..(Len(p) - 1) :
            /\ pipe' = pipe \o SubSeq(Printed(p, sent + 1), 1, k)
            /\ plain' = IF Plain(p) THEN plain \cup {sent + 1} ELSE plain
      BY <2>3
    <3>1. PICK k \in 1..(Len(p) - 1) :
            /\ pipe' = pipe \o SubSeq(Printed(p, sent + 1), 1, k)
            /\ plain' = IF Plain(p) THEN plain \cup {sent + 1} ELSE plain
      BY <3>0
    <3> DEFINE all == Printed(p, sent + 1)
    <3>2. sent \in Nat /\ sent + 1 \notin plain
      <4>1. sent \in Nat /\ \A n \in plain : n \in Nat /\ n <= sent
        BY DEF NotifInv, PipeInv
      <4> QED BY <4>1
    <3>3. Prints(all) /\ Len(all) = Len(p) /\ Len(p) \in Nat
      <4>1. sent + 1 \in plain' => Plain(p)
        BY <3>1, <3>2
      <4> QED BY <3>2, <4>1, PrintedPrints
    <3> HIDE DEF all
    <3>4. SubSeq(all, 1, k) \in Seq(Lines)
      <4>1. k \in 1..Len(all)
        BY <3>3
      <4>2. Prints(SubSeq(all, 1, k))
        BY <3>2, <3>3, <4>1, PrefixPrints
      <4> QED BY <4>2 DEF Prints
    <3>5. pipe' = pipe \o SubSeq(all, 1, k)
      BY <3>1 DEF all
    <3> QED BY <2>1, <3>4, <3>5, PrintLoses DEF NothingLost
  <2> QED BY <1>1, <2>2, <2>3 DEF MonitorEnds
<1>2. CASE ReadFails
  <2>1. /\ UNCHANGED <<heard, whole>> /\ lost' = lost \cup {pipe[i].n : i \in 1..Len(pipe)}
    BY <1>2 DEF ReadFails
  <2>2. ASSUME NEW i \in 1..Len(pipe), NEW m \in 1..5, NEW n, Comes(i, m, n)
        PROVE  n \in lost'
    <3>1. i + m - m = i /\ m \in m..5
      OBVIOUS
    <3>2. pipe[i + m - m] = Line(Told[m], n)
      BY <2>2, <3>1 DEF Comes
    <3>3. pipe[i].n = n
      BY <3>1, <3>2 DEF Line
    <3> QED BY <2>1, <3>3
  <2>3. ASSUME NEW n, Awaits(n) PROVE Awaits(n)'
    <3>1. CASE n \in heard \cup lost
      BY <2>1, <3>1 DEF Awaits
    <3>2. ASSUME NEW i \in 1..Len(pipe), Comes(i, 1, n) PROVE n \in lost'
      BY <2>2, <3>2
    <3>3. ASSUME NEW m \in 2..5, Comes(1, m, n) PROVE n \in lost'
      <4>1. m \in 1..5 /\ 1 \in 1..Len(pipe)
        BY <3>3 DEF Comes, NotifInv, PipeInv
      <4> QED BY <2>2, <3>3, <4>1
    <3> QED BY <2>3, <3>1, <3>2, <3>3 DEF Awaits
  <2> QED BY <2>1, <2>3 DEF NothingLost
<1>3. CASE StartMonitor
  <2>1. pipe = <<>> /\ UNCHANGED <<pipe, heard, lost, whole>>
    BY <1>3 DEF StartMonitor
  <2>2. \A n : Awaits(n) => n \in heard \cup lost
    <3>1. Len(pipe) = 0
      BY <2>1
    <3>2. \A n : \A m \in 2..5 : ~Comes(1, m, n)
      BY <3>1 DEF Comes
    <3> QED BY <3>1, <3>2 DEF Awaits
  <2> QED BY <2>1, <2>2 DEF NothingLost, Awaits
<1>4. CASE ClearHistory
  BY <1>4 DEF ClearHistory, NothingLost, Awaits, Comes
<1>5. CASE ReadLine
  <2>1. UNCHANGED whole
    BY <1>5 DEF ReadLine
  <2> QED BY <1>5, <2>1, ReadLoses DEF NothingLost
<1> QED BY <1>1, <1>2, <1>3, <1>4, <1>5, NotifyLoses DEF NotifNext

(* A notification whose strings all match and that was printed in full is  *)
(* entered, or on its way to be, whatever was cut off before it and        *)
(* whenever dbus-monitor ends, unless reading failed while it was in the   *)
(* pipe: the safety part of Heard.                                         *)
THEOREM NoneIsLost == DaemonsSpec => []NothingLost
<1>1. DaemonsInit => NotifInv /\ NothingLost
  BY NotifStarts DEF DaemonsInit, NotifInit, NothingLost
<1>2. NotifInv /\ NothingLost /\ [DaemonsNext]_daemonVars => (NotifInv /\ NothingLost)'
  <2> SUFFICES ASSUME NotifInv, NothingLost, [DaemonsNext]_daemonVars
               PROVE  NotifInv' /\ NothingLost'
    OBVIOUS
  <2>1. CASE UNCHANGED notifVars
    BY <2>1, NotifWaits DEF notifVars, NothingLost, Awaits, Comes
  <2>2. CASE NotifNext
    BY <2>2, NotifSteps, NothingLoses
  <2> QED BY <2>1, <2>2 DEF DaemonsNext, daemonVars, Listener, Shell
<1> QED BY <1>1, <1>2, PTL DEF DaemonsSpec

-----------------------------------------------------------------------------
(* Every child is started with its id kept right after, unless SIGHUP ends *)
(* the shell in between; what cleanup has sent SIGKILL to is gone.         *)
LaunchInv ==
  /\ stage \in {"server", "serverId", "banner", "tunnel", "tunnelId", "connect", "hold",
                "exit", "done"}
  /\ cleaning \in {"no", "term", "kill", "wait"}
  /\ stage = "server" => server = "none"
  /\ stage \in {"server", "serverId", "banner", "tunnel"} => tunnel = "none"
  /\ stage \notin {"server", "serverId", "done"} => "server" \in known
  /\ tunnel # "none" /\ stage \notin {"tunnelId", "done"} => "tunnel" \in known
  /\ cleaning = "wait" => /\ "server" \in known => server # "up"
                          /\ "tunnel" \in known => tunnel # "up"
  /\ stage = "done" /\ cleaning = "no" => server # "up" /\ tunnel # "up"

(* A child that runs is one the shell knows.                               *)
Tracked == /\ server = "up" => "server" \in known
           /\ tunnel = "up" => "tunnel" \in known

(* The cleanup of a launcher that is at its end has no child to wait for,  *)
(* unless SIGHUP came between the start of a child and the keeping of its  *)
(* id: it does not hang.  When it is over nothing is left in any case.     *)
EndsClean ==
  /\ (stage = "exit" \/ (stage = "done" /\ Tracked)) /\ cleaning = "wait"
       => server # "up" /\ tunnel # "up"
  /\ Finished => server # "up" /\ tunnel # "up"

LEMMA LaunchStarts == LaunchInit => LaunchInv
  BY DEF LaunchInit, LaunchInv

LEMMA LaunchSteps == ASSUME LaunchInv, LaunchNext PROVE LaunchInv'
<1> USE DEF LaunchInv
<1>1. CASE StartServer
  BY <1>1 DEF StartServer, Ready
<1>2. CASE AwaitBanner
  BY <1>2 DEF AwaitBanner, Ready
<1>3. CASE StartTunnel
  BY <1>3 DEF StartTunnel, Ready
<1>4. CASE WaitReturns
  BY <1>4 DEF WaitReturns, Ready
<1>5. CASE Trap
  BY <1>5 DEF Trap, Finished
<1>6. CASE ExitTrap
  BY <1>6 DEF ExitTrap
<1>7. CASE Cleanup
  BY <1>7 DEF Cleanup
<1>8. CASE SendSignal \/ ServerKill \/ ServerSignals
  BY <1>8 DEF SendSignal, ServerKill, ServerSignals
<1>9. CASE ServerLeaves \/ ProcessEnds
  BY <1>9 DEF ServerLeaves, ProcessEnds
<1>10. CASE HangUp
  BY <1>10 DEF HangUp
<1> QED BY <1>1, <1>2, <1>3, <1>4, <1>5, <1>6, <1>7, <1>8, <1>9, <1>10 DEF LaunchNext

(* A launcher at its end leaves neither server nor tunnel behind, whenever *)
(* signals came and processes ended: the safety part of HoldStops.         *)
THEOREM LauncherEndsClean == DaemonsSpec => []EndsClean
<1>1. DaemonsInit => LaunchInv
  BY LaunchStarts DEF DaemonsInit
<1>2. LaunchInv /\ [DaemonsNext]_daemonVars => LaunchInv'
  <2> SUFFICES ASSUME LaunchInv, [DaemonsNext]_daemonVars PROVE LaunchInv'
    OBVIOUS
  <2>1. CASE UNCHANGED launchVars
    BY <2>1 DEF LaunchInv, launchVars
  <2>2. CASE LaunchNext
    BY <2>2, LaunchSteps
  <2> QED BY <2>1, <2>2 DEF DaemonsNext, daemonVars, Listener, Shell
<1>3. LaunchInv => EndsClean
  BY DEF LaunchInv, EndsClean, Tracked, Finished
<1> QED BY <1>1, <1>2, <1>3, PTL DEF DaemonsSpec
=============================================================================
