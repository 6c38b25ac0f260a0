--------------------------- MODULE PasskeysProofs ---------------------------
(***************************************************************************)
(* For any number of request threads, credentials, challenges and crashes: *)
(* the races between the passkey handlers cannot exceed the quota, invent  *)
(* uses, or add a credential that was not registered; and while there is   *)
(* no race the file is an atomic store that forgets what was deleted.      *)
(***************************************************************************)
EXTENDS PasskeysAlone, FiniteSetTheorems, TLAPS

(* The types as sets that are named once, which TLC cannot enumerate.      *)
PasskeyLists == UNION {[ids -> Nat] : ids \in SUBSET Creds}
AllFiles     == Files(PasskeyLists)
AllHandlers  == Handlers(PasskeyLists)

Types ==
  /\ file \in AllFiles
  /\ challenges \in [Tokens -> {"free", "register", "auth"}]
  /\ h \in [Threads -> AllHandlers]
  /\ \A t \in Threads : AtWork(h[t])
  /\ status \in [Creds -> Statuses]
  /\ signins \in [Creds -> Nat]
  /\ crashes \in 0..MaxCrashes

(* A handler that is about to add a credential has verified it.            *)
RegistersVerified ==
  \A t \in Threads : h[t].op = "register" => status[h[t].cred] # "new"

IInv == Types /\ RegistersVerified /\ QuotaRespected /\ NeverOvercounted

\* What every list in the file or in a handler satisfies, given the number
\* of sign-ins and the status of each credential.
Sound(keys, ins, st) ==
  /\ keys \in PasskeyLists
  /\ Count(keys) <= MaxPasskeys
  /\ \A c \in DOMAIN keys : keys[c] <= ins[c] /\ st[c] # "new"

-----------------------------------------------------------------------------
(* The lists, without the union of sets of functions.                      *)
LEMMA ListType ==
  ASSUME NEW keys
  PROVE  /\ keys \in PasskeyLists <=>
              DOMAIN keys \subseteq Creds /\ keys \in [DOMAIN keys -> Nat]
         /\ keys \in PasskeyLists => IsFiniteSet(DOMAIN keys) /\ Count(keys) \in Nat
<1>1. keys \in PasskeyLists <=>
        DOMAIN keys \subseteq Creds /\ keys \in [DOMAIN keys -> Nat]
  BY DEF PasskeyLists
<1> QED BY <1>1, CredsFinite, FS_Subset, FS_CardinalityType DEF Count

(* The empty list is sound, and so are the edits that the handlers make.   *)
LEMMA EmptySound == \A ins, st : Sound(NoPasskeys, ins, st)
<1>1. NoPasskeys \in PasskeyLists /\ DOMAIN NoPasskeys = {}
  BY ListType DEF NoPasskeys
<1> QED BY <1>1, FS_EmptySet, QuotaAssumption DEF Sound, Count

LEMMA WithoutSound ==
  ASSUME NEW ins, NEW st, NEW keys, Sound(keys, ins, st), NEW c
  PROVE  Sound(Without(keys, c), ins, st)
<1>1. DOMAIN Without(keys, c) \subseteq DOMAIN keys
  BY DEF Without
<1>2. IsFiniteSet(DOMAIN keys) /\ Count(keys) \in Nat
  BY ListType DEF Sound
<1>3. Count(Without(keys, c)) <= Count(keys) /\ Count(Without(keys, c)) \in Nat
  BY <1>1, <1>2, FS_Subset, FS_CardinalityType DEF Count
<1>4. Without(keys, c) \in PasskeyLists
  BY ListType DEF Sound, Without
<1> QED BY <1>2, <1>3, <1>4, QuotaAssumption DEF Sound, Without

LEMMA WithSound ==
  ASSUME NEW ins \in [Creds -> Nat], NEW st, NEW keys, Sound(keys, ins, st),
         Count(keys) < MaxPasskeys, NEW c \in Creds, st[c] # "new"
  PROVE  Sound(With(keys, c), ins, st)
<1>1. DOMAIN With(keys, c) = DOMAIN keys \cup {c}
  BY DEF With
<1>2. IsFiniteSet(DOMAIN keys) /\ Count(keys) \in Nat
  BY ListType DEF Sound
<1>3. Cardinality(DOMAIN keys \cup {c}) =
        IF c \in DOMAIN keys THEN Count(keys) ELSE Count(keys) + 1
  BY <1>2, FS_AddElement DEF Count
<1>4. Count(With(keys, c)) <= MaxPasskeys
  BY <1>1, <1>2, <1>3, QuotaAssumption DEF Count
<1>5. With(keys, c) \in PasskeyLists
  BY ListType DEF Sound, With
<1>6. \A x \in DOMAIN With(keys, c) : With(keys, c)[x] <= ins[x] /\ st[x] # "new"
  BY DEF Sound, With
<1> QED BY <1>4, <1>5, <1>6 DEF Sound

LEMMA UsedSound ==
  ASSUME NEW ins \in [Creds -> Nat], NEW st, NEW keys, Sound(keys, ins, st),
         NEW c \in DOMAIN keys
  PROVE  Sound(Used(keys, c), [ins EXCEPT ![c] = @ + 1], st)
<1>1. c \in Creds /\ DOMAIN Used(keys, c) = DOMAIN keys
  BY ListType DEF Sound, Used
<1>2. Used(keys, c) \in PasskeyLists
  BY ListType DEF Sound, Used
<1>3. ASSUME NEW x \in DOMAIN keys
      PROVE  Used(keys, c)[x] <= [ins EXCEPT ![c] = @ + 1][x]
  <2>1. x \in Creds /\ keys[x] \in Nat /\ ins[x] \in Nat /\ keys[x] <= ins[x]
    BY ListType DEF Sound
  <2> QED BY <1>1, <2>1 DEF Used
<1> QED BY <1>1, <1>2, <1>3 DEF Sound, Count

(* More sign-ins, and credentials that are known stay known.               *)
Grows(ins, st, ins2, st2) ==
  /\ ins2 \in [Creds -> Nat] /\ st2 \in [Creds -> Statuses]
  /\ \A c \in Creds : ins[c] <= ins2[c] /\ (st[c] # "new" => st2[c] # "new")

LEMMA StaysSound ==
  ASSUME NEW ins \in [Creds -> Nat], NEW st, NEW keys, Sound(keys, ins, st),
         NEW ins2, NEW st2, Grows(ins, st, ins2, st2)
  PROVE  Sound(keys, ins2, st2)
BY ListType DEF Sound, Grows

(* The invariant in the form the steps use.                                *)
SoundInv ==
  /\ Sound(Load, signins, status)
  /\ \A t \in Threads : Sound(h[t].keys, signins, status)

LEMMA InvIsSound == Types => (QuotaRespected /\ NeverOvercounted <=> SoundInv)
<1> SUFFICES ASSUME Types PROVE QuotaRespected /\ NeverOvercounted <=> SoundInv
  OBVIOUS
<1>1. Load \in PasskeyLists
  BY EmptySound DEF Types, AllFiles, Files, Load, Sound
<1>2. \A t \in Threads : h[t].keys \in PasskeyLists
  BY DEF Types, AllHandlers, Handlers
<1> QED BY <1>1, <1>2 DEF QuotaRespected, NeverOvercounted, SoundInv, Sound, Lists

-----------------------------------------------------------------------------
LEMMA IdleType ==
  /\ Idle \in AllHandlers /\ AtWork(Idle)
  /\ Idle.op = "none" /\ Idle.keys = NoPasskeys
<1>1. NoPasskeys \in PasskeyLists
  BY EmptySound DEF Sound
<1> QED BY <1>1 DEF AllHandlers, Handlers, AtWork, Idle, Statuses

LEMMA InitIInv == Init => IInv
<1> SUFFICES ASSUME Init PROVE IInv
  OBVIOUS
<1>1. NoPasskeys \in PasskeyLists
  BY EmptySound DEF Sound
<1>2. Types
  BY <1>1, IdleType, BoundAssumption DEF Init, Types, AllFiles, Files, Statuses
<1>3. RegistersVerified
  BY IdleType DEF Init, RegistersVerified
<1>4. Load = NoPasskeys /\ \A t \in Threads : h[t].keys = NoPasskeys
  BY DEF Init, Load, Idle
<1>5. SoundInv
  BY <1>4, EmptySound DEF SoundInv
<1> QED BY <1>2, <1>3, <1>5, InvIsSound DEF IInv

(* A step that replaces the handler of one thread by r, leaves a sound     *)
(* list in the file, and at most counts a sign-in or tells a client about  *)
(* a registered credential.                                                *)
StepOf(t, r) ==
  /\ h' = [h EXCEPT ![t] = r] /\ r \in AllHandlers /\ AtWork(r)
  /\ Sound(r.keys, signins', status')
  /\ r.op = "register" => status'[r.cred] # "new"
  /\ file' \in AllFiles /\ Sound(Load', signins', status')
  /\ challenges' \in [Tokens -> {"free", "register", "auth"}]
  /\ Grows(signins, status, signins', status')
  /\ crashes' = crashes

LEMMA HandlerStep ==
  ASSUME IInv, NEW t \in Threads, NEW r, StepOf(t, r)
  PROVE  IInv'
<1> USE DEF StepOf
<1>1. SoundInv /\ signins \in [Creds -> Nat]
  BY InvIsSound DEF IInv, Types
<1>2. h'[t] = r /\ \A u \in Threads \ {t} : h'[u] = h[u]
  BY DEF IInv, Types
<1>3. Types'
  BY <1>2 DEF IInv, Types, Grows
<1>4. RegistersVerified'
  <2>1. ASSUME NEW u \in Threads, h'[u].op = "register"
        PROVE  status'[h'[u].cred] # "new"
    <3>1. CASE u = t
      BY <2>1, <3>1, <1>2
    <3>2. CASE u # t
      <4>1. h'[u] = h[u] /\ status[h[u].cred] # "new"
        BY <2>1, <3>2, <1>2 DEF IInv, RegistersVerified
      <4>2. h[u].cred \in Creds
        BY <4>1, <2>1 DEF IInv, Types, AtWork
      <4> QED BY <4>1, <4>2 DEF Grows
    <3> QED BY <3>1, <3>2
  <2> QED BY <2>1 DEF RegistersVerified
<1>5. SoundInv'
  <2>1. ASSUME NEW u \in Threads PROVE Sound(h'[u].keys, signins', status')
    <3>1. CASE u = t
      BY <3>1, <1>2
    <3>2. CASE u # t
      <4>1. h'[u] = h[u] /\ Sound(h[u].keys, signins, status)
        BY <3>2, <1>1, <1>2 DEF SoundInv
      <4>2. Sound(h[u].keys, signins', status')
        BY <1>1, <4>1, StaysSound
      <4> QED BY <4>1, <4>2
    <3> QED BY <3>1, <3>2
  <2> QED BY <2>1 DEF SoundInv
<1>6. QuotaRespected' /\ NeverOvercounted'
  <2>1. (Types => (QuotaRespected /\ NeverOvercounted <=> SoundInv))'
    BY InvIsSound, PTL
  <2> QED BY <2>1, <1>3, <1>5
<1> QED BY <1>3, <1>4, <1>6 DEF IInv

(* A step that leaves the file, the handlers and the histories alone.      *)
LEMMA ChallengeStep ==
  ASSUME IInv, challenges' \in [Tokens -> {"free", "register", "auth"}],
         UNCHANGED <<file, h, status, signins, crashes>>
  PROVE  IInv'
BY DEF IInv, Types, RegistersVerified, QuotaRespected, NeverOvercounted, Lists, Load

(* A handler that goes on with another list, or with another step.         *)
LEMMA HandlerEdit ==
  ASSUME NEW r \in AllHandlers, AtWork(r), r.op # "none", NEW keys \in PasskeyLists
  PROVE  LET r2 == [r EXCEPT !.step = "truncate", !.keys = keys]
         IN  r2 \in AllHandlers /\ AtWork(r2) /\ r2.keys = keys /\ r2.op = r.op /\ r2.cred = r.cred
BY DEF AllHandlers, Handlers, AtWork

LEMMA HandlerNext ==
  ASSUME NEW r \in AllHandlers, AtWork(r), r.op # "none", NEW s \in {"write", "saved"}
  PROVE  LET r2 == [r EXCEPT !.step = s]
         IN  r2 \in AllHandlers /\ AtWork(r2) /\ r2.keys = r.keys /\ r2.op = r.op /\ r2.cred = r.cred
BY DEF AllHandlers, Handlers, AtWork

(* What the steps below need of the state before the step.                 *)
LEMMA Before ==
  ASSUME IInv
  PROVE  /\ signins \in [Creds -> Nat] /\ status \in [Creds -> Statuses]
         /\ challenges \in [Tokens -> {"free", "register", "auth"}]
         /\ file \in AllFiles /\ h \in [Threads -> AllHandlers]
         /\ Sound(Load, signins, status)
         /\ \A t \in Threads : AtWork(h[t]) /\ Sound(h[t].keys, signins, status)
         /\ Grows(signins, status, signins, status)
BY InvIsSound DEF IInv, Types, SoundInv, Grows

(* The invariant is inductive.                                             *)
LEMMA NextIInv == IInv /\ [Next]_vars => IInv'
<1> SUFFICES ASSUME IInv, [Next]_vars PROVE IInv'
  OBVIOUS
<1>1. ASSUME NEW t \in Threads, NEW x \in Tokens,
             RegisterBegin(t, x) \/ AuthBegin(t, x) \/ FinishFails(t, x)
      PROVE  IInv'
  <2>1. challenges' \in [Tokens -> {"free", "register", "auth"}]
    BY <1>1, Before DEF RegisterBegin, AuthBegin, FinishFails
  <2> QED BY <1>1, <2>1, ChallengeStep DEF RegisterBegin, AuthBegin, FinishFails
<1>2. ASSUME NEW x \in Tokens, Expire(x) PROVE IInv'
  <2>1. challenges' \in [Tokens -> {"free", "register", "auth"}]
    BY <1>2, Before DEF Expire
  <2> QED BY <1>2, <2>1, ChallengeStep DEF Expire
<1>3. ASSUME NEW t \in Threads, NEW x \in Tokens, NEW c \in Creds, RegisterFinish(t, x, c)
      PROVE  IInv'
  <2> DEFINE r == [Idle EXCEPT !.op = "register", !.step = "load", !.cred = c]
  <2>1. r \in AllHandlers /\ AtWork(r) /\ r.keys = NoPasskeys /\ r.cred = c
    BY IdleType DEF AllHandlers, Handlers, AtWork, Idle
  <2>2. status' \in [Creds -> Statuses] /\ status'[c] # "new"
    BY <1>3, Before DEF RegisterFinish, Statuses
  <2>3. challenges' \in [Tokens -> {"free", "register", "auth"}]
    BY <1>3, Before DEF RegisterFinish
  <2>4. h' = [h EXCEPT ![t] = r] /\ UNCHANGED <<file, signins, crashes>>
    BY <1>3 DEF RegisterFinish
  <2>5. Grows(signins, status, signins', status')
    BY <1>3, <2>2, <2>4, Before DEF RegisterFinish, Grows
  <2>6. Load' = Load /\ Sound(Load, signins', status')
    BY <2>4, <2>5, Before, StaysSound DEF Load
  <2> HIDE DEF r
  <2>7. StepOf(t, r)
    BY <2>1, <2>2, <2>3, <2>4, <2>5, <2>6, Before, EmptySound DEF StepOf
  <2> QED BY <2>7, HandlerStep
<1>4. ASSUME NEW t \in Threads, NEW x \in Tokens, NEW c \in Creds, AuthFinish(t, x, c)
      PROVE  IInv'
  <2> DEFINE r == [Idle EXCEPT !.op = "auth", !.step = "load", !.cred = c,
                               !.before = status[c]]
  <2>1. r \in AllHandlers /\ AtWork(r) /\ r.keys = NoPasskeys /\ r.op = "auth"
    BY IdleType, Before DEF AllHandlers, Handlers, AtWork, Idle
  <2>2. challenges' \in [Tokens -> {"free", "register", "auth"}]
    BY <1>4, Before DEF AuthFinish
  <2>3. h' = [h EXCEPT ![t] = r] /\ UNCHANGED <<file, status, signins, crashes>>
    BY <1>4 DEF AuthFinish
  <2>4. Load' = Load
    BY <2>3 DEF Load
  <2> HIDE DEF r
  <2>5. StepOf(t, r)
    BY <2>1, <2>2, <2>3, <2>4, Before, EmptySound DEF StepOf
  <2> QED BY <2>5, HandlerStep
<1>5. ASSUME NEW t \in Threads, NEW c \in Creds, Delete(t, c) PROVE IInv'
  <2> DEFINE keys == Without(Load, c)
             r    == [Idle EXCEPT !.op = "delete", !.step = "truncate", !.cred = c,
                                  !.keys = keys]
  <2>1. h' = [h EXCEPT ![t] = r] /\ UNCHANGED <<file, challenges, status, signins, crashes>>
    BY <1>5 DEF Delete
  <2>2. Sound(keys, signins, status)
    BY Before, WithoutSound
  <2>3. Load' = Load
    BY <2>1 DEF Load
  <2> HIDE DEF keys
  <2>4. r \in AllHandlers /\ AtWork(r) /\ r.keys = keys /\ r.op = "delete"
    BY <2>2, IdleType DEF AllHandlers, Handlers, AtWork, Idle, Sound
  <2> HIDE DEF r
  <2>5. StepOf(t, r)
    BY <2>1, <2>2, <2>3, <2>4, Before DEF StepOf
  <2> QED BY <2>5, HandlerStep
<1>6. ASSUME NEW t \in Threads, RegisterLoad(t) PROVE IInv'
  <2> DEFINE keys == With(Load, h[t].cred)
             r    == [h[t] EXCEPT !.step = "truncate", !.keys = keys]
  <2>1. /\ h[t] \in AllHandlers /\ AtWork(h[t]) /\ h[t].op = "register"
        /\ h[t].cred \in Creds /\ status[h[t].cred] # "new"
    BY <1>6, Before DEF RegisterLoad, AtWork, IInv, RegistersVerified
  <2>2. h' = [h EXCEPT ![t] = r] /\ UNCHANGED <<file, challenges, status, signins, crashes>>
    BY <1>6 DEF RegisterLoad
  <2>3. Sound(keys, signins, status)
    BY <1>6, <2>1, Before, WithSound DEF RegisterLoad
  <2>4. Load' = Load
    BY <2>2 DEF Load
  <2> HIDE DEF keys
  <2>5. r \in AllHandlers /\ AtWork(r) /\ r.keys = keys /\ r.op = h[t].op /\ r.cred = h[t].cred
    BY <2>1, <2>3, HandlerEdit DEF Sound
  <2> HIDE DEF r
  <2>6. StepOf(t, r)
    BY <2>1, <2>2, <2>3, <2>4, <2>5, Before DEF StepOf
  <2> QED BY <2>6, HandlerStep
<1>7. ASSUME NEW t \in Threads, AuthLoad(t) PROVE IInv'
  <2> DEFINE c    == h[t].cred
             keys == Used(Load, c)
             r    == [h[t] EXCEPT !.step = "truncate", !.keys = keys]
  <2>1. /\ h[t] \in AllHandlers /\ AtWork(h[t]) /\ h[t].op = "auth"
        /\ c \in Creds /\ c \in DOMAIN Load
    BY <1>7, Before DEF AuthLoad, AtWork
  <2>2. /\ h' = [h EXCEPT ![t] = r] /\ UNCHANGED <<file, challenges, status, crashes>>
        /\ signins' = [signins EXCEPT ![c] = @ + 1]
    BY <1>7 DEF AuthLoad
  <2>3. Sound(keys, signins', status)
    BY <2>1, <2>2, Before, UsedSound
  <2>4. Grows(signins, status, signins', status')
    BY <2>1, <2>2, Before DEF Grows
  <2>5. Load' = Load /\ Sound(Load, signins', status')
    BY <2>2, <2>4, Before, StaysSound DEF Load
  <2> HIDE DEF keys
  <2>6. r \in AllHandlers /\ AtWork(r) /\ r.keys = keys /\ r.op = "auth"
    BY <2>1, <2>3, HandlerEdit DEF Sound
  <2> HIDE DEF r, c
  <2>7. StepOf(t, r)
    BY <2>2, <2>3, <2>4, <2>5, <2>6, Before DEF StepOf
  <2> QED BY <2>7, HandlerStep
<1>8. ASSUME NEW t \in Threads, Refuse(t) PROVE IInv'
  <2>1. h' = [h EXCEPT ![t] = Idle] /\ UNCHANGED <<file, challenges, status, signins, crashes>>
    BY <1>8 DEF Refuse
  <2>2. Load' = Load
    BY <2>1 DEF Load
  <2>3. StepOf(t, Idle)
    BY <2>1, <2>2, IdleType, EmptySound, Before DEF StepOf
  <2> QED BY <2>3, HandlerStep
<1>9. ASSUME NEW t \in Threads, Truncate(t) PROVE IInv'
  <2> DEFINE r == [h[t] EXCEPT !.step = "write"]
  <2>1. /\ h' = [h EXCEPT ![t] = r] /\ UNCHANGED <<challenges, status, signins, crashes>>
        /\ file' = [text |-> "torn", keys |-> NoPasskeys, size |-> 0]
    BY <1>9 DEF Truncate
  <2>2. h[t] \in AllHandlers /\ AtWork(h[t]) /\ h[t].op # "none" /\ h[t].cred \in Creds
    BY <1>9, Before DEF Truncate, AtWork
  <2>3. /\ r \in AllHandlers /\ AtWork(r)
        /\ r.keys = h[t].keys /\ r.op = h[t].op /\ r.cred = h[t].cred
    BY <2>2, HandlerNext
  <2>4. file' \in AllFiles /\ Load' = NoPasskeys
    BY <2>1, EmptySound DEF AllFiles, Files, Load, Sound
  <2>5. r.op = "register" => status[r.cred] # "new"
    BY <2>3 DEF IInv, RegistersVerified
  <2> HIDE DEF r
  <2>6. StepOf(t, r)
    BY <2>1, <2>3, <2>4, <2>5, EmptySound, Before DEF StepOf
  <2> QED BY <2>6, HandlerStep
<1>10. ASSUME NEW t \in Threads, Write(t) PROVE IInv'
  <2> DEFINE r == [h[t] EXCEPT !.step = "saved"]
  <2>1. h' = [h EXCEPT ![t] = r] /\ UNCHANGED <<challenges, status, signins, crashes>>
    BY <1>10 DEF Write
  <2>2. h[t] \in AllHandlers /\ AtWork(h[t]) /\ h[t].op # "none" /\ h[t].cred \in Creds
    BY <1>10, Before DEF Write, AtWork
  <2>3. /\ r \in AllHandlers /\ AtWork(r)
        /\ r.keys = h[t].keys /\ r.op = h[t].op /\ r.cred = h[t].cred
    BY <2>2, HandlerNext
  <2>4. file' \in AllFiles /\ (Load' = NoPasskeys \/ Load' = h[t].keys)
    <3>1. PICK x \in {"json", "torn"} :
            file' = [text |-> x, keys |-> IF x = "json" THEN h[t].keys ELSE NoPasskeys,
                     size |-> IF Size(h[t].keys) >= file.size
                                THEN Size(h[t].keys) ELSE file.size]
      BY <1>10 DEF Write, Overwritten
    <3>2. /\ Size(h[t].keys) \in Nat /\ file.size \in Nat
          /\ h[t].keys \in PasskeyLists /\ NoPasskeys \in PasskeyLists
      BY Before, ListType, EmptySound DEF AllFiles, Files, Size, Sound
    <3>3. Load' = IF file'.text = "json" THEN file'.keys ELSE NoPasskeys
      BY DEF Load
    <3> QED BY <3>1, <3>2, <3>3 DEF AllFiles, Files
  <2>5. r.op = "register" => status[r.cred] # "new"
    BY <2>3 DEF IInv, RegistersVerified
  <2>6. Sound(Load', signins, status)
    BY <2>4, Before, EmptySound
  <2> HIDE DEF r
  <2>7. StepOf(t, r)
    BY <2>1, <2>3, <2>4, <2>5, <2>6, Before DEF StepOf
  <2> QED BY <2>7, HandlerStep
<1>11. ASSUME NEW t \in Threads, Reply(t) PROVE IInv'
  <2>1. h' = [h EXCEPT ![t] = Idle] /\ UNCHANGED <<file, challenges, signins, crashes>>
    BY <1>11 DEF Reply
  <2>2. Grows(signins, status, signins', status')
    BY <1>11, <2>1, Before DEF Reply, Statuses, Grows
  <2>3. Load' = Load /\ Sound(Load, signins', status')
    BY <2>1, <2>2, Before, StaysSound DEF Load
  <2>4. StepOf(t, Idle)
    BY <2>1, <2>2, <2>3, IdleType, EmptySound, Before DEF StepOf
  <2> QED BY <2>4, HandlerStep
<1>12. CASE Crash
  <2>1. Types'
    <3>1. crashes' \in 0..MaxCrashes
      BY <1>12, BoundAssumption DEF Crash, IInv, Types
    <3> QED BY <1>12, <3>1, IdleType DEF Crash, IInv, Types
  <2>2. RegistersVerified'
    BY <1>12, IdleType DEF Crash, RegistersVerified
  <2>3. Load' = Load /\ \A t \in Threads : h'[t].keys = NoPasskeys
    BY <1>12, IdleType DEF Crash, Load
  <2>4. SoundInv'
    BY <1>12, <2>3, EmptySound, Before DEF Crash, SoundInv
  <2>5. (Types => (QuotaRespected /\ NeverOvercounted <=> SoundInv))'
    BY InvIsSound, PTL
  <2> QED BY <2>1, <2>2, <2>4, <2>5 DEF IInv
<1>13. CASE UNCHANGED vars
  BY <1>13, Before, ChallengeStep DEF vars
<1> QED BY <1>1, <1>2, <1>3, <1>4, <1>5, <1>6, <1>7, <1>8, <1>9, <1>10, <1>11, <1>12,
           <1>13 DEF Next

(* The invariant holds whatever the handlers do concurrently.              *)
THEOREM InductiveInvariant == Spec => []IInv
BY InitIInv, NextIInv, PTL DEF Spec

(* The file, the handlers and the histories are well typed.                *)
THEOREM TypeCorrect == Spec => []TypeOK
<1>1. ASSUME Types PROVE TypeOK
  <2>1. \A keys \in PasskeyLists : IsList(keys)
    BY ListType DEF IsList
  <2>2. IsList(file.keys) /\ file \in Files({file.keys})
    BY <1>1, <2>1 DEF Types, AllFiles, Files
  <2>3. \A t \in Threads : /\ IsList(h[t].keys) /\ AtWork(h[t])
                           /\ h[t] \in Handlers({h[u].keys : u \in Threads})
    BY <1>1, <2>1 DEF Types, AllHandlers, Handlers
  <2> QED BY <1>1, <2>2, <2>3 DEF Types, TypeOK
<1>2. IInv => TypeOK
  BY <1>1 DEF IInv
<1> QED BY <1>2, InductiveInvariant, PTL

(* The quota of passkeys is respected by all interleavings of handlers,    *)
(* torn files and crashes.                                                 *)
THEOREM QuotaSafe == Spec => []QuotaRespected
<1>1. IInv => QuotaRespected
  BY DEF IInv
<1> QED BY <1>1, InductiveInvariant, PTL

(* A use counter never exceeds the successful sign-ins of its passkey, and *)
(* every listed passkey was verified by a registration.                    *)
THEOREM UsesSafe == Spec => []NeverOvercounted
<1>1. IInv => NeverOvercounted
  BY DEF IInv
<1> QED BY <1>1, InductiveInvariant, PTL

-----------------------------------------------------------------------------
(* What a handler that overlaps with no other relies on, when the file is  *)
(* f and holds the list: it edits what is still there, and what it deletes *)
(* or has found deleted is not there.                                      *)
Holds(r, list, st, f) ==
  /\ r.op = "register" => st[r.cred] = "pending"
  /\ r.op = "register" /\ r.step = "load" => r.cred \notin DOMAIN list
  /\ r.op = "auth" /\ r.step = "load" /\ r.before = "deleted" => st[r.cred] = "deleted"
  /\ r.op = "auth" /\ r.step # "load" => r.before # "deleted"
  /\ r.op = "delete" => /\ r.step \in {"truncate", "write", "saved"}
                        /\ r.step # "saved" => r.cred \notin DOMAIN r.keys
                        /\ r.step = "saved" => r.cred \notin DOMAIN list
  /\ r.step = "truncate" =>
       \/ /\ r.op = "register" /\ r.cred \notin DOMAIN list /\ Count(list) < MaxPasskeys
          /\ r.keys = With(list, r.cred)
       \/ r.op = "delete" /\ r.keys = Without(list, r.cred)
       \/ r.op = "auth" /\ r.cred \in DOMAIN list /\ r.keys = Used(list, r.cred)
  /\ r.step = "write" => f.text = "torn" /\ f.size = 0

(* A passkey that was deleted is nowhere.                                  *)
DeletedGone ==
  \A c \in Creds : status[c] = "deleted" =>
    c \notin DOMAIN Load /\ \A t \in Threads : c \notin DOMAIN h[t].keys

Serial ==
  AtMostOne /\ (\A t \in Threads : Holds(h[t], Load, status, file)) /\ DeletedGone

LEMMA NoneListed == DOMAIN NoPasskeys = {}
BY DEF NoPasskeys

LEMMA IdleHolds ==
  /\ \A list, st, f : Holds(Idle, list, st, f)
  /\ Idle.step = "idle" /\ Idle.op = "none" /\ Idle.keys = NoPasskeys
BY DEF Holds, Idle

LEMMA SerialStarts == Init => Serial
BY IdleHolds, NoneListed DEF Init, Serial, AtMostOne, DeletedGone

(* A request goes on, and is the only one that is handled.                 *)
LEMMA SerialStep ==
  ASSUME IInv, Serial, NEW t \in Threads, NEW r, h' = [h EXCEPT ![t] = r],
         AtMostOne', h[t] # Idle \/ r # Idle, Holds(r, Load', status', file'),
         \A c \in Creds : status'[c] = "deleted" => c \notin DOMAIN Load' \cup DOMAIN r.keys
  PROVE  Serial'
<1>1. h'[t] = r /\ \A u \in Threads \ {t} : h'[u] = h[u]
  BY Before
<1>2. \A u \in Threads \ {t} : h'[u] = Idle
  BY <1>1 DEF Serial, AtMostOne
<1>3. \A u \in Threads : Holds(h'[u], Load', status', file')
  BY <1>1, <1>2, IdleHolds
<1>4. DeletedGone'
  BY <1>1, <1>2, IdleHolds, NoneListed DEF DeletedGone
<1> QED BY <1>3, <1>4 DEF Serial

(* A request arrives: what it names as new or deleted is not in the list.  *)
LEMMA SerialArrives ==
  ASSUME IInv, Serial, AtMostOne', NEW t \in Threads, NEW x \in Tokens, NEW c \in Creds,
         RegisterFinish(t, x, c) \/ AuthFinish(t, x, c)
  PROVE  Serial'
<1>1. /\ UNCHANGED file /\ Load' = Load /\ status \in [Creds -> Statuses]
      /\ status[c] = "new" => c \notin DOMAIN Load
  BY Before DEF RegisterFinish, AuthFinish, Load, Sound
<1>2. \A d \in Creds : status[d] = "deleted" => d \notin DOMAIN Load
  BY DEF Serial, DeletedGone
<1>3. CASE RegisterFinish(t, x, c)
  <2> DEFINE r == [Idle EXCEPT !.op = "register", !.step = "load", !.cred = c]
  <2>1. /\ r.op = "register" /\ r.step = "load" /\ r.cred = c /\ r.keys = NoPasskeys
        /\ r # Idle
    BY IdleHolds DEF Idle
  <2>2. h' = [h EXCEPT ![t] = r] /\ status[c] = "new" /\ status' = [status EXCEPT ![c] = "pending"]
    BY <1>3 DEF RegisterFinish
  <2> HIDE DEF r
  <2>3. Holds(r, Load', status', file')
    BY <1>1, <2>1, <2>2 DEF Holds
  <2>4. \A d \in Creds : status'[d] = "deleted" => d \notin DOMAIN Load' \cup DOMAIN r.keys
    BY <1>1, <1>2, <2>1, <2>2, NoneListed
  <2> QED BY <2>1, <2>2, <2>3, <2>4, SerialStep
<1>4. CASE AuthFinish(t, x, c)
  <2> DEFINE r == [Idle EXCEPT !.op = "auth", !.step = "load", !.cred = c,
                               !.before = status[c]]
  <2>1. /\ r.op = "auth" /\ r.step = "load" /\ r.cred = c /\ r.keys = NoPasskeys
        /\ r.before = status[c] /\ r # Idle
    BY IdleHolds DEF Idle
  <2>2. h' = [h EXCEPT ![t] = r] /\ UNCHANGED status
    BY <1>4 DEF AuthFinish
  <2> HIDE DEF r
  <2>3. Holds(r, Load', status', file')
    BY <2>1, <2>2 DEF Holds
  <2>4. \A d \in Creds : status'[d] = "deleted" => d \notin DOMAIN Load' \cup DOMAIN r.keys
    BY <1>1, <1>2, <2>1, <2>2, NoneListed
  <2> QED BY <2>1, <2>2, <2>3, <2>4, SerialStep
<1> QED BY <1>3, <1>4

(* A request has edited its copy of the list.                              *)
LEMMA SerialEdits ==
  ASSUME IInv, Serial, AtMostOne', NEW t \in Threads,
         RegisterLoad(t) \/ AuthLoad(t) \/ \E c \in Creds : Delete(t, c)
  PROVE  Serial'
<1>1. /\ UNCHANGED <<file, status>> /\ Load' = Load
      /\ h[t] \in AllHandlers /\ Holds(h[t], Load, status, file)
  BY Before DEF RegisterLoad, AuthLoad, Delete, Load, Serial
<1>2. \A d \in Creds : status[d] = "deleted" => d \notin DOMAIN Load
  BY DEF Serial, DeletedGone
<1>3. ASSUME NEW r, h' = [h EXCEPT ![t] = r], r.step = "truncate",
             Holds(r, Load, status, file),
             \A d \in DOMAIN r.keys : d \in DOMAIN Load \/ status[d] # "deleted"
      PROVE  Serial'
  <2>1. r # Idle
    BY <1>3, IdleHolds
  <2>2. Holds(r, Load', status', file')
    BY <1>1, <1>3
  <2>3. \A d \in Creds : status'[d] = "deleted" => d \notin DOMAIN Load' \cup DOMAIN r.keys
    BY <1>1, <1>2, <1>3
  <2> QED BY <1>3, <2>1, <2>2, <2>3, SerialStep
<1>4. CASE RegisterLoad(t)
  <2> DEFINE r == [h[t] EXCEPT !.step = "truncate", !.keys = With(Load, h[t].cred)]
  <2>1. /\ h' = [h EXCEPT ![t] = r] /\ h[t].op = "register" /\ h[t].step = "load"
        /\ Count(Load) < MaxPasskeys
    BY <1>4 DEF RegisterLoad
  <2>2. /\ r.op = "register" /\ r.step = "truncate" /\ r.cred = h[t].cred
        /\ r.keys = With(Load, h[t].cred)
    BY <1>1, <2>1 DEF AllHandlers, Handlers
  <2>3. status[r.cred] = "pending" /\ r.cred \notin DOMAIN Load
    BY <1>1, <2>1, <2>2 DEF Holds
  <2> HIDE DEF r
  <2>4. Holds(r, Load, status, file)
    BY <2>1, <2>2, <2>3 DEF Holds
  <2>5. \A d \in DOMAIN r.keys : d \in DOMAIN Load \/ status[d] # "deleted"
    BY <2>2, <2>3 DEF With
  <2> QED BY <1>3, <2>1, <2>2, <2>4, <2>5
<1>5. CASE AuthLoad(t)
  <2> DEFINE r == [h[t] EXCEPT !.step = "truncate", !.keys = Used(Load, h[t].cred)]
  <2>1. /\ h' = [h EXCEPT ![t] = r] /\ h[t].op = "auth" /\ h[t].step = "load"
        /\ h[t].cred \in DOMAIN Load /\ h[t].cred \in Creds
    BY <1>5, Before DEF AuthLoad, AtWork
  <2>2. /\ r.op = "auth" /\ r.step = "truncate" /\ r.cred = h[t].cred
        /\ r.keys = Used(Load, h[t].cred) /\ r.before = h[t].before
    BY <1>1, <2>1 DEF AllHandlers, Handlers
  <2>3. r.before # "deleted"
    BY <1>1, <1>2, <2>1, <2>2 DEF Holds
  <2> HIDE DEF r
  <2>4. Holds(r, Load, status, file)
    BY <2>1, <2>2, <2>3 DEF Holds
  <2>5. \A d \in DOMAIN r.keys : d \in DOMAIN Load \/ status[d] # "deleted"
    BY <2>2 DEF Used
  <2> QED BY <1>3, <2>1, <2>2, <2>4, <2>5
<1>6. ASSUME NEW c \in Creds, Delete(t, c) PROVE Serial'
  <2> DEFINE r == [Idle EXCEPT !.op = "delete", !.step = "truncate", !.cred = c,
                               !.keys = Without(Load, c)]
  <2>1. h' = [h EXCEPT ![t] = r]
    BY <1>6 DEF Delete
  <2>2. /\ r.op = "delete" /\ r.step = "truncate" /\ r.cred = c
        /\ r.keys = Without(Load, c)
    BY DEF Idle
  <2> HIDE DEF r
  <2>3. DOMAIN r.keys = DOMAIN Load \ {c}
    BY <2>2 DEF Without
  <2>4. Holds(r, Load, status, file)
    BY <2>2, <2>3 DEF Holds
  <2> QED BY <1>3, <2>1, <2>2, <2>3, <2>4
<1> QED BY <1>4, <1>5, <1>6

(* The one write of a list, over a file that its writer has truncated.     *)
LEMMA WritesWhole ==
  ASSUME IInv, NEW t \in Threads, Write(t), file.size = 0
  PROVE  file'.text = "json" /\ Load' = h[t].keys
<1>1. Size(h[t].keys) \in Nat /\ Size(h[t].keys) > 0
  <2>1. Count(h[t].keys) \in Nat
    BY Before, ListType DEF Sound
  <2> QED BY <2>1 DEF Size
<1>2. PICK x \in {"json", "torn"} :
        /\ Size(h[t].keys) > file.size => x = "json"
        /\ file' = [text |-> x, keys |-> IF x = "json" THEN h[t].keys ELSE NoPasskeys,
                    size |-> IF Size(h[t].keys) >= file.size
                               THEN Size(h[t].keys) ELSE file.size]
  BY DEF Write, Overwritten
<1>3. x = "json"
  BY <1>1, <1>2
<1> QED BY <1>2, <1>3 DEF Load

(* A request saves its list, or ends.                                      *)
LEMMA SerialSaves ==
  ASSUME IInv, Serial, AtMostOne', NEW t \in Threads,
         Truncate(t) \/ Write(t) \/ Reply(t) \/ Refuse(t)
  PROVE  Serial'
<1>1. /\ h[t] \in AllHandlers /\ h[t] # Idle /\ Holds(h[t], Load, status, file)
      /\ h[t].op # "none" /\ h[t].cred \in Creds /\ status \in [Creds -> Statuses]
  BY Before, IdleHolds DEF Truncate, Write, Reply, Refuse, Serial, AtWork
<1>2. \A d \in Creds : status[d] = "deleted" =>
        d \notin DOMAIN Load /\ d \notin DOMAIN h[t].keys
  BY DEF Serial, DeletedGone
<1>3. CASE Truncate(t)
  <2> DEFINE r == [h[t] EXCEPT !.step = "write"]
  <2>1. /\ h' = [h EXCEPT ![t] = r] /\ h[t].step = "truncate" /\ UNCHANGED status
        /\ file' = [text |-> "torn", keys |-> NoPasskeys, size |-> 0]
    BY <1>3 DEF Truncate
  <2>2. /\ r.op = h[t].op /\ r.step = "write" /\ r.cred = h[t].cred
        /\ r.keys = h[t].keys /\ r.before = h[t].before
    BY <1>1 DEF AllHandlers, Handlers
  <2>3. Load' = NoPasskeys
    BY <2>1 DEF Load
  <2> HIDE DEF r
  <2>4. Holds(r, Load', status', file')
    BY <1>1, <2>1, <2>2 DEF Holds
  <2>5. \A d \in Creds : status'[d] = "deleted" => d \notin DOMAIN Load' \cup DOMAIN r.keys
    BY <1>2, <2>1, <2>2, <2>3, NoneListed
  <2> QED BY <1>1, <2>1, <2>4, <2>5, SerialStep
<1>4. CASE Write(t)
  <2> DEFINE r == [h[t] EXCEPT !.step = "saved"]
  <2>1. h' = [h EXCEPT ![t] = r] /\ h[t].step = "write" /\ UNCHANGED status
    BY <1>4 DEF Write
  <2>2. /\ r.op = h[t].op /\ r.step = "saved" /\ r.cred = h[t].cred
        /\ r.keys = h[t].keys /\ r.before = h[t].before
    BY <1>1 DEF AllHandlers, Handlers
  <2>3. Load' = h[t].keys
    BY <1>1, <1>4, <2>1, WritesWhole DEF Holds
  <2> HIDE DEF r
  <2>4. Holds(r, Load', status', file')
    BY <1>1, <2>1, <2>2, <2>3 DEF Holds
  <2>5. \A d \in Creds : status'[d] = "deleted" => d \notin DOMAIN Load' \cup DOMAIN r.keys
    BY <1>2, <2>1, <2>2, <2>3
  <2> QED BY <1>1, <2>1, <2>4, <2>5, SerialStep
<1>5. CASE Reply(t) \/ Refuse(t)
  <2>1. h' = [h EXCEPT ![t] = Idle] /\ UNCHANGED file /\ Load' = Load
    BY <1>5 DEF Reply, Refuse, Load
  <2>2. \A d \in Creds : status'[d] = "deleted" => d \notin DOMAIN Load
    <3>1. CASE Refuse(t)
      BY <1>2, <3>1 DEF Refuse
    <3>2. CASE Reply(t)
      <4>1. h[t].step = "saved" /\ (h[t].op = "delete" => h[t].cred \notin DOMAIN Load)
        BY <1>1, <3>2 DEF Reply, Holds
      <4>2. ASSUME NEW d \in Creds, status'[d] = "deleted"
            PROVE  status[d] = "deleted" \/ (d = h[t].cred /\ h[t].op = "delete")
        BY <1>1, <3>2, <4>2 DEF Reply
      <4> QED BY <1>2, <4>1, <4>2
    <3> QED BY <1>5, <3>1, <3>2
  <2> QED BY <1>1, <2>1, <2>2, IdleHolds, NoneListed, SerialStep
<1> QED BY <1>3, <1>4, <1>5

(* While requests do not overlap the invariant is inductive.               *)
LEMMA SerialNext ==
  ASSUME IInv, Serial, [Next]_vars, AtMostOne' PROVE Serial'
<1>1. CASE UNCHANGED <<file, h, status>>
  BY <1>1 DEF Serial, AtMostOne, DeletedGone, Load
<1>2. CASE Crash
  <2>1. UNCHANGED <<file, status>> /\ Load' = Load /\ \A t \in Threads : h'[t] = Idle
    BY <1>2 DEF Crash, Load
  <2> QED BY <2>1, IdleHolds, NoneListed DEF Serial, DeletedGone
<1> QED BY <1>1, <1>2, SerialArrives, SerialEdits, SerialSaves
     DEF Next, vars, RegisterBegin, AuthBegin, FinishFails, Expire

-----------------------------------------------------------------------------
(* The store is what is in the file, or what the only writer will put      *)
(* there.                                                                  *)
LEMMA StoredIs ==
  AtMostOne => /\ \A t \in Threads : h[t].step = "write" => Stored = h[t].keys
               /\ (\A t \in Threads : h[t].step # "write") => Stored = Load
<1>1. ASSUME AtMostOne, NEW t \in Threads, h[t].step = "write"
      PROVE  Stored = h[t].keys
  <2>1. \A u \in Threads : h[u].step = "write" => u = t
    BY <1>1, IdleHolds DEF AtMostOne
  <2>2. (CHOOSE u \in Threads : h[u].step = "write") = t
    BY <1>1, <2>1
  <2> QED BY <1>1, <2>2 DEF Stored
<1> QED BY <1>1 DEF Stored

(* Nothing happens to the store when the file and its writer, if there is  *)
(* one, stay the same.                                                     *)
LEMMA QuietKeeps ==
  ASSUME AtMostOne, AtMostOne', UNCHANGED file,
         \A t \in Threads : h[t].step = "write" \/ h'[t].step = "write" => h'[t] = h[t]
  PROVE  Stored' = Stored
<1>1. (AtMostOne => /\ \A t \in Threads : h[t].step = "write" => Stored = h[t].keys
                    /\ (\A t \in Threads : h[t].step # "write") => Stored = Load)'
  BY StoredIs, PTL
<1>2. Load' = Load
  BY DEF Load
<1> QED BY <1>1, <1>2, StoredIs

(* A step of a request that saves nothing.                                 *)
LEMMA OtherKeeps ==
  ASSUME IInv, Serial, AtMostOne', NEW t \in Threads, NEW r, h' = [h EXCEPT ![t] = r],
         h[t].step # "write", r.step # "write", UNCHANGED file
  PROVE  Stored' = Stored
<1>1. h'[t] = r /\ \A u \in Threads \ {t} : h'[u] = h[u]
  BY Before
<1> QED BY <1>1, QuietKeeps DEF Serial

(* Every step is one of the store, or leaves it alone.                     *)
LEMMA SerialRefines ==
  ASSUME IInv, Serial, [Next]_vars, AtMostOne' PROVE [Abstract!Next]_Stored
<1>1. AtMostOne /\ \A t \in Threads : Holds(h[t], Load, status, file)
  BY DEF Serial
<1>2. (AtMostOne => /\ \A t \in Threads : h[t].step = "write" => Stored = h[t].keys
                    /\ (\A t \in Threads : h[t].step # "write") => Stored = Load)'
  BY StoredIs, PTL
<1>3. ASSUME NEW t \in Threads, Truncate(t) PROVE [Abstract!Next]_Stored
  <2>1. h[t].step = "truncate" /\ h' = [h EXCEPT ![t].step = "write"] /\ h[t] \in AllHandlers
        /\ h[t].cred \in Creds
    BY <1>3, Before DEF Truncate, AtWork
  <2>2. h'[t].step = "write" /\ h'[t].keys = h[t].keys
    BY <2>1, Before DEF AllHandlers, Handlers
  <2>3. Stored' = h[t].keys
    BY <1>2, <2>2
  <2>4. \A u \in Threads : h[u].step # "write"
    BY <1>1, <2>1, IdleHolds DEF AtMostOne
  <2>5. Stored = Load
    BY <1>1, <2>4, StoredIs
  <2>6. CASE /\ h[t].cred \notin DOMAIN Load /\ Count(Load) < MaxPasskeys
             /\ h[t].keys = With(Load, h[t].cred)
    <3>1. Abstract!Add(h[t].cred)
      <4>1. Cardinality(DOMAIN Stored) < MaxPasskeys /\ h[t].cred \notin DOMAIN Stored
        BY <2>5, <2>6 DEF Count
      <4>2. Stored' = [x \in DOMAIN Stored \cup {h[t].cred} |->
                         IF x = h[t].cred THEN 0 ELSE Stored[x]]
        BY <2>3, <2>5, <2>6 DEF With
      <4> QED BY <4>1, <4>2 DEF Abstract!Add, Abstract!Cardinality, Cardinality
    <3> QED BY <2>1, <3>1 DEF Abstract!Next
  <2>7. CASE h[t].keys = Without(Load, h[t].cred)
    <3>1. CASE h[t].cred \in DOMAIN Load
      <4>1. Abstract!Remove(h[t].cred)
        BY <2>3, <2>5, <2>7, <3>1 DEF Abstract!Remove, Without
      <4> QED BY <2>1, <4>1 DEF Abstract!Next
    <3>2. CASE h[t].cred \notin DOMAIN Load
      <4>1. Without(Load, h[t].cred) = Load
        <5>1. DOMAIN Load \ {h[t].cred} = DOMAIN Load /\ Load = [x \in DOMAIN Load |-> Load[x]]
          BY <3>2, Before, ListType DEF Sound
        <5> QED BY <5>1 DEF Without
      <4> QED BY <2>3, <2>5, <2>7, <4>1
    <3> QED BY <3>1, <3>2
  <2>8. CASE h[t].cred \in DOMAIN Load /\ h[t].keys = Used(Load, h[t].cred)
    <3>1. Abstract!Use(h[t].cred)
      BY <2>3, <2>5, <2>8 DEF Abstract!Use, Used
    <3> QED BY <2>1, <3>1 DEF Abstract!Next
  <2> QED BY <1>1, <2>1, <2>6, <2>7, <2>8 DEF Holds
<1>4. ASSUME NEW t \in Threads, Write(t) PROVE Stored' = Stored
  <2>1. h[t].step = "write" /\ h' = [h EXCEPT ![t].step = "saved"] /\ h[t] \in AllHandlers
    BY <1>4, Before DEF Write
  <2>2. Stored = h[t].keys /\ file.size = 0
    BY <1>1, <2>1, StoredIs DEF Holds
  <2>3. \A u \in Threads : h'[u].step # "write"
    <3>1. h'[t].step = "saved" /\ \A u \in Threads \ {t} : h'[u] = h[u]
      BY <2>1, Before DEF AllHandlers, Handlers
    <3> QED BY <1>1, <2>1, <3>1, IdleHolds DEF AtMostOne
  <2>4. Stored' = Load'
    BY <1>2, <2>3
  <2> QED BY <1>4, <2>2, <2>4, WritesWhole
<1>5. CASE Crash
  <2>1. Load' = Load /\ \A t \in Threads : h'[t].step # "write"
    BY <1>5, IdleHolds DEF Crash, Load
  <2>2. Stored' = Load
    BY <1>2, <2>1
  <2>3. CASE \E t \in Threads : h[t].step = "write"
    <3>1. Load = NoPasskeys
      BY <1>1, <2>3 DEF Holds, Load
    <3> QED BY <2>2, <3>1 DEF Abstract!Next, Abstract!Wipe, NoPasskeys
  <2>4. CASE \A t \in Threads : h[t].step # "write"
    BY <1>1, <2>2, <2>4, StoredIs
  <2> QED BY <2>3, <2>4
<1>6. CASE UNCHANGED <<file, h>>
  BY <1>1, <1>6, QuietKeeps
<1>7. ASSUME NEW t \in Threads, NEW c \in Creds,
             Delete(t, c) \/ \E x \in Tokens : RegisterFinish(t, x, c) \/ AuthFinish(t, x, c)
      PROVE  Stored' = Stored
  <2>1. h[t] = Idle /\ UNCHANGED file
    BY <1>7 DEF Delete, RegisterFinish, AuthFinish
  <2>2. PICK r : h' = [h EXCEPT ![t] = r] /\ r.step # "write"
    <3>1. CASE Delete(t, c)
      <4> DEFINE r == [Idle EXCEPT !.op = "delete", !.step = "truncate", !.cred = c,
                                   !.keys = Without(Load, c)]
      <4>1. h' = [h EXCEPT ![t] = r] /\ r.step # "write"
        BY <3>1 DEF Delete, Idle
      <4> QED BY <4>1
    <3>2. CASE \E x \in Tokens : RegisterFinish(t, x, c)
      <4> DEFINE r == [Idle EXCEPT !.op = "register", !.step = "load", !.cred = c]
      <4>1. h' = [h EXCEPT ![t] = r] /\ r.step # "write"
        BY <3>2 DEF RegisterFinish, Idle
      <4> QED BY <4>1
    <3>3. CASE \E x \in Tokens : AuthFinish(t, x, c)
      <4> DEFINE r == [Idle EXCEPT !.op = "auth", !.step = "load", !.cred = c,
                                   !.before = status[c]]
      <4>1. h' = [h EXCEPT ![t] = r] /\ r.step # "write"
        BY <3>3 DEF AuthFinish, Idle
      <4> QED BY <4>1
    <3> QED BY <1>7, <3>1, <3>2, <3>3
  <2> QED BY <2>1, <2>2, IdleHolds, OtherKeeps
<1>8. ASSUME NEW t \in Threads, RegisterLoad(t) \/ AuthLoad(t) \/ Refuse(t) \/ Reply(t)
      PROVE  Stored' = Stored
  <2>1. h[t].step # "write" /\ UNCHANGED file /\ h[t] \in AllHandlers
    BY <1>8, Before DEF RegisterLoad, AuthLoad, Refuse, Reply
  <2>2. PICK r : h' = [h EXCEPT ![t] = r] /\ r.step # "write"
    <3>1. CASE Refuse(t) \/ Reply(t)
      BY <3>1, IdleHolds DEF Refuse, Reply
    <3>2. CASE RegisterLoad(t) \/ AuthLoad(t)
      <4>1. PICK keys : h' = [h EXCEPT ![t].step = "truncate", ![t].keys = keys]
        BY <3>2 DEF RegisterLoad, AuthLoad
      <4> DEFINE r == [h[t] EXCEPT !.step = "truncate", !.keys = keys]
      <4>2. h' = [h EXCEPT ![t] = r] /\ r.step # "write"
        BY <2>1, <4>1 DEF AllHandlers, Handlers
      <4> QED BY <4>2
    <3> QED BY <1>8, <3>1, <3>2
  <2> QED BY <2>1, <2>2, OtherKeeps
<1> QED BY <1>3, <1>4, <1>5, <1>6, <1>7, <1>8
     DEF Next, vars, RegisterBegin, AuthBegin, FinishFails, Expire

-----------------------------------------------------------------------------
(* The invariants of the handlers, and what they rely on while they are    *)
(* handled one at a time.                                                  *)
LEMMA AloneInvariant == AloneSpec => [](IInv /\ (alone => Serial))
<1>1. AloneInit => IInv /\ (alone => Serial)
  BY InitIInv, SerialStarts DEF AloneInit
<1>2. IInv /\ (alone => Serial) /\ [AloneNext]_<<vars, alone>> => (IInv /\ (alone => Serial))'
  <2> SUFFICES ASSUME IInv, alone => Serial, [AloneNext]_<<vars, alone>>
               PROVE  IInv' /\ (alone' => Serial')
    OBVIOUS
  <2>1. [Next]_vars
    BY DEF AloneNext
  <2>2. ASSUME alone' PROVE Serial'
    <3>1. alone
      BY <2>2 DEF AloneNext
    <3>2. AtMostOne'
      BY <2>2, <3>1 DEF AloneNext, Serial, AtMostOne, vars
    <3> QED BY <2>1, <3>1, <3>2, SerialNext
  <2> QED BY <2>1, <2>2, NextIInv
<1> QED BY <1>1, <1>2, PTL DEF AloneSpec

(* A device whose passkey was deleted is not signed in, as long as         *)
(* requests do not overlap and whenever the server crashes                 *)
(* (routes/auth.py:457-532).                                               *)
THEOREM DeletedAreOut == AloneSpec => []DeletedStaysOutAlone
<1>1. IInv /\ (alone => Serial) => DeletedStaysOutAlone
  BY DEF Serial, Holds, DeletedStaysOutAlone, DeletedStaysOut, SignedIn
<1> QED BY <1>1, AloneInvariant, PTL

(* As long as requests do not overlap the passkey handlers implement the   *)
(* atomic store of passkeys.                                               *)
THEOREM AloneIsAStore == AloneSpec => AloneImplementsPasskeyStore
<1> DEFINE Steps == alone' => [Abstract!Next]_Stored
<1>1. AloneInit => Abstract!Init
  BY SerialStarts, StoredIs, IdleHolds
     DEF AloneInit, Init, Serial, Load, NoPasskeys, Abstract!Init
<1>2. IInv /\ (alone => Serial) /\ [AloneNext]_<<vars, alone>> => Steps
  <2> SUFFICES ASSUME IInv, alone => Serial, [AloneNext]_<<vars, alone>>, alone'
               PROVE  [Abstract!Next]_Stored
    OBVIOUS
  <2>1. alone
    BY DEF AloneNext
  <2>2. [Next]_vars /\ AtMostOne'
    BY <2>1 DEF AloneNext, Serial, AtMostOne, vars
  <2> QED BY <2>1, <2>2, SerialRefines
<1>3. AloneImplementsPasskeyStore <=> Abstract!Init /\ [][Steps]_<<vars, alone>>
  BY DEF AloneImplementsPasskeyStore
<1> HIDE DEF Steps
<1> QED BY <1>1, <1>2, <1>3, AloneInvariant, PTL DEF AloneSpec
=============================================================================
