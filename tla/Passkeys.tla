----------------------------- MODULE Passkeys ------------------------------
(***************************************************************************)
(* routes/auth.py: the passkey handlers and the file they share,           *)
(* state/passkeys.json.  Every handler that changes the file loads it,     *)
(* edits its own copy and saves the whole list; no lock covers the two,    *)
(* and a save is write_text(): the file is truncated, then written.        *)
(*                                                                         *)
(* A credential stands for its id.  Of an entry only the number of uses is *)
(* kept: it stands for sign_count, use_count and last_used, which a        *)
(* sign-in updates together.  Signature checks (webauthn) are external:    *)
(* they may pass or fail.  The rate limiter and the time-to-live of        *)
(* challenges have modules of their own (RateLimiter, Challenges).         *)
(***************************************************************************)
EXTENDS Integers, FiniteSets

CONSTANTS
  Threads,      \* request threads
  Creds,        \* credentials that devices may create
  NoCred,       \* a handler that has no credential
  Tokens,       \* challenges that can be outstanding at once
  MaxPasskeys,  \* config.MAX_PASSKEYS
  MaxUses,      \* bound of the model: sign-ins per credential
  MaxCrashes    \* bound of the model: how often the server is killed

ASSUME CredAssumption  == NoCred \notin Creds
ASSUME CredsFinite     == IsFiniteSet(Creds)
ASSUME QuotaAssumption == MaxPasskeys \in Nat
ASSUME BoundAssumption == MaxUses \in Nat /\ MaxCrashes \in Nat

VARIABLES
  file,        \* passkeys.json: [text, keys, size]
  challenges,  \* _CHALLENGES, per token: free, register or auth
  h,           \* per thread: its handler [op, step, cred, keys, before]
  status,      \* history, per credential: new, pending, added or deleted,
               \* as far as clients have been told
  signins,     \* history, per credential: successful verifications
  crashes      \* number of crashes so far

vars == <<file, challenges, h, status, signins, crashes>>

\* A list of passkeys: a function from the ids it holds to their uses.
IsList(keys) == DOMAIN keys \subseteq Creds /\ keys \in [DOMAIN keys -> Nat]
NoPasskeys   == [c \in {} |-> 0]
Count(keys)  == Cardinality(DOMAIN keys)

Without(keys, c) == [x \in DOMAIN keys \ {c} |-> keys[x]]
WithNoOthers(keys, c) == [x \in {c} |-> 0] \* mutant: saves the new entry alone
With(keys, c)    == [x \in DOMAIN keys \cup {c} |-> IF x = c THEN 0 ELSE keys[x]]
Used(keys, c)    == [keys EXCEPT ![c] = @ + 1]

Idle == [op |-> "none", step |-> "idle", cred |-> NoCred,
         keys |-> NoPasskeys, before |-> "new"]

-----------------------------------------------------------------------------
\* load_passkeys(): a missing, empty or corrupt file is an empty list.
Load == IF file.text = "json" THEN file.keys ELSE NoPasskeys

\* The length of the JSON of a list, in entries plus the enclosing object.
Size(keys) == Count(keys) + 1

\* The contents of the file after a writer that opened it earlier puts its
\* list at offset 0.  Nothing is left of a shorter text; of a longer one the
\* end remains and the file is no JSON; texts of as many entries may differ
\* in length either way.
Overwritten(keys) ==
  {[text |-> x, keys |-> IF x = "json" THEN keys ELSE NoPasskeys,
    size |-> IF Size(keys) >= file.size THEN Size(keys) ELSE file.size] :
     x \in {y \in {"json", "torn"} : /\ Size(keys) > file.size => y = "json"
                                     /\ Size(keys) < file.size => y = "torn"}}

-----------------------------------------------------------------------------
Init ==
  /\ file = [text |-> "json", keys |-> NoPasskeys, size |-> 1]
  /\ challenges = [x \in Tokens |-> "free"]
  /\ h = [t \in Threads |-> Idle]
  /\ status = [c \in Creds |-> "new"]
  /\ signins = [c \in Creds |-> 0]
  /\ crashes = 0

\* passkey_register_begin, past the limiter and the setup password.
RegisterBegin(t, x) ==
  /\ h[t] = Idle
  /\ Count(Load) < MaxPasskeys
  /\ challenges[x] = "free"
  /\ challenges' = [challenges EXCEPT ![x] = "register"]
  /\ UNCHANGED <<file, h, status, signins, crashes>>

\* passkey_auth_begin: refused when there are no passkeys.
AuthBegin(t, x) ==
  /\ h[t] = Idle
  /\ DOMAIN Load # {}
  /\ challenges[x] = "free"
  /\ challenges' = [challenges EXCEPT ![x] = "auth"]
  /\ UNCHANGED <<file, h, status, signins, crashes>>

\* _challenge_take on a token of the other kind, or the signature of the
\* registration does not verify: the challenge is gone, nothing else happens.
FinishFails(t, x) ==
  /\ h[t] = Idle
  /\ challenges[x] # "free"
  /\ challenges' = [challenges EXCEPT ![x] = "free"]
  /\ UNCHANGED <<file, h, status, signins, crashes>>

\* passkey_register_finish up to a successful verification of credential c.
RegisterFinish(t, x, c) ==
  /\ h[t] = Idle
  /\ challenges[x] = "register"
  /\ status[c] = "new"
  /\ challenges' = [challenges EXCEPT ![x] = "free"]
  /\ status' = [status EXCEPT ![c] = "pending"]
  /\ h' = [h EXCEPT ![t] = [Idle EXCEPT !.op = "register", !.step = "load", !.cred = c]]
  /\ UNCHANGED <<file, signins, crashes>>

\* passkey_auth_finish up to load_passkeys(): the challenge is taken.
AuthFinish(t, x, c) ==
  /\ h[t] = Idle
  /\ challenges[x] = "auth"
  /\ status[c] # "new"
  /\ challenges' = [challenges EXCEPT ![x] = "free"]
  /\ h' = [h EXCEPT ![t] = [Idle EXCEPT !.op = "auth", !.step = "load", !.cred = c,
                                        !.before = status[c]]]
  /\ UNCHANGED <<file, status, signins, crashes>>

DeleteUnsaved(t, c) == \* mutant: filters its copy and does not save it
  /\ h[t] = Idle
  /\ status[c] # "new"
  /\ h' = [h EXCEPT ![t] = [Idle EXCEPT !.op = "delete", !.step = "saved", !.cred = c,
                                        !.keys = Without(Load, c)]]
  /\ UNCHANGED <<file, challenges, status, signins, crashes>>

\* passkey_delete of an id that some device has, listed or not: load and filter.
Delete(t, c) ==
  /\ h[t] = Idle
  /\ status[c] # "new"
  /\ h' = [h EXCEPT ![t] = [Idle EXCEPT !.op = "delete", !.step = "truncate", !.cred = c,
                                        !.keys = Without(Load, c)]]
  /\ UNCHANGED <<file, challenges, status, signins, crashes>>

RegisterLoadUnchecked(t) == \* mutant: trusts the check of register/begin
  /\ h[t].op = "register" /\ h[t].step = "load"
  /\ h' = [h EXCEPT ![t].step = "truncate", ![t].keys = With(Load, h[t].cred)]
  /\ UNCHANGED <<file, challenges, status, signins, crashes>>

\* The second half of passkey_register_finish: load, check the quota, append.
RegisterLoad(t) ==
  /\ h[t].op = "register" /\ h[t].step = "load"
  /\ Count(Load) < MaxPasskeys
  /\ h' = [h EXCEPT ![t].step = "truncate", ![t].keys = With(Load, h[t].cred)]
  /\ UNCHANGED <<file, challenges, status, signins, crashes>>

AuthLoadEager(t) == \* mutant: counts the use before the signature is verified
  /\ h[t].op = "auth" /\ h[t].step = "load"
  /\ h[t].cred \in DOMAIN Load
  /\ h' = [h EXCEPT ![t].step = "truncate", ![t].keys = Used(Load, h[t].cred)]
  /\ UNCHANGED <<file, challenges, status, signins, crashes>>

\* The second half of passkey_auth_finish: load, find the credential, verify
\* its signature, count the use.
AuthLoad(t) ==
  LET c == h[t].cred
  IN  /\ h[t].op = "auth" /\ h[t].step = "load"
      /\ c \in DOMAIN Load
      /\ signins[c] < MaxUses
      /\ signins' = [signins EXCEPT ![c] = @ + 1]
      /\ h' = [h EXCEPT ![t].step = "truncate", ![t].keys = Used(Load, c)]
      /\ UNCHANGED <<file, challenges, status, crashes>>

\* The handler refuses after its load: quota reached ("Max reached"), unknown
\* credential, or a signature that does not verify.
Refuse(t) ==
  /\ h[t].step = "load"
  /\ h[t].op = "register" => Count(Load) >= MaxPasskeys
  /\ h' = [h EXCEPT ![t] = Idle]
  /\ UNCHANGED <<file, challenges, status, signins, crashes>>

\* save_passkeys(): open(..., "w") ...
Truncate(t) ==
  /\ h[t].step = "truncate"
  /\ file' = [text |-> "torn", keys |-> NoPasskeys, size |-> 0]
  /\ h' = [h EXCEPT ![t].step = "write"]
  /\ UNCHANGED <<challenges, status, signins, crashes>>

\* ... and the one write of the whole list, on close.
Write(t) ==
  /\ h[t].step = "write"
  /\ file' \in Overwritten(h[t].keys)
  /\ h' = [h EXCEPT ![t].step = "saved"]
  /\ UNCHANGED <<challenges, status, signins, crashes>>

\* The response.  A registration is told as added, a deletion as deleted; a
\* sign-in gets a session and unlocks the screen.
Reply(t) ==
  LET c == h[t].cred
  IN  /\ h[t].step = "saved"
      /\ status' = CASE h[t].op = "register" -> [status EXCEPT ![c] = "added"]
                     [] h[t].op = "delete"   -> [status EXCEPT ![c] = "deleted"]
                     [] OTHER                -> status
      /\ h' = [h EXCEPT ![t] = Idle]
      /\ UNCHANGED <<file, challenges, signins, crashes>>

\* A challenge outlives its time-to-live.
Expire(x) ==
  /\ challenges[x] # "free"
  /\ challenges' = [challenges EXCEPT ![x] = "free"]
  /\ UNCHANGED <<file, h, status, signins, crashes>>

\* The process is killed (os._exit in server_kill, a power loss) and starts
\* again: threads and challenges are lost, the file stays as it is.
Crash ==
  /\ crashes < MaxCrashes
  /\ crashes' = crashes + 1
  /\ h' = [t \in Threads |-> Idle]
  /\ challenges' = [x \in Tokens |-> "free"]
  /\ UNCHANGED <<file, status, signins>>

Next ==
  \/ \E t \in Threads, x \in Tokens : RegisterBegin(t, x)
  \/ \E t \in Threads, x \in Tokens : AuthBegin(t, x)
  \/ \E t \in Threads, x \in Tokens : FinishFails(t, x)
  \/ \E t \in Threads, x \in Tokens, c \in Creds : RegisterFinish(t, x, c)
  \/ \E t \in Threads, x \in Tokens, c \in Creds : AuthFinish(t, x, c)
  \/ \E t \in Threads, c \in Creds : Delete(t, c)
  \/ \E t \in Threads : RegisterLoad(t)
  \/ \E t \in Threads : AuthLoad(t)
  \/ \E t \in Threads : Refuse(t)
  \/ \E t \in Threads : Truncate(t)
  \/ \E t \in Threads : Write(t)
  \/ \E t \in Threads : Reply(t)
  \/ \E x \in Tokens : Expire(x)
  \/ Crash

Spec == Init /\ [][Next]_vars

-----------------------------------------------------------------------------
Statuses == {"new", "pending", "added", "deleted"}

Files(lists)    == [text : {"json", "torn"}, keys : lists, size : Nat]
Handlers(lists) == [op     : {"none", "register", "auth", "delete"},
                    step   : {"idle", "load", "truncate", "write", "saved"},
                    cred   : Creds \cup {NoCred},
                    keys   : lists,
                    before : Statuses]

\* A handler at work is that of some request, which names a credential.
AtWork(r) ==
  /\ r.step # "idle" => r.op # "none"
  /\ r.op # "none" => r.cred \in Creds

(* Type correctness of the file, the handlers and the histories.           *)
TypeOK ==
  /\ file \in Files({file.keys}) /\ IsList(file.keys)
  /\ challenges \in [Tokens -> {"free", "register", "auth"}]
  /\ h \in [Threads -> Handlers({h[t].keys : t \in Threads})]
  /\ \A t \in Threads : IsList(h[t].keys) /\ AtWork(h[t])
  /\ status \in [Creds -> Statuses]
  /\ signins \in [Creds -> Nat]
  /\ crashes \in 0..MaxCrashes

\* The lists that are in the file or that a handler is about to save.
Lists == {Load} \cup {h[t].keys : t \in Threads}

(* The quota holds whatever the handlers do concurrently: two clients      *)
(* that pass the check in register/begin together cannot both be added     *)
(* beyond config.MAX_PASSKEYS, as every list saved was loaded and checked  *)
(* as a whole (routes/auth.py:413).                                        *)
QuotaRespected == \A keys \in Lists : Count(keys) <= MaxPasskeys

(* Lost updates lose uses but invent none: no interleaving, crash or torn  *)
(* file makes a passkey's use_count exceed its successful sign-ins, nor    *)
(* lets the server accept a credential that no registration verified.      *)
NeverOvercounted ==
  \A keys \in Lists : \A c \in DOMAIN keys :
    keys[c] <= signins[c] /\ status[c] # "new"

\* The sign-in of t is granted: the session is set, the screen unlocks.
SignedIn(t) == h[t].op = "auth" /\ h[t].step = "saved"

(* A device whose passkey was deleted, and whose sign-in starts after the  *)
(* deletion was confirmed, is not signed in ("This device will no longer   *)
(* be able to sign in or unlock", static/app.js:1564).                     *)
DeletedStaysOut == \A t \in Threads : SignedIn(t) => h[t].before # "deleted"

\* The store as its clients see it when saves do not overlap: while a save is
\* between truncation and write, the list that is being written.
Stored ==
  IF \E t \in Threads : h[t].step = "write"
    THEN h[CHOOSE t \in Threads : h[t].step = "write"].keys
    ELSE Load

Abstract == INSTANCE PasskeyStore WITH passkeys <- Stored
=============================================================================
