----------------------------- MODULE LoginCode -----------------------------
(***************************************************************************)
(* The login code of config.py: two module globals, the code and its       *)
(* expiry, that the handler of SIGUSR1 in server.py replaces one after the *)
(* other while request threads judge the one and compare the other.        *)
(*                                                                         *)
(* Python runs a signal handler in the main thread between any two of its  *)
(* steps, hence also within a handler that is not finished and within      *)
(* banner(), after which the server takes requests: they form a stack.     *)
(* Codes are numbered as they are drawn, so two are never equal.  Nothing  *)
(* bounds the time a login takes between its two looks; a handler, with    *)
(* those that interrupt it, takes at most HandlerTime.  Who may try at all *)
(* is the business of RateLimiter.                                         *)
(***************************************************************************)
EXTENDS HostClock, Sequences

CONSTANTS
  CodeTTL,     \* CODE_TTL_SECONDS
  HandlerTime, \* longest duration of a handler of SIGUSR1
  MaxFrames,   \* bound of the model: frames that interrupt one another
  MaxCodes     \* bound of the model: codes that are ever drawn

ASSUME CodeAssumption ==
  CodeTTL \in Nat /\ HandlerTime \in Nat /\ MaxFrames \in Nat /\ MaxCodes \in Nat \ {0}

VARIABLES
  code,     \* LOGIN_CODE
  expires,  \* LOGIN_CODE_EXPIRES
  frames,   \* the main thread: banner(), the handlers of SIGUSR1, the innermost last
  login,    \* per thread: the attempt to log in
  drawn,    \* history: when each code was drawn
  printed   \* history: the codes the server has printed since it started

codeState == <<code, expires, frames, login, drawn, printed>>

NotTrying == [step |-> "idle", tried |-> 0, at |-> 0]

\* A frame at a step: a handler as it starts, banner() before it looks at the code.
Frame(of, step) == [of |-> of, step |-> step, code |-> 0, since |-> clock]

\* The import of config has drawn the first code; the handler is registered,
\* and banner() will print the code.
CodeInit ==
  /\ clock = Start
  /\ code = 1
  /\ expires = clock + CodeTTL
  /\ frames = <<Frame("banner", "return")>>
  /\ login = [t \in Threads |-> NotTrying]
  /\ drawn = <<clock>>
  /\ printed = {}

\* The server ends, on a SIGUSR1 before that too, and starts again.
ServerRestarts ==
  /\ Len(drawn) < MaxCodes
  /\ drawn' = Append(drawn, clock)
  /\ code' = Len(drawn')
  /\ expires' = clock + CodeTTL
  /\ frames' = <<Frame("banner", "return")>>
  /\ login' = [t \in Threads |-> NotTrying]
  /\ printed' = {}
  /\ UNCHANGED clock

CodeTick ==
  /\ clock < MaxClock
  /\ \A i \in DOMAIN frames :
       frames[i].of = "signal" => clock < frames[i].since + HandlerTime
  /\ clock' = clock + 1
  /\ UNCHANGED <<code, expires, frames, login, drawn, printed>>

-----------------------------------------------------------------------------
\* SIGUSR1 arrives and its handler starts on top of what the main thread does.
Signal ==
  /\ Len(frames) < MaxFrames
  /\ Len(drawn) + Len(frames) < MaxCodes
  /\ frames' = Append(frames, Frame("signal", "assign"))
  /\ UNCHANGED <<clock, code, expires, login, drawn, printed>>

\* The innermost frame has its turn, at this step.
At(step) == frames # <<>> /\ frames[Len(frames)].step = step
Go(step, c) == frames' = [frames EXCEPT ![Len(frames)] = [@ EXCEPT !.step = step, !.code = c]]

ExpiryFirst == \* mutant: the expiry is set first, then the code is drawn
  \/ /\ At("assign")
     /\ expires' = clock + CodeTTL
     /\ Go("expire", 0)
     /\ UNCHANGED <<clock, code, login, drawn, printed>>
  \/ /\ At("expire")
     /\ drawn' = Append(drawn, clock)
     /\ code' = Len(drawn')
     /\ Go("return", 0)
     /\ UNCHANGED <<clock, expires, login, printed>>

OnlyExpired == \* mutant: a code that is still valid keeps its expiry
  \/ /\ At("assign")
     /\ drawn' = Append(drawn, clock)
     /\ code' = Len(drawn')
     /\ Go("expire", 0)
     /\ UNCHANGED <<clock, expires, login, printed>>
  \/ /\ At("expire")
     /\ expires' = IF clock > expires THEN clock + CodeTTL ELSE expires
     /\ Go("return", 0)
     /\ UNCHANGED <<clock, code, login, drawn, printed>>

\* regenerate_login_code() assigns the code, and then its expiry.
Regenerate ==
  \/ /\ At("assign")
     /\ drawn' = Append(drawn, clock)
     /\ code' = Len(drawn')
     /\ Go("expire", 0)
     /\ UNCHANGED <<clock, expires, login, printed>>
  \/ /\ At("expire")
     /\ expires' = clock + CodeTTL
     /\ Go("return", 0)
     /\ UNCHANGED <<clock, code, login, drawn, printed>>

\* It returns what the global holds by now, which the handler prints; so
\* does banner().
Announce ==
  \/ /\ At("return")
     /\ Go("print", code)
     /\ UNCHANGED <<clock, code, expires, login, drawn, printed>>
  \/ /\ At("print")
     /\ printed' = printed \cup {frames[Len(frames)].code}
     /\ frames' = SubSeq(frames, 1, Len(frames) - 1)
     /\ UNCHANGED <<clock, code, expires, login, drawn>>

-----------------------------------------------------------------------------
\* login() refuses an attempt if the code has expired ...
TryCode(t, c) ==
  /\ login[t].step = "idle"
  /\ \A i \in DOMAIN frames : frames[i].of # "banner"
  /\ clock <= expires
  /\ login' = [login EXCEPT ![t] = [step |-> "compare", tried |-> c, at |-> clock]]
  /\ UNCHANGED <<clock, code, expires, frames, drawn, printed>>

\* ... and then compares: the attempt succeeds if c is the code by now.
CompareCode(t) ==
  /\ login[t].step = "compare"
  /\ login' = [login EXCEPT ![t] = NotTrying]
  /\ UNCHANGED <<clock, code, expires, frames, drawn, printed>>

CodeNext ==
  \/ CodeTick
  \/ ServerRestarts
  \/ Signal
  \/ Regenerate
  \/ Announce
  \/ \E t \in Threads : \E c \in DOMAIN drawn : TryCode(t, c)
  \/ \E t \in Threads : CompareCode(t)

-----------------------------------------------------------------------------
CodeTypeOK ==
  /\ clock \in Nat
  /\ drawn \in Seq(Nat)
  /\ code \in DOMAIN drawn
  /\ expires \in Nat
  /\ frames \in Seq([of    : {"banner", "signal"},
                    step  : {"assign", "expire", "return", "print"},
                    code  : Nat,
                    since : Nat])
  /\ login \in [Threads -> [step : {"idle", "compare"}, tried : Nat, at : Nat]]
  /\ printed \subseteq DOMAIN drawn

(* "expired (10 min TTL)" (server.py:264): however signals and logins are  *)
(* interleaved, no code is accepted that was tried later than its time to  *)
(* live after it was drawn, and the time of a handler, since a handler may *)
(* set the expiry of the code that one inside of it has drawn.  An old     *)
(* code whose successor is on its way does not inherit the successor's     *)
(* expiry, since the code is replaced first.                               *)
CodeInTime ==
  \A t \in Threads :
    login[t].step = "compare" /\ login[t].tried = code =>
      login[t].at <= drawn[code] + CodeTTL + HandlerTime

(* "The new code is printed" (server.py:267): when no handler is running   *)
(* the code in force has been printed and its life is the one announced,   *)
(* or longer by the time of a handler, though handlers interrupt one       *)
(* another, and banner(), between any two of their steps.                  *)
AsPrinted ==
  frames = <<>> =>
    /\ code \in printed
    /\ expires - drawn[code] \in CodeTTL..(CodeTTL + HandlerTime)
=============================================================================
