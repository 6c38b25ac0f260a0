--------------------------- MODULE SessionsProofs ---------------------------
(***************************************************************************)
(* For any number of browsers and of requests in flight, any two lifetimes *)
(* in either order and any restarts: a browser in use stays signed in, and *)
(* a sign-out that overtakes no response is final.                         *)
(***************************************************************************)
EXTENDS Sessions, TLAPS

(* Time stands still while a request is in flight: the cookie it brings is *)
(* as old as the clock and lasts for the shorter lifetime at least.  Only  *)
(* a poll can find a session or none; what it answers leaves the jar alone *)
(* in the second case.                                                     *)
Answers ==
  \A r \in Requests :
    /\ req[r].kind \in SignIns /\ req[r].step \notin {"idle", "sent"} => req[r].authed
    /\ req[r].step = "sent" => ~req[r].authed
    /\ req[r].kind = "logout" => ~req[r].authed
    /\ req[r].step = "idle" => req[r] = Idle
    /\ req[r].step = "answered" /\ req[r].authed =>
         /\ req[r].cookie \in Cookie
         /\ req[r].cookie.at = clock
         /\ clock + Shortest <= req[r].cookie.until
    /\ req[r].step = "answered" /\ ~req[r].authed =>
         req[r].cookie = IF req[r].kind = "logout" THEN NoCookie ELSE Keep

(* A browser that was told it is signed in holds a cookie no older than    *)
(* the last response that brought one.                                     *)
HoldsCookie ==
  \A b \in Browsers : SignedIn(b) =>
    /\ jar[b] \in Cookie
    /\ last[b] <= jar[b].at
    /\ jar[b].at + Shortest <= jar[b].until

(* After a sign-out that overtook nothing the browser has no cookie, and   *)
(* the only request that could bring one is a new sign-in.                 *)
HoldsNone ==
  \A b \in Browsers : choice[b] = "logout" /\ b \notin overtaken =>
    /\ jar[b] = NoCookie
    /\ \A r \in Requests : req[r].who = b /\ HasSession(req[r]) => req[r].kind \in SignIns

IInv == TypeOK /\ Answers /\ HoldsCookie /\ HoldsNone

-----------------------------------------------------------------------------
LEMMA IdleType ==
  /\ Idle.step = "idle" /\ Idle.who = Nobody /\ Idle.kind = "poll" /\ ~Idle.authed
  /\ Idle.cookie = NoCookie
BY DEF Idle

(* The application never has a lifetime below the shorter of the two.      *)
LEMMA LifetimeLong ==
  Shortest \in Nat /\ (TypeOK => lifetime \in Nat /\ Shortest <= lifetime)
BY TTLAssumption DEF TypeOK, Shortest

LEMMA InitIInv == Init => IInv
<1> SUFFICES ASSUME Init PROVE IInv
  OBVIOUS
<1>1. TypeOK
  BY IdleType, BoundAssumption DEF Init, TypeOK, Request, Idle, Kinds
<1>2. Answers
  BY IdleType, SignInAssumption DEF Init, Answers
<1>3. HoldsCookie /\ HoldsNone
  BY DEF Init, HoldsCookie, HoldsNone, SignedIn
<1> QED BY <1>1, <1>2, <1>3 DEF IInv

(* Time passes only when no request is in flight.                          *)
LEMMA TickIInv == ASSUME IInv, Tick PROVE IInv'
<1>1. \A r \in Requests : req[r].step = "idle" /\ req[r] = Idle
  BY DEF IInv, TypeOK, Answers, Tick, InFlight
<1>2. TypeOK'
  BY BoundAssumption DEF IInv, TypeOK, Tick
<1>3. Answers'
  BY <1>1, IdleType, SignInAssumption DEF Tick, Answers
<1>4. HoldsCookie' /\ HoldsNone'
  BY DEF IInv, Tick, HoldsCookie, HoldsNone, SignedIn
<1> QED BY <1>2, <1>3, <1>4 DEF IInv

(* A request is sent.  After a final sign-out it carries no cookie.        *)
LEMMA SendIInv ==
  ASSUME IInv, NEW r \in Requests, NEW b \in Browsers, NEW k \in Kinds, Send(r, b, k)
  PROVE  IInv'
<1> DEFINE q == [step |-> "sent", who |-> b, kind |-> k, authed |-> FALSE, cookie |-> jar[b]]
<1>1. /\ TypeOK /\ Answers /\ HoldsCookie /\ HoldsNone
      /\ req' = [req EXCEPT ![r] = q]
      /\ UNCHANGED <<clock, lifetime, jar, choice, last, overtaken>>
  BY DEF IInv, Send
<1>2. TypeOK'
  BY <1>1 DEF Request, TypeOK
<1>3. Answers'
  BY <1>1 DEF TypeOK, Answers
<1>4. HoldsCookie'
  BY <1>1 DEF HoldsCookie, SignedIn
<1>5. HoldsNone'
  BY <1>1 DEF TypeOK, HoldsNone, HasSession
<1> QED BY <1>2, <1>3, <1>4, <1>5 DEF IInv

(* A view runs.  Only a sign-in and a poll with a cookie find a session.   *)
LEMMA HandleIInv == ASSUME IInv, NEW r \in Requests, Handle(r) PROVE IInv'
<1> DEFINE k == req[r].kind
           a == AuthedAfter(req[r].cookie, k)
           q == [req[r] EXCEPT !.step = "handled", !.cookie = NoCookie, !.authed = a]
<1>1. /\ TypeOK /\ Answers /\ HoldsCookie /\ HoldsNone
      /\ req[r].step = "sent" /\ ~req[r].authed
      /\ req[r] \in Request /\ k \in Kinds
      /\ UNCHANGED <<clock, jar, choice, last, overtaken>>
  BY DEF IInv, Handle, TypeOK, Answers, Request
<1>2. a \in BOOLEAN
  BY DEF AuthedAfter, Fresh
<1>3. /\ k \in SignIns => a
      /\ k = "logout" => ~a
      /\ a => k \in SignIns \/ HasSession(req[r])
  BY <1>1, SignInAssumption DEF AuthedAfter, Kinds, Fresh, HasSession
<1>4. req' = [req EXCEPT ![r] = q]
  BY <1>1 DEF Handle, TypeOK
<1>5. q \in Request /\ q.who = req[r].who /\ q.step = "handled" /\ q.kind = k /\ q.authed = a
  BY <1>1, <1>2 DEF Request
<1>6. TypeOK'
  <2>1. lifetime' \in {TTL, Remember}
    BY <1>1 DEF TypeOK, Handle, LifetimeAfter
  <2> HIDE DEF q
  <2> QED BY <1>1, <1>4, <1>5, <2>1 DEF TypeOK
<1>. HIDE DEF q, a
<1>7. Answers'
  BY <1>1, <1>3, <1>4, <1>5 DEF TypeOK, Answers
<1>8. HoldsCookie'
  BY <1>1 DEF HoldsCookie, SignedIn
<1>9. HoldsNone'
  BY <1>1, <1>3, <1>4, <1>5 DEF TypeOK, HoldsNone, HasSession
<1> QED BY <1>6, <1>7, <1>8, <1>9 DEF IInv

(* The response is finished, with the lifetime of this moment.             *)
LEMMA RespondIInv == ASSUME IInv, NEW r \in Requests, Respond(r) PROVE IInv'
<1> DEFINE c == SetCookie(req[r])
<1>1. /\ TypeOK /\ Answers /\ HoldsCookie /\ HoldsNone
      /\ req[r].step = "handled"
      /\ req' = [req EXCEPT ![r].step = "answered", ![r].cookie = c]
      /\ UNCHANGED <<clock, lifetime, jar, choice, last, overtaken>>
  BY DEF IInv, Respond
<1>2. lifetime \in Nat /\ Shortest <= lifetime /\ clock \in Nat /\ Shortest \in Nat
  BY <1>1, LifetimeLong DEF TypeOK
<1>3. /\ req[r].authed => c \in Cookie /\ c.at = clock /\ clock + Shortest <= c.until
      /\ ~req[r].authed => c = IF req[r].kind = "logout" THEN NoCookie ELSE Keep
  <2>1. req[r].authed \in BOOLEAN /\ (req[r].kind = "logout" => ~req[r].authed)
    BY <1>1 DEF TypeOK, Request, Answers
  <2>2. CASE req[r].authed
    BY <1>2, <2>1, <2>2 DEF SetCookie, Cookie
  <2>3. CASE ~req[r].authed
    BY <2>3 DEF SetCookie
  <2> QED BY <2>1, <2>2, <2>3
<1>4. c \in Cookie \cup {NoCookie}
  BY <1>3 DEF Cookie, Keep
<1>5. TypeOK'
  <2>1. req'[r] = [req[r] EXCEPT !.step = "answered", !.cookie = c]
    BY <1>1 DEF TypeOK
  <2>2. req'[r] \in Request /\ req'[r].who = req[r].who
    BY <1>1, <1>4, <2>1 DEF TypeOK, Request
  <2>3. req' = [req EXCEPT ![r] = req'[r]]
    BY <1>1, <2>1 DEF TypeOK
  <2> QED BY <1>1, <2>2, <2>3 DEF TypeOK
<1>6. Answers'
  BY <1>1, <1>3 DEF TypeOK, Answers
<1>7. HoldsCookie' /\ HoldsNone'
  BY <1>1 DEF TypeOK, HoldsCookie, HoldsNone, HasSession, SignedIn
<1> QED BY <1>5, <1>6, <1>7 DEF IInv

(* The response arrives: a session brings a cookie of this moment, a       *)
(* sign-out takes the cookie away, any other response leaves the jar.      *)
LEMMA ArriveIInv == ASSUME IInv, NEW r \in Requests, Arrive(r) PROVE IInv'
<1> DEFINE b == req[r].who
           q == req[r]
<1>1. /\ TypeOK /\ Answers /\ HoldsCookie /\ HoldsNone
      /\ q.step = "answered" /\ b \in Browsers
      /\ req' = [req EXCEPT ![r] = Idle]
      /\ UNCHANGED <<clock, lifetime>>
  BY DEF IInv, TypeOK, Arrive
<1>2. clock \in Nat /\ clock >= 1 /\ Shortest \in Nat /\ clock <= MaxClock
  BY <1>1, LifetimeLong, BoundAssumption DEF TypeOK
<1>3. CASE q.authed
  <2>1. q.cookie \in Cookie /\ q.cookie.at = clock /\ clock + Shortest <= q.cookie.until
    BY <1>1, <1>3 DEF Answers
  <2>2. q.cookie # Keep
    BY <1>2, <2>1 DEF Keep
  <2>3. q.kind # "logout"
    BY <1>1, <1>3 DEF Answers
  <2>4. /\ jar' = [jar EXCEPT ![b] = q.cookie]
        /\ last' = [last EXCEPT ![b] = clock]
        /\ choice' = IF q.kind = "poll" THEN choice ELSE [choice EXCEPT ![b] = q.kind]
        /\ overtaken' = IF q.kind = "poll" THEN overtaken ELSE overtaken \ {b}
    BY <1>3, <2>2, <2>3 DEF Arrive
  <2>5. q.kind # "poll" => q.kind \in SignIns
    BY <1>1, <2>3 DEF Request, TypeOK, Kinds
  <2>6. TypeOK'
    <3>1. jar' \in [Browsers -> Cookie \cup {NoCookie}]
      BY <1>1, <2>1, <2>4 DEF TypeOK
    <3>2. last' \in [Browsers -> 0..MaxClock] /\ overtaken' \subseteq Browsers
      BY <1>1, <1>2, <2>4, BoundAssumption DEF TypeOK
    <3>3. choice' \in [Browsers -> {"none", "login", "remember", "passkey", "logout"}]
      BY <1>1, <2>4, <2>5, SignInAssumption DEF TypeOK
    <3>4. /\ req' \in [Requests -> Request]
          /\ \A s \in Requests : req'[s].step # "idle" => req'[s].who \in Browsers
      BY <1>1, IdleType DEF TypeOK, Request, Idle, Kinds
    <3> QED BY <1>1, <3>1, <3>2, <3>3, <3>4 DEF TypeOK
  <2>7. HoldsCookie'
    BY <1>1, <1>2, <2>1, <2>4, <2>5, SignInAssumption DEF TypeOK, HoldsCookie, SignedIn, Cookie
  <2>8. HoldsNone'
    BY <1>1, <1>3, <2>3, <2>4, <2>5, IdleType, NamesAssumption, SignInAssumption
       DEF TypeOK, HoldsNone, HasSession
  <2>9. Answers'
    BY <1>1, IdleType, SignInAssumption DEF TypeOK, Answers
  <2> QED BY <2>6, <2>7, <2>8, <2>9 DEF IInv
<1>4. CASE ~q.authed /\ q.kind = "logout"
  <2>1. q.cookie = NoCookie /\ NoCookie # Keep
    BY <1>1, <1>4, CookieAssumption DEF Answers, Keep, Cookie
  <2>2. /\ jar' = [jar EXCEPT ![b] = NoCookie]
        /\ last' = last
        /\ choice' = [choice EXCEPT ![b] = "logout"]
        /\ overtaken' = IF Awaits(b, r) THEN overtaken \cup {b} ELSE overtaken \ {b}
    BY <1>4, <2>1 DEF Arrive
  <2>3. TypeOK'
    BY <1>1, <2>2, IdleType, SignInAssumption DEF TypeOK, Request, Idle, Kinds
  <2>4. HoldsCookie'
    BY <1>1, <2>2 DEF TypeOK, HoldsCookie, SignedIn
  <2>5. HoldsNone'
    BY <1>1, <1>4, <2>2, IdleType DEF TypeOK, HoldsNone, Awaits, HasSession
  <2>6. Answers'
    BY <1>1, IdleType, SignInAssumption DEF TypeOK, Answers
  <2> QED BY <2>3, <2>4, <2>5, <2>6 DEF IInv
<1>5. CASE ~q.authed /\ q.kind # "logout"
  <2>1. q.kind = "poll" /\ q.cookie = Keep
    BY <1>1, <1>5 DEF Request, TypeOK, Answers, Kinds
  <2>2. UNCHANGED <<jar, last, choice, overtaken>>
    BY <1>5, <2>1 DEF Arrive
  <2>3. TypeOK'
    BY <1>1, <2>2, IdleType DEF TypeOK, Request, Idle, Kinds
  <2>4. Answers' /\ HoldsCookie' /\ HoldsNone'
    BY <1>1, <2>2, IdleType, SignInAssumption
       DEF TypeOK, Answers, HoldsCookie, HoldsNone, HasSession, SignedIn
  <2> QED BY <2>3, <2>4 DEF IInv
<1> QED BY <1>3, <1>4, <1>5

(* Requests end without an answer.                                         *)
LEMMA EndIInv ==
  ASSUME IInv, Restart \/ \E r \in Requests : Lose(r)
  PROVE  IInv'
<1>1. /\ TypeOK /\ Answers /\ HoldsCookie /\ HoldsNone
      /\ UNCHANGED <<clock, jar, choice, last, overtaken>>
      /\ lifetime' \in {TTL, Remember}
  BY DEF IInv, TypeOK, Restart, Lose
<1>2. \A r \in Requests : req'[r] = req[r] \/ req'[r] = Idle
  BY <1>1 DEF TypeOK, Restart, Lose
<1>3. TypeOK'
  <2>1. CASE Restart
    BY <1>1, <2>1, IdleType DEF Restart, TypeOK, Request, Idle, Kinds
  <2>2. CASE \E r \in Requests : Lose(r)
    BY <1>1, <2>2, IdleType DEF Lose, TypeOK, Request, Idle, Kinds
  <2> QED BY <2>1, <2>2
<1>4. Answers'
  BY <1>1, <1>2, IdleType, SignInAssumption DEF Answers
<1>5. HoldsCookie' /\ HoldsNone'
  BY <1>1, <1>2, IdleType DEF HoldsCookie, HoldsNone, HasSession, SignedIn
<1> QED BY <1>3, <1>4, <1>5 DEF IInv

LEMMA NextIInv == IInv /\ [Next]_vars => IInv'
<1> SUFFICES ASSUME IInv, [Next]_vars PROVE IInv'
  OBVIOUS
<1>1. CASE UNCHANGED vars
  BY <1>1 DEF vars, IInv, TypeOK, Answers, HoldsCookie, HoldsNone, HasSession, SignedIn
<1>2. CASE Next
  BY <1>2, TickIInv, SendIInv, HandleIInv, RespondIInv, ArriveIInv, EndIInv DEF Next
<1> QED BY <1>1, <1>2

(* The invariant holds however requests overlap, arrive or are lost.       *)
THEOREM InductiveInvariant == Spec => []IInv
BY InitIInv, NextIInv, PTL DEF Spec

(* Cookies, requests and the shared lifetime are well typed.               *)
THEOREM TypeCorrect == Spec => []TypeOK
<1>1. IInv => TypeOK
  BY DEF IInv
<1> QED BY <1>1, InductiveInvariant, PTL

(* Neither the sign-ins of others, nor overlapping requests, nor a restart *)
(* sign out a browser that was used within the shorter of the lifetimes.    *)
THEOREM ActiveKept == Spec => []ActiveStaysIn
<1>1. ASSUME IInv PROVE ActiveStaysIn
  <2> SUFFICES ASSUME NEW b \in Browsers, SignedIn(b), clock - last[b] <= Shortest
               PROVE  Accepted(b)
    BY DEF ActiveStaysIn
  <2>1. jar[b] \in Cookie /\ last[b] <= jar[b].at /\ jar[b].at + Shortest <= jar[b].until
    BY <1>1 DEF IInv, HoldsCookie
  <2>2. /\ clock \in Nat /\ last[b] \in Nat /\ Shortest \in Nat
        /\ lifetime \in Nat /\ Shortest <= lifetime
    BY <1>1, LifetimeLong DEF IInv, TypeOK
  <2> QED BY <2>1, <2>2, CookieAssumption DEF Accepted, Fresh, Cookie
<1> QED BY <1>1, InductiveInvariant, PTL

(* A sign-out that overtakes no response of its browser is final.          *)
THEOREM SignOutFinal == Spec => []SignedOutStaysOut
<1>1. IInv => SignedOutStaysOut
  BY DEF IInv, HoldsNone, SignedOutStaysOut, Accepted, Fresh
<1> QED BY <1>1, InductiveInvariant, PTL
=============================================================================
