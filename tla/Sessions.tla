------------------------------ MODULE Sessions ------------------------------
(***************************************************************************)
(* Sessions: the login and logout handlers of routes/auth.py, the lifetime *)
(* that server.py and login() give to the application, and the cookie jars *)
(* of the browsers.                                                        *)
(*                                                                         *)
(* A session lives in the browser only: Flask (external) accepts a signed  *)
(* cookie that is no older than the lifetime the application has NOW, and  *)
(* answers every request of a permanent session with a new cookie.  The    *)
(* lifetime is one attribute of the application, shared by all threads.    *)
(*                                                                         *)
(* A request takes four steps: it is sent with the cookie the browser has  *)
(* then, the view runs, the cookie is made from the session when the       *)
(* response is finished, and the response reaches the browser.  Requests   *)
(* of one browser overlap (the panel polls), they are handled and their    *)
(* responses arrive in any order.  Time is in units of days;               *)
(* requests are so short that it does not pass while one is in flight.     *)
(* Sign-ins are those that succeed; the rate limiter is RateLimiter, the   *)
(* passkeys are Passkeys.                                                  *)
(***************************************************************************)
EXTENDS Integers

CONSTANTS
  Browsers,
  Requests,   \* request threads
  Nobody,     \* a thread that serves no browser
  NoCookie,   \* an empty cookie jar
  TTL,        \* SESSION_TTL_SECONDS
  Remember,   \* SESSION_TTL_REMEMBER_SECONDS
  SignIns,    \* the ways of signing in that are used
  Restarts,   \* bound of the model: whether the server is restarted
  MaxClock    \* bound of the model: the clock stops here

ASSUME NamesAssumption == Nobody \notin Browsers
ASSUME TTLAssumption   == TTL \in Nat /\ Remember \in Nat
ASSUME SignInAssumption == SignIns \subseteq {"login", "remember", "passkey"}
ASSUME BoundAssumption == Restarts \in BOOLEAN /\ MaxClock \in Nat \ {0}

VARIABLES
  clock,
  lifetime,  \* app.permanent_session_lifetime
  jar,       \* per browser: its cookie [at, until]
  req,       \* per thread: its request [step, who, kind, authed, cookie]
  choice,    \* history, per browser: the last sign-in or sign-out it was told
  last,      \* history, per browser: when it last received a session cookie
  overtaken  \* history: the browsers whose last sign-out overtook a response

vars == <<clock, lifetime, jar, req, choice, last, overtaken>>

Kinds  == {"poll", "logout"} \cup SignIns
Cookie == [at : Nat, until : Nat]
ASSUME CookieAssumption == NoCookie \notin Cookie

Keep   == [at |-> 0, until |-> 0]   \* a response without a Set-Cookie header
Idle   == [step |-> "idle", who |-> Nobody, kind |-> "poll", authed |-> FALSE,
           cookie |-> NoCookie]

\* A browser offers the cookie while it has not expired, and Flask accepts
\* it when it is not too old for the lifetime of now.
Fresh(c)    == c # NoCookie /\ clock <= c.until /\ clock - c.at <= lifetime
Accepted(b) == Fresh(jar[b])

InFlight(b) == \E r \in Requests : req[r].who = b

-----------------------------------------------------------------------------
Init ==
  /\ clock = 1
  /\ lifetime = TTL
  /\ jar = [b \in Browsers |-> NoCookie]
  /\ req = [r \in Requests |-> Idle]
  /\ choice = [b \in Browsers |-> "none"]
  /\ last = [b \in Browsers |-> 0]
  /\ overtaken = {}

Tick ==
  /\ clock < MaxClock
  /\ \A b \in Browsers : ~InFlight(b)
  /\ clock' = clock + 1
  /\ UNCHANGED <<lifetime, jar, req, choice, last, overtaken>>

\* Browser b sends a request, with the cookie it has.
Send(r, b, k) ==
  /\ req[r] = Idle
  /\ req' = [req EXCEPT ![r] = [step |-> "sent", who |-> b, kind |-> k,
                                authed |-> FALSE, cookie |-> jar[b]]]
  /\ UNCHANGED <<clock, lifetime, jar, choice, last, overtaken>>

\* The session at the end of a view that was called with cookie c, and the
\* lifetime it leaves behind: login() sets the attribute of the application,
\* passkey_auth_finish() leaves it as it is, logout() clears the session.
AuthedAfterAll(c, k) == \* mutant: a sign-out keeps the session
  k \in {"login", "remember", "passkey"} \/ Fresh(c)

AuthedAfter(c, k) ==
  CASE k \in {"login", "remember", "passkey"} -> TRUE
    [] k = "logout"                           -> FALSE
    [] OTHER                                  -> Fresh(c)

LifetimeAfter(k) ==
  CASE k = "login"    -> TTL
    [] k = "remember" -> Remember
    [] OTHER          -> lifetime

\* The view of a request runs.
Handle(r) ==
  /\ req[r].step = "sent"
  /\ lifetime' = LifetimeAfter(req[r].kind)
  /\ req' = [req EXCEPT ![r].step = "handled", ![r].cookie = NoCookie,
                        ![r].authed = AuthedAfter(req[r].cookie, req[r].kind)]
  /\ UNCHANGED <<clock, jar, choice, last, overtaken>>

\* The Set-Cookie header for a request: none for a poll without a session,
\* a deletion for a session that was cleared.
SetCookie(q) ==
  CASE q.authed          -> [at |-> clock, until |-> clock + lifetime]
    [] q.kind = "logout" -> NoCookie
    [] OTHER             -> Keep

\* The response is finished: save_session().
Respond(r) ==
  /\ req[r].step = "handled"
  /\ req' = [req EXCEPT ![r].step = "answered", ![r].cookie = SetCookie(req[r])]
  /\ UNCHANGED <<clock, lifetime, jar, choice, last, overtaken>>

\* A request that has found a session, or may find one with its cookie.
HasSession(q) ==
  \/ q.authed
  \/ q.step = "sent" /\ q.kind = "poll" /\ q.cookie # NoCookie

\* Such a request other than that of r is in flight.
Awaits(b, r) == \E s \in Requests \ {r} : req[s].who = b /\ HasSession(req[s])

\* The response reaches the browser.
Arrive(r) ==
  LET b == req[r].who
      q == req[r]
  IN  /\ q.step = "answered"
      /\ jar' = IF q.cookie = Keep THEN jar ELSE [jar EXCEPT ![b] = q.cookie]
      /\ choice' = IF q.kind = "poll" THEN choice ELSE [choice EXCEPT ![b] = q.kind]
      /\ last' = IF q.authed THEN [last EXCEPT ![b] = clock] ELSE last
      /\ overtaken' = IF q.kind = "poll" THEN overtaken
                      ELSE IF q.kind = "logout" /\ Awaits(b, r) THEN overtaken \cup {b}
                      ELSE overtaken \ {b}
      /\ req' = [req EXCEPT ![r] = Idle]
      /\ UNCHANGED <<clock, lifetime>>

\* The connection breaks: the browser does not learn whether the view ran.
Lose(r) ==
  /\ req[r].step # "idle"
  /\ req' = [req EXCEPT ![r] = Idle]
  /\ UNCHANGED <<clock, lifetime, jar, choice, last, overtaken>>

RestartNewKey == \* mutant: the secret key does not survive
  /\ Restarts
  /\ lifetime' = TTL
  /\ jar' = [b \in Browsers |-> NoCookie]
  /\ req' = [r \in Requests |-> Idle]
  /\ UNCHANGED <<clock, choice, last, overtaken>>

\* The server starts again with the secret key it had, so that cookies keep
\* their signature, and with the lifetime that create_app() sets.
Restart ==
  /\ Restarts
  /\ lifetime' = TTL
  /\ req' = [r \in Requests |-> Idle]
  /\ UNCHANGED <<clock, jar, choice, last, overtaken>>

Next ==
  \/ Tick
  \/ \E r \in Requests, b \in Browsers, k \in Kinds : Send(r, b, k)
  \/ \E r \in Requests : Handle(r)
  \/ \E r \in Requests : Respond(r)
  \/ \E r \in Requests : Arrive(r)
  \/ \E r \in Requests : Lose(r)
  \/ Restart

Spec == Init /\ [][Next]_vars

-----------------------------------------------------------------------------
Request == [step   : {"idle", "sent", "handled", "answered"},
                   who    : Browsers \cup {Nobody},
                   kind   : Kinds,
                   authed : BOOLEAN,
                   cookie : Cookie \cup {NoCookie}]

(* Type correctness; a browser that is not served has no request.          *)
TypeOK ==
  /\ clock \in 1..MaxClock
  /\ lifetime \in {TTL, Remember}
  /\ jar \in [Browsers -> Cookie \cup {NoCookie}]
  /\ req \in [Requests -> Request]
  /\ \A r \in Requests : req[r].step # "idle" => req[r].who \in Browsers
  /\ choice \in [Browsers -> {"none", "login", "remember", "passkey", "logout"}]
  /\ last \in [Browsers -> 0..MaxClock]
  /\ overtaken \subseteq Browsers

SignedIn(b) == choice[b] \in {"login", "remember", "passkey"}

\* The lifetimes are two independent settings (config.py:54-55).
Shortest == IF TTL <= Remember THEN TTL ELSE Remember

(* A browser that was signed in and used within the shorter of the two     *)
(* lifetimes is not thrown out: not by the sign-ins of others that change  *)
(* the lifetime of the application under it, not by its own polls in       *)
(* flight, not by a restart of the server ("sessions survive server        *)
(* restart", config.py:85).                                                *)
ActiveStaysIn ==
  \A b \in Browsers : SignedIn(b) /\ clock - last[b] <= Shortest => Accepted(b)

(* A sign-out is final, on this browser and whatever others do, unless it  *)
(* overtook the response of another request of the same browser.           *)
SignedOutStaysOut ==
  \A b \in Browsers : choice[b] = "logout" /\ b \notin overtaken => ~Accepted(b)

(* "Dynamic per-session lifetime ... without mutating app config globally" *)
(* (routes/auth.py:258): whether a browser is signed in changes with time  *)
(* and by its own responses, never by a request of another one.            *)
LifetimePerSession ==
  [][\A b \in Browsers : clock' = clock /\ jar'[b] = jar[b] =>
       (Accepted(b)' <=> Accepted(b))]_vars
=============================================================================
