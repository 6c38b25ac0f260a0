--------------------------- MODULE AttemptWindow ---------------------------
(***************************************************************************)
(* What the rate limiter of utils/ratelimit.py promises, with no buckets   *)
(* and no collection: a verdict depends only on how many attempts of the   *)
(* key were admitted within the last Window ticks and since its last       *)
(* successful sign-in.  A caller may have read the clock up to Slack ticks *)
(* ago: attempts that close to the edge of the window may count or not.    *)
(* With Slack = 0 nothing is left to choice.                               *)
(***************************************************************************)
EXTENDS Integers, FiniteSets

CONSTANTS Keys, NoKey, Threads, Max, Window, Slack

VARIABLES
  clock,    \* the time
  log,      \* per key: the attempts admitted since its last success
  verdict   \* per thread: the answer it is acting on, or NoVerdict

vars == <<clock, log, verdict>>

NoVerdict == [key |-> NoKey, answer |-> "none"]
Verdict(k, answer) == [key |-> k, answer |-> answer]

\* The attempts of the last w ticks.
Recent(k, w) == {a \in log[k] : a.at > clock - w}

Init ==
  /\ clock = 1
  /\ log = [k \in Keys |-> {}]
  /\ verdict = [t \in Threads |-> NoVerdict]

Tick == clock' = clock + 1 /\ UNCHANGED <<log, verdict>>

Allow(t, k) ==
  /\ verdict[t] = NoVerdict
  /\ Cardinality(Recent(k, Window - Slack)) < Max
  /\ verdict' = [verdict EXCEPT ![t] = Verdict(k, "allowed")]
  /\ \E stamp \in clock - Slack .. clock :
       log' = [log EXCEPT ![k] = @ \cup {[n |-> Cardinality(log[k]) + 1, at |-> stamp]}]
  /\ UNCHANGED clock

Refuse(t, k) ==
  /\ verdict[t] = NoVerdict
  /\ Cardinality(Recent(k, Window + Slack)) >= Max
  /\ verdict' = [verdict EXCEPT ![t] = Verdict(k, "rejected")]
  /\ UNCHANGED <<clock, log>>

\* The request ends; a successful one clears the history of its key.
Finish(t) ==
  /\ verdict[t] # NoVerdict
  /\ verdict' = [verdict EXCEPT ![t] = NoVerdict]
  /\ \/ UNCHANGED log
     \/ verdict[t].answer = "allowed" /\ log' = [log EXCEPT ![verdict[t].key] = {}]
  /\ UNCHANGED clock

Next ==
  \/ Tick
  \/ \E t \in Threads : Finish(t)
  \/ \E t \in Threads, k \in Keys : Allow(t, k) \/ Refuse(t, k)

Spec == Init /\ [][Next]_vars
=============================================================================
