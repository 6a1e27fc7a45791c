------------------------------ MODULE RateLimit ------------------------------
(***************************************************************************)
(* The two rate limits kept in Redis, for one client: the sliding window   *)
(* of rate_limit.rs, whose script gets the time from the clock of the API  *)
(* instance that runs it, and the counter with a TTL of the newsletter     *)
(* routes (IpRateLimiter::allow, incr_with_ttl).                           *)
(***************************************************************************)
EXTENDS Integers, Sequences, FiniteSets

CONSTANTS Max,          \* requests allowed in a window
          Window,       \* its length
          Skew,         \* by how much the clock of an instance may be ahead
          MaxTime,      \* bound
          MaxRequests   \* bound: requests

VARIABLES
  limit,     \* which of the two the client meets
  now,       \* the time of Redis
  scores,    \* the sorted set: its members with their scores
  count,     \* newsletter:ratelimit:v1:<ip>
  deadline,  \* when the key of the limit expires
  answers    \* history: when the limit was asked, and what it said

vars == <<limit, now, scores, count, deadline, answers>>

Limits == {"sliding", "fixed"}

RateLimitAssumption ==
  /\ {Max, Window, Skew, MaxTime, MaxRequests} \subseteq Nat
  /\ Max >= 2 /\ Window > 0

Init ==
  /\ now = 0 /\ scores = {} /\ count = 0 /\ deadline = 0
  /\ limit \in Limits /\ answers = <<>>

Answer(ok, by) ==
  /\ Len(answers) < MaxRequests
  /\ answers' = Append(answers, [at |-> now, ok |-> ok, by |-> by])

(* EXPIRE: a key is gone at its deadline. *)
Tick ==
  /\ now < MaxTime /\ now' = now + 1
  /\ count' = IF deadline = now' THEN 0 ELSE count
  /\ scores' = IF deadline = now' THEN {} ELSE scores
  /\ UNCHANGED <<limit, deadline, answers>>

(* SLIDING_WINDOW_SCRIPT: ZADD, ZREMRANGEBYSCORE up to the start of the    *)
(* window, and the members ZCARD then counts.  Every request, a refused    *)
(* one too, is a member of its own.                                        *)
Counted(t) ==
  {m \in scores \cup {[request |-> Len(answers) + 1, score |-> t]} : m.score > t - Window}

(* check_rate_limit, on an instance whose clock says t *)
CheckRateLimit ==
  /\ limit = "sliding"
  /\ \E t \in now..(now + Skew) :
       /\ scores' = Counted(t)
       /\ Answer(Cardinality(Counted(t)) =< Max, "limit")
  /\ deadline' = now + Window + 1
  /\ UNCHANGED <<limit, now, count>>

(* Deviation: two commands, and the second is not reached when the first   *)
(* is tried again.                                                         *)
IncrWithTtl_TwoCommands(n) ==
  /\ count' = count + n
  /\ deadline' = IF count = 0 /\ n = 1 THEN now + Window ELSE deadline

(* incr_with_ttl: n times when the answer of an attempt is lost and the    *)
(* script is run again.                                                    *)
IncrWithTtl(n) ==
  /\ count' = count + n
  /\ deadline' = IF count = 0 THEN now + Window ELSE deadline

Allow ==
  /\ limit = "fixed"
  /\ \E n \in {1, 2} : IncrWithTtl(n) /\ Answer(count + n =< Max, "limit")
  /\ UNCHANGED <<limit, now, scores>>

(* Redis cannot be reached: both limits refuse. *)
RedisError ==
  /\ Answer(FALSE, "error")
  /\ UNCHANGED <<limit, now, scores, count, deadline>>

Next == Tick \/ CheckRateLimit \/ Allow \/ RedisError

Spec == Init /\ [][Next]_vars
-----------------------------------------------------------------------------
TypeOK ==
  /\ limit \in Limits /\ now \in 0..MaxTime
  /\ count \in 0..(2 * MaxRequests) /\ deadline \in 0..(MaxTime + Window + 1)
  /\ scores \subseteq [request : DOMAIN answers, score : 0..(MaxTime + Skew)]
  /\ answers \in Seq([at : 0..MaxTime, ok : BOOLEAN, by : {"limit", "error"}])

Admitted(from, until) ==
  {i \in DOMAIN answers : answers[i].ok /\ from =< answers[i].at /\ answers[i].at < until}

(* No client gets more than Max requests through a sliding window, which   *)
(* the disagreement of the instances' clocks makes that much shorter; and  *)
(* no more than twice as many through the fixed one, wherever one looks.   *)
(* "Retry-After": a client that waits for a window after its last request  *)
(* (and, with the sliding one, for the clocks) is admitted, whatever the   *)
(* refused requests have added before.                                     *)
LimitHonest ==
  /\ \A t \in 0..MaxTime :
       /\ limit = "sliding" => Cardinality(Admitted(t, t + Window - Skew)) =< Max
       /\ limit = "fixed" => Cardinality(Admitted(t, t + Window)) =< 2 * Max
  /\ \A i \in 2..Len(answers) :
       LET wait == Window + (IF limit = "sliding" THEN Skew ELSE 0) IN
       answers[i].by = "limit" /\ answers[i].at - answers[i - 1].at >= wait
         => answers[i].ok
=============================================================================
