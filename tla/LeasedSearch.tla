---------------------------- MODULE LeasedSearch ----------------------------
(***************************************************************************)
(* One admitted SearXNG query and the lease its admission booked (searxng: *)
(* Searcher.Search around httpx: Client.DoRetry; cmd/omnifeed:             *)
(* searxngLeaseTTL).  Redis counts the query under the cluster's cap until *)
(* the lease ends, and then lets another in.  Times are milliseconds since *)
(* the booking.                                                            *)
(***************************************************************************)
EXTENDS Deployment

\* The client's timeout.
Timeout == Number("SearXNGTimeout")

VARIABLES
    elapsed,    \* the clock
    step,       \* "booked", "sending", "backoff", "returned", "released"
    attempt,    \* the attempt of DoRetry it is at, from 1
    due,        \* when the step ends at the latest: a timer of the client
    spare       \* time left for what no timer bounds

queryVars == <<elapsed, step, attempt, due, spare>>

\* The booking is in Redis; its reply is under way.
QueryInit ==
    /\ elapsed = 0 /\ due = 0
    /\ step = "booked" /\ attempt = 1
    /\ spare = RecoverySlack

-----------------------------------------------------------------------------
(* DoRetry.                                                                *)

\* The attempt starts, with the client's timeout; it covers the body too.
Send ==
    /\ step = "booked" \/ step = "backoff"
    /\ step' = "sending" /\ due' = elapsed + Timeout
    /\ UNCHANGED <<elapsed, attempt, spare>>

\* A network error, a 429 or a 5xx: the next attempt waits a while within the
\* delay, which is doubled or taken from Retry-After, and capped.
Retry ==
    /\ step = "sending" /\ attempt < MaxAttempts
    /\ \E delay \in Nat : delay <= MaxBackoff /\ due' = elapsed + delay
    /\ step' = "backoff" /\ attempt' = attempt + 1
    /\ UNCHANGED <<elapsed, spare>>

\* An answer, a veto, the attempts used up, a timeout or the caller's end; a body
\* is still read under the timeout of its attempt.
QueryReturns ==
    /\ step \in {"sending", "backoff"}
    /\ step' = "returned"
    /\ UNCHANGED <<elapsed, attempt, due, spare>>

\* The deferred release.
ReleaseLease ==
    /\ step = "returned"
    /\ step' = "released"
    /\ UNCHANGED <<elapsed, attempt, due, spare>>

-----------------------------------------------------------------------------
(* Time.                                                                   *)

\* Up to the timer of the step.
QueryTick ==
    /\ step # "released"
    /\ elapsed' \in Nat /\ elapsed < elapsed' /\ elapsed' <= due
    /\ UNCHANGED <<step, attempt, due, spare>>

\* Past it: the reply of Redis, a timer served late, the decoding of the answer
\* and the release's own trip take of the slack.
Lag ==
    /\ step # "released"
    /\ \E d \in Nat :
          /\ d > 0 /\ d <= spare
          /\ elapsed' = elapsed + d /\ due' = due + d /\ spare' = spare - d
    /\ UNCHANGED <<step, attempt>>

QueryNext == Send \/ Retry \/ QueryReturns \/ ReleaseLease \/ QueryTick \/ Lag

QuerySpec == QueryInit /\ [][QueryNext]_queryVars

-----------------------------------------------------------------------------

\* A query that still runs is counted by the cap: its lease has not ended under it
\* (what searxngLeaseTTL is sized for).
LeaseCovers == step # "released" => elapsed <= Shared("searxng").lease
=============================================================================
