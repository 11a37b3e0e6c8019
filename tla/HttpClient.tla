------------------------------ MODULE HttpClient ------------------------------
(***************************************************************************)
(* The synchronous HTTP client: src/aa_crawler/http/client.py with the     *)
(* retry and rate-limit policies of src/aa_crawler/http/policies.py.       *)
(*                                                                         *)
(* One HttpClient serves every caller of a process (robots.txt fetches,    *)
(* pages, redirect hops), one call of send() at a time.  A call is a loop  *)
(* of physical attempts.  Before each attempt the client sleeps for the    *)
(* retry backoff, then for what is left of the host's politeness interval; *)
(* after each attempt, whatever its result, it records the time for the    *)
(* host.                                                                   *)
(*                                                                         *)
(* Time is a natural number of ticks and passes only where the program     *)
(* spends it: between calls, in sleeps (which may overrun) and while the   *)
(* transport works on a request.                                           *)
(***************************************************************************)
EXTENDS Integers, Sequences

CONSTANTS
    Hosts,          \* the hostnames urlsplit() finds in request URLs
    NoHost,         \* _host_of() of a URL that has no hostname
    Methods,        \* the request methods callers use
    MaxAttempts,    \* RetryPolicy.max_attempts
    BackoffBase,    \* RetryPolicy.backoff_base
    BackoffMax,     \* RetryPolicy.backoff_max
    MinInterval,    \* RateLimitPolicy.min_interval_seconds
    Durations,      \* how long the transport may take over one request
    Pauses,         \* how long the caller may wait between two calls
    MaxOversleep,   \* by how much a sleep may overrun
    MaxSends        \* bound: the calls of one behaviour

Targets == Hosts \cup {NoHost}

\* RetryPolicy.retryable_methods
RetryableMethods == {"GET", "HEAD"}

\* One attempt too many, as a loop over range(max_attempts + 1) would make.
AttemptLimit_OneMore(m) == IF m \in RetryableMethods THEN MaxAttempts + 1 ELSE 2

\* The attempts one call may make.
AttemptLimit(m) == IF m \in RetryableMethods THEN MaxAttempts ELSE 1

\* RetryPolicy.backoff_seconds: nothing before the first attempt, then a delay
\* that doubles from the base up to the cap.
BackoffSeconds(n) ==
    LET uncapped == BackoffBase * 2^(n - 2)
    IN  IF n = 1 THEN 0 ELSE IF uncapped < BackoffMax THEN uncapped ELSE BackoffMax

ASSUME HostAssumption == NoHost \notin Hosts
ASSUME PolicyAssumption ==
    /\ MaxAttempts \in Nat \ {0}
    /\ MinInterval \in Nat
    /\ MaxOversleep \in Nat
    /\ Durations \subseteq Nat
    /\ Pauses \subseteq Nat

\* RetryPolicy.__post_init__ admits only non-negative backoffs with base <= max.
\* The consequence the proofs use is stated here because the provers have no
\* theory of exponentiation; TLC evaluates it.
ASSUME BackoffAssumption ==
    /\ BackoffBase \in Nat
    /\ BackoffMax \in Nat
    /\ BackoffBase <= BackoffMax
    /\ \A n \in 1..MaxAttempts : BackoffSeconds(n) \in 0..BackoffMax

VARIABLES
    pc,             \* where send() stands
    method,         \* request.method of the current call
    host,           \* host of the current call
    attempt,        \* attempt_number
    lastEnd,        \* _last_request_end; Never for a host that is not a key
    clock,          \* time.monotonic()
    result,         \* how the last finished call ended
    \* history, for the properties only
    seen,           \* the attempt results of the current (or last) call
    wireEnd,        \* when the last physical request to each target really ended
    sends           \* calls so far

clientVars == <<pc, method, host, attempt, lastEnd, result>>
vars == <<pc, method, host, attempt, lastEnd, clock, result, seen, wireEnd, sends>>

Never == -1

\* What one attempt can end with: a status outside retry_statuses, a status in
\* it, one of _RETRYABLE_EXCEPTIONS, another httpx.RequestError, or an exception
\* httpx does not derive from HTTPError (InvalidURL, for one).
AttemptResults == {"status_final", "status_retryable", "transient", "fatal", "defect"}
RetryableResults == {"status_retryable", "transient"}

\* Returning the last response, retryable or not, once attempts run out.
Verdict_LastResponse(r) ==
    CASE r \in {"status_final", "status_retryable"} -> "response"
      [] r \in {"transient", "fatal"} -> "RequestError"
      [] r = "defect"              -> "unexpected"

\* What send() returns or raises when it stops after an attempt result.
Verdict(r) ==
    CASE r = "status_final"        -> "response"
      [] r = "status_retryable"    -> "ResponseError"
      [] r \in {"transient", "fatal"} -> "RequestError"
      [] r = "defect"              -> "unexpected"

Init ==
    /\ pc = "idle"
    /\ method \in Methods
    /\ host \in Targets
    /\ attempt = 1
    /\ lastEnd = [h \in Hosts |-> Never]
    /\ clock = 0
    /\ result = "none"
    /\ seen = <<>>
    /\ wireEnd = [h \in Targets |-> Never]
    /\ sends = 0

Limited(h) == h \in Hosts /\ MinInterval > 0

\* A caller calls send(), some time after the previous call.
Send(m, h) ==
    /\ pc = "idle"
    /\ sends < MaxSends
    /\ \E p \in Pauses : clock' = clock + p
    /\ pc' = "backoff"
    /\ method' = m
    /\ host' = h
    /\ attempt' = 1
    /\ result' = "none"
    /\ seen' = <<>>
    /\ sends' = sends + 1
    /\ UNCHANGED <<lastEnd, wireEnd>>

\* _sleep(d) for a positive d, and no sleep at all otherwise.
Sleep(d) ==
    IF d > 0 THEN \E over \in 0..MaxOversleep : clock' = clock + d + over
             ELSE clock' = clock

\* The retry backoff before an attempt.
Backoff ==
    /\ pc = "backoff"
    /\ Sleep(BackoffSeconds(attempt))
    /\ pc' = "wait"
    /\ UNCHANGED <<method, host, attempt, lastEnd, result, seen, wireEnd, sends>>

\* Sleeping a whole interval after the backoff, instead of what is left of it.
RemainingWait_WholeInterval(h) ==
    IF Limited(h) /\ lastEnd[h] # Never THEN MinInterval ELSE 0

\* What _wait_for_host(host) still has to sleep.
RemainingWait(h) ==
    IF Limited(h) /\ lastEnd[h] # Never THEN lastEnd[h] + MinInterval - clock ELSE 0

\* Waiting for the clock to show the deadline itself, which may have passed.
WaitForHost_ExactDeadline ==
    /\ pc = "wait"
    /\ RemainingWait(host) >= 0
    /\ Sleep(RemainingWait(host))
    /\ pc' = "wire"
    /\ UNCHANGED <<method, host, attempt, lastEnd, result, seen, wireEnd, sends>>

\* _wait_for_host: sleep what is left of the host's interval.
WaitForHost ==
    /\ pc = "wait"
    /\ Sleep(RemainingWait(host))
    /\ pc' = "wire"
    /\ UNCHANGED <<method, host, attempt, lastEnd, result, seen, wireEnd, sends>>

\* Recording only the requests that got a response.
MarkHostContacted_ResponsesOnly(h, r) ==
    lastEnd' = IF Limited(h) /\ r \in {"status_final", "status_retryable"}
               THEN [lastEnd EXCEPT ![h] = clock'] ELSE lastEnd

\* The finally clause of _send_once: it runs for a response and an exception.
MarkHostContacted(h, r) ==
    lastEnd' = IF Limited(h) THEN [lastEnd EXCEPT ![h] = clock'] ELSE lastEnd

\* _client.send() comes back with result r.
AttemptEnds(r) ==
    /\ pc = "wire"
    /\ \E d \in Durations : clock' = clock + d
    /\ MarkHostContacted(host, r)
    /\ seen' = Append(seen, r)
    /\ wireEnd' = [wireEnd EXCEPT ![host] = clock']
    /\ UNCHANGED <<method, host, sends>>

\* Retrying every failure, whatever the exception.
WorthRetrying_AnyFailure(r) == r # "status_final" /\ attempt < AttemptLimit(method)

\* Retrying exceptions but not statuses.
WorthRetrying_ExceptionsOnly(r) == r = "transient" /\ attempt < AttemptLimit(method)

\* The attempt failed in a way that is retried, and attempts are left.
WorthRetrying(r) == r \in RetryableResults /\ attempt < AttemptLimit(method)

Retry(r) ==
    /\ WorthRetrying(r)
    /\ AttemptEnds(r)
    /\ attempt' = attempt + 1
    /\ pc' = "backoff"
    /\ UNCHANGED result

\* send() returns or raises.
Settle(r) ==
    /\ ~WorthRetrying(r)
    /\ AttemptEnds(r)
    /\ result' = Verdict(r)
    /\ pc' = "idle"
    /\ UNCHANGED attempt

Transport == \E r \in AttemptResults : Retry(r) \/ Settle(r)

Call == \E m \in Methods, h \in Targets : Send(m, h)

Next == Call \/ Backoff \/ WaitForHost \/ Transport

\* Sleeps end, and the transport answers or times out: TimeoutPolicy gives every
\* phase of a request a limit.  Nothing obliges a caller to call again.
Fairness == WF_vars(Backoff) /\ WF_vars(WaitForHost) /\ WF_vars(Transport)

Spec == Init /\ [][Next]_vars /\ Fairness

-------------------------------------------------------------------------------

TypeOK ==
    /\ pc \in {"idle", "backoff", "wait", "wire"}
    /\ method \in Methods
    /\ host \in Targets
    /\ attempt \in 1..MaxAttempts
    /\ lastEnd \in [Hosts -> Nat \cup {Never}]
    /\ clock \in Nat
    /\ result \in {"none", "response", "RequestError", "ResponseError", "unexpected"}
    /\ seen \in Seq(AttemptResults)
    /\ wireEnd \in [Targets -> Nat \cup {Never}]
    /\ sends \in Nat

(***************************************************************************)
(* ADR-033: "waits until at least min_interval_seconds have passed since   *)
(* the last request to that same host finished", before every physical     *)
(* attempt and across calls, also when that last request failed.  The end  *)
(* of the last request is taken from the history, not from the client's    *)
(* table.                                                                  *)
(***************************************************************************)
Polite ==
    pc = "wire" /\ host \in Hosts /\ wireEnd[host] # Never
        => clock - wireEnd[host] >= MinInterval

\* The delay the policies ask for before attempt n > 1 to a target.
LargerOf(a, b) == IF a < b THEN b ELSE a
RetryDelay(h, n) ==
    LargerOf(BackoffSeconds(n), IF h \in Hosts THEN MinInterval ELSE 0)

(***************************************************************************)
(* ADR-033: "the total delay before a retry is the larger of the two       *)
(* values and not their sum" - neither shorter, so that backoff and        *)
(* politeness both hold, nor longer, but for the overrun of a sleep.       *)
(***************************************************************************)
RetryGap ==
    pc = "wire" /\ attempt > 1 =>
        /\ clock - wireEnd[host] >= RetryDelay(host, attempt)
        /\ clock - wireEnd[host] <= RetryDelay(host, attempt) + MaxOversleep

(***************************************************************************)
(* ADR-015: only what may be repeated is repeated.  A call makes at most   *)
(* max_attempts requests, a call with a method outside retryable_methods   *)
(* at most one, and no request follows a result that is not retryable.     *)
(***************************************************************************)
RetriesAreSafe ==
    /\ Len(seen) <= AttemptLimit(method)
    /\ \A i \in 1..Len(seen) :
         i < Len(seen) \/ pc # "idle" => seen[i] \in RetryableResults

(***************************************************************************)
(* What the caller learns agrees with what happened on the wire: it gets a *)
(* response exactly when the last attempt ended with a status that is not  *)
(* retryable, so it never mistakes a 503 for a page, and an error for a    *)
(* transient failure only after every permitted attempt.                   *)
(***************************************************************************)
ResultIsHonest ==
    pc = "idle" /\ result # "none" =>
        /\ Len(seen) > 0
        /\ LET last == seen[Len(seen)] IN
             /\ (result = "response") <=> (last = "status_final")
             /\ (result = "unexpected") <=> (last = "defect")
             /\ (result = "ResponseError") <=> (last = "status_retryable")
             /\ last \in RetryableResults => Len(seen) = AttemptLimit(method)

\* Every call of send() ends.
EverySendEnds == (pc # "idle") ~> (pc = "idle")

-------------------------------------------------------------------------------

\* The client does what HttpSend promises its callers.
Promise ==
    INSTANCE HttpSend WITH
        Budget <- AttemptLimit,
        open   <- pc # "idle",
        tries  <- Len(seen),
        answer <- result

KeepsPromise == Promise!Spec
===============================================================================
