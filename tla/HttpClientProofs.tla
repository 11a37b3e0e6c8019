--------------------------- MODULE HttpClientProofs ---------------------------
(***************************************************************************)
(* Theorems about HttpClient for every set of hosts and methods, every     *)
(* retry and rate-limit policy its assumptions admit, every duration of a  *)
(* request and every oversleep, with any number of calls.                  *)
(***************************************************************************)
EXTENDS HttpClient, TLAPS

\* What a possible sleep does to the clock.
LEMMA SleepFacts ==
    ASSUME NEW d \in Int, clock \in Nat, Sleep(d)
    PROVE  /\ clock' \in Nat
           /\ clock' >= clock + d
           /\ clock' >= clock
           /\ d > 0 => clock' <= clock + d + MaxOversleep
           /\ d <= 0 => clock' = clock
  <1>1. CASE d > 0
    <2>1. PICK over \in 0..MaxOversleep : clock' = clock + d + over
      BY <1>1 DEF Sleep
    <2>2. QED
      BY <1>1, <2>1, PolicyAssumption
  <1>2. CASE ~(d > 0)
    BY <1>2 DEF Sleep
  <1>3. QED
    BY <1>1, <1>2

\* The attempts a call may make are never more than max_attempts.
LEMMA LimitFacts ==
    ASSUME NEW m
    PROVE  AttemptLimit(m) \in 1..MaxAttempts
  BY PolicyAssumption DEF AttemptLimit

\* The remaining wait is an integer, whatever the table holds.
LEMMA RemainingWaitFacts ==
    ASSUME TypeOK
    PROVE  RemainingWait(host) \in Int
  BY PolicyAssumption DEF TypeOK, RemainingWait, Limited, Never

\* The backoff before an attempt that may be made.
LEMMA BackoffFacts ==
    ASSUME TypeOK
    PROVE  BackoffSeconds(attempt) \in Nat
  BY BackoffAssumption DEF TypeOK

\* HttpClient.send never leaves its state's domain: in particular the attempt
\* counter stays in 1..max_attempts and time never runs backwards to a negative.
THEOREM TypeCorrect == Spec => []TypeOK
  <1>1. Init => TypeOK
    BY PolicyAssumption DEF Init, TypeOK
  <1>2. TypeOK /\ [Next]_vars => TypeOK'
    <2> SUFFICES ASSUME TypeOK, [Next]_vars
                 PROVE  TypeOK'
      OBVIOUS
    <2>1. ASSUME NEW m \in Methods, NEW h \in Targets, Send(m, h)
          PROVE  TypeOK'
      BY <2>1, PolicyAssumption DEF TypeOK, Send
    <2>2. CASE Backoff
      <3>1. clock' \in Nat
        BY <2>2, BackoffFacts, SleepFacts DEF Backoff, TypeOK
      <3>2. QED
        BY <2>2, <3>1 DEF TypeOK, Backoff
    <2>3. CASE WaitForHost
      <3>1. clock' \in Nat
        BY <2>3, RemainingWaitFacts, SleepFacts DEF WaitForHost, TypeOK
      <3>2. QED
        BY <2>3, <3>1 DEF TypeOK, WaitForHost
    <2>4. ASSUME NEW r \in AttemptResults, AttemptEnds(r)
          PROVE  /\ clock' \in Nat
                 /\ lastEnd' \in [Hosts -> Nat \cup {Never}]
                 /\ seen' \in Seq(AttemptResults)
                 /\ wireEnd' \in [Targets -> Nat \cup {Never}]
                 /\ UNCHANGED <<method, host, sends>>
      <3>1. clock' \in Nat
        BY <2>4, PolicyAssumption DEF TypeOK, AttemptEnds
      <3>2. QED
        BY <2>4, <3>1 DEF TypeOK, AttemptEnds, MarkHostContacted, Limited
    <2>5. ASSUME NEW r \in AttemptResults, Retry(r)
          PROVE  TypeOK'
      <3>1. AttemptEnds(r)
        BY <2>5 DEF Retry
      <3>2. attempt + 1 \in 1..MaxAttempts
        BY <2>5, LimitFacts, PolicyAssumption DEF Retry, WorthRetrying, TypeOK
      <3>3. QED
        BY <2>4, <2>5, <3>1, <3>2 DEF TypeOK, Retry
    <2>6. ASSUME NEW r \in AttemptResults, Settle(r)
          PROVE  TypeOK'
      <3>1. AttemptEnds(r)
        BY <2>6 DEF Settle
      <3>2. QED
        BY <2>4, <2>6, <3>1 DEF TypeOK, Settle, Verdict, AttemptResults
    <2>7. CASE UNCHANGED vars
      BY <2>7 DEF TypeOK, vars
    <2>8. QED
      BY <2>1, <2>2, <2>3, <2>5, <2>6, <2>7 DEF Next, Call, Transport
  <1>3. QED
    BY <1>1, <1>2, PTL DEF Spec

-------------------------------------------------------------------------------

(***************************************************************************)
(* Why the client is polite: the table it consults agrees with what really *)
(* happened on the wire, no request ended in the future, and once          *)
(* WaitForHost is over the interval has passed.                            *)
(***************************************************************************)
TableIsTrue == \A h \in Hosts : Limited(h) => lastEnd[h] = wireEnd[h]

WireInThePast == \A h \in Targets : wireEnd[h] <= clock

PoliteInv == TypeOK /\ TableIsTrue /\ WireInThePast /\ Polite

\* PoliteInv is an inductive invariant.
LEMMA PoliteInvariant == Spec => []PoliteInv
  <1>1. Init => PoliteInv
    BY PolicyAssumption
    DEF Init, PoliteInv, TypeOK, TableIsTrue, WireInThePast, Polite, Never, Targets
  <1>2. PoliteInv /\ TypeOK' /\ [Next]_vars => PoliteInv'
    <2> SUFFICES ASSUME PoliteInv, TypeOK', [Next]_vars
                 PROVE  TableIsTrue' /\ WireInThePast' /\ Polite'
      BY DEF PoliteInv
    <2> USE DEF PoliteInv
    <2>1. ASSUME NEW m \in Methods, NEW h \in Targets, Send(m, h)
          PROVE  TableIsTrue' /\ WireInThePast' /\ Polite'
      <3>1. clock' >= clock
        BY <2>1, PolicyAssumption DEF Send, TypeOK
      <3>2. QED
        BY <2>1, <3>1
        DEF Send, TypeOK, TableIsTrue, Limited, WireInThePast, Polite, Never
    <2>2. CASE Backoff
      <3>1. clock' >= clock
        BY <2>2, BackoffFacts, SleepFacts DEF Backoff, TypeOK
      <3>2. QED
        BY <2>2, <3>1
        DEF Backoff, TypeOK, TableIsTrue, Limited, WireInThePast, Polite, Never
    <2>3. CASE WaitForHost
      <3>1. clock' >= clock /\ clock' >= clock + RemainingWait(host)
        BY <2>3, RemainingWaitFacts, SleepFacts DEF WaitForHost, TypeOK
      <3>2. TableIsTrue' /\ WireInThePast'
        BY <2>3, <3>1
        DEF WaitForHost, TypeOK, TableIsTrue, Limited, WireInThePast, Never
      <3>3. ASSUME host \in Hosts, wireEnd[host] # Never
            PROVE  clock' - wireEnd[host] >= MinInterval
        BY <3>1, <3>3, PolicyAssumption
        DEF TypeOK, TableIsTrue, Limited, RemainingWait, WireInThePast, Targets, Never
      <3>4. Polite'
        BY <2>3, <3>3 DEF WaitForHost, Polite
      <3>5. QED
        BY <3>2, <3>4
    <2>4. ASSUME NEW r \in AttemptResults, AttemptEnds(r), pc' # "wire"
          PROVE  TableIsTrue' /\ WireInThePast' /\ Polite'
      <3>1. clock' >= clock /\ clock' \in Nat
        BY <2>4, PolicyAssumption DEF AttemptEnds, TypeOK
      <3>2. TableIsTrue'
        BY <2>4, <3>1
        DEF AttemptEnds, MarkHostContacted, TableIsTrue, Limited, TypeOK, Targets
      <3>3. WireInThePast'
        BY <2>4, <3>1 DEF AttemptEnds, WireInThePast, TypeOK, Never
      <3>4. QED
        BY <2>4, <3>2, <3>3 DEF Polite
    <2>5. ASSUME NEW r \in AttemptResults, Retry(r) \/ Settle(r)
          PROVE  TableIsTrue' /\ WireInThePast' /\ Polite'
      BY <2>4, <2>5 DEF Retry, Settle
    <2>6. CASE UNCHANGED vars
      BY <2>6 DEF vars, TypeOK, TableIsTrue, Limited, WireInThePast, Polite
    <2>7. QED
      BY <2>1, <2>2, <2>3, <2>5, <2>6 DEF Next, Call, Transport
  <1>3. QED
    BY <1>1, <1>2, TypeCorrect, PTL DEF Spec

\* No sequence of calls, retries, failures and overlong sleeps makes the client
\* send a request to a host sooner than min_interval_seconds after the last one
\* to that host ended.
THEOREM AlwaysPolite == Spec => []Polite
  BY PoliteInvariant, PTL DEF PoliteInv

-------------------------------------------------------------------------------

(***************************************************************************)
(* The attempts of a call are counted by what it has seen, and what it has *)
(* seen so far was worth a retry.                                          *)
(***************************************************************************)
AttemptsCounted ==
    /\ attempt <= AttemptLimit(method)
    /\ pc # "idle" => Len(seen) = attempt - 1
    /\ pc # "idle" => \A i \in 1..Len(seen) : seen[i] \in RetryableResults
    /\ pc = "idle" => Len(seen) \in {0, attempt}

AttemptInv == TypeOK /\ AttemptsCounted /\ RetriesAreSafe /\ ResultIsHonest

\* What one more attempt result does to the list of what was seen.
LEMMA SeenFacts ==
    ASSUME TypeOK, NEW r \in AttemptResults, AttemptEnds(r)
    PROVE  /\ Len(seen') = Len(seen) + 1
           /\ Len(seen) \in Nat
           /\ seen'[Len(seen')] = r
           /\ \A i \in 1..Len(seen) : seen'[i] = seen[i]
           /\ method' = method
  <1>1. seen' = Append(seen, r) /\ seen \in Seq(AttemptResults) /\ method' = method
    BY DEF AttemptEnds, TypeOK
  <1>2. QED
    BY <1>1

\* Verdict tells the four kinds of ending apart.
LEMMA VerdictFacts ==
    ASSUME NEW r \in AttemptResults
    PROVE  /\ (Verdict(r) = "response") <=> (r = "status_final")
           /\ (Verdict(r) = "unexpected") <=> (r = "defect")
           /\ (Verdict(r) = "ResponseError") <=> (r = "status_retryable")
           /\ Verdict(r) \in {"response", "RequestError", "ResponseError", "unexpected"}
  BY DEF AttemptResults, Verdict

\* The inductive step of both theorems below.
LEMMA AttemptStep == AttemptInv /\ TypeOK' /\ [Next]_vars => AttemptInv'
  <1> SUFFICES ASSUME AttemptInv, TypeOK', [Next]_vars
               PROVE  AttemptsCounted' /\ RetriesAreSafe' /\ ResultIsHonest'
    BY DEF AttemptInv
  <1> USE DEF AttemptInv
  <1>1. ASSUME NEW m \in Methods, NEW h \in Targets, Send(m, h)
        PROVE  AttemptsCounted' /\ RetriesAreSafe' /\ ResultIsHonest'
    <2>1. AttemptLimit(method') \in 1..MaxAttempts
      BY LimitFacts
    <2>2. QED
      BY <1>1, <2>1, PolicyAssumption
      DEF Send, AttemptsCounted, RetriesAreSafe, ResultIsHonest
  <1>2. CASE Backoff
    BY <1>2 DEF Backoff, AttemptsCounted, RetriesAreSafe, ResultIsHonest, AttemptLimit
  <1>3. CASE WaitForHost
    BY <1>3
    DEF WaitForHost, AttemptsCounted, RetriesAreSafe, ResultIsHonest, AttemptLimit
  <1>4. ASSUME NEW r \in AttemptResults, Retry(r)
        PROVE  AttemptsCounted' /\ RetriesAreSafe' /\ ResultIsHonest'
    <2>1. AttemptEnds(r) /\ pc = "wire" /\ pc' = "backoff" /\ attempt' = attempt + 1
      BY <1>4 DEF Retry, AttemptEnds
    <2>2. r \in RetryableResults /\ attempt < AttemptLimit(method)
      BY <1>4 DEF Retry, WorthRetrying
    <2>3. AttemptLimit(method') = AttemptLimit(method) /\ AttemptLimit(method) \in Nat
      BY <2>1, SeenFacts, LimitFacts, PolicyAssumption DEF AttemptLimit
    <2>4. \A i \in 1..Len(seen') : seen'[i] \in RetryableResults
      BY <2>1, <2>2, SeenFacts DEF AttemptsCounted
    <2>5. Len(seen') = attempt' - 1 /\ attempt' <= AttemptLimit(method') /\ attempt \in Nat
      BY <2>1, <2>2, <2>3, SeenFacts DEF AttemptsCounted, TypeOK
    <2>6. QED
      BY <2>1, <2>3, <2>4, <2>5 DEF AttemptsCounted, RetriesAreSafe, ResultIsHonest
  <1>5. ASSUME NEW r \in AttemptResults, Settle(r)
        PROVE  AttemptsCounted' /\ RetriesAreSafe' /\ ResultIsHonest'
    <2>1. /\ AttemptEnds(r) /\ pc = "wire" /\ pc' = "idle"
          /\ attempt' = attempt /\ result' = Verdict(r)
      BY <1>5 DEF Settle, AttemptEnds
    <2>2. ~(r \in RetryableResults /\ attempt < AttemptLimit(method))
      BY <1>5 DEF Settle, WorthRetrying
    <2>3. AttemptLimit(method') = AttemptLimit(method) /\ AttemptLimit(method) \in Nat
      BY <2>1, SeenFacts, LimitFacts, PolicyAssumption DEF AttemptLimit
    <2>4. \A i \in 1..Len(seen') : i < Len(seen') => seen'[i] \in RetryableResults
      BY <2>1, SeenFacts DEF AttemptsCounted
    <2>5. Len(seen') = attempt /\ attempt <= AttemptLimit(method) /\ attempt \in Nat \ {0}
      BY <2>1, <2>3, SeenFacts DEF AttemptsCounted, TypeOK
    <2>6. AttemptsCounted' /\ RetriesAreSafe'
      BY <2>1, <2>3, <2>4, <2>5 DEF AttemptsCounted, RetriesAreSafe
    <2>7. seen'[Len(seen')] = r /\ Len(seen') > 0
      BY <2>1, <2>5, SeenFacts
    <2>8. r \in RetryableResults => Len(seen') = AttemptLimit(method')
      BY <2>2, <2>3, <2>5
    <2>9. ResultIsHonest'
      BY <2>1, <2>7, <2>8, VerdictFacts DEF ResultIsHonest
    <2>10. QED
      BY <2>6, <2>9
  <1>6. CASE UNCHANGED vars
    BY <1>6 DEF vars, AttemptsCounted, RetriesAreSafe, ResultIsHonest, AttemptLimit
  <1>7. QED
    BY <1>1, <1>2, <1>3, <1>4, <1>5, <1>6 DEF Next, Call, Transport

\* AttemptInv holds of every reachable state.
LEMMA AttemptInvariant == Spec => []AttemptInv
  <1>1. Init => AttemptInv
    <2>1. \A m \in Methods : AttemptLimit(m) \in 1..MaxAttempts
      BY LimitFacts
    <2>2. Init => TypeOK
      BY PolicyAssumption DEF Init, TypeOK
    <2>3. QED
      BY <2>1, <2>2, PolicyAssumption
      DEF Init, AttemptInv, AttemptsCounted, RetriesAreSafe, ResultIsHonest
  <1>2. QED
    BY <1>1, AttemptStep, TypeCorrect, PTL DEF Spec

\* No policy and no sequence of failures makes the client repeat a request that
\* may not be repeated, or exceed the attempts of a call.
THEOREM AlwaysRetriesSafely == Spec => []RetriesAreSafe
  BY AttemptInvariant, PTL DEF AttemptInv

\* What send() returns or raises always agrees with its last attempt.
THEOREM AlwaysHonest == Spec => []ResultIsHonest
  BY AttemptInvariant, PTL DEF AttemptInv

-------------------------------------------------------------------------------

(***************************************************************************)
(* Where a retry stands between the attempt that failed and the next one:  *)
(* no time has passed before the backoff, and exactly the backoff (but for *)
(* the overrun of its sleep) before the wait for the host.                 *)
(***************************************************************************)
RetryTimed ==
    /\ pc = "backoff" /\ attempt > 1 => clock = wireEnd[host]
    /\ pc = "wait" /\ attempt > 1 =>
          /\ clock >= wireEnd[host] + BackoffSeconds(attempt)
          /\ clock <= wireEnd[host] + BackoffSeconds(attempt) + MaxOversleep
    /\ pc # "idle" /\ attempt > 1 => wireEnd[host] # Never

GapInv == RetryTimed /\ RetryGap

\* The delay before a retry is the larger of the backoff and the politeness
\* interval, for every policy: never less, and never more than a sleep's overrun.
THEOREM AlwaysRightGap == Spec => []RetryGap
  <1>1. Init => GapInv
    BY DEF Init, GapInv, RetryTimed, RetryGap
  <1>2. GapInv /\ PoliteInv /\ PoliteInv' /\ [Next]_vars => GapInv'
    <2> SUFFICES ASSUME GapInv, PoliteInv, PoliteInv', [Next]_vars
                 PROVE  RetryTimed' /\ RetryGap'
      BY DEF GapInv
    <2> USE DEF GapInv, PoliteInv
    <2> HIDE DEF BackoffSeconds
    <2>1. ASSUME NEW m \in Methods, NEW h \in Targets, Send(m, h)
          PROVE  RetryTimed' /\ RetryGap'
      BY <2>1 DEF Send, RetryTimed, RetryGap
    <2>2. CASE Backoff
      <3>1. CASE attempt > 1
        <4>1. BackoffSeconds(attempt) \in Nat
          BY BackoffFacts
        <4>2. /\ clock' >= clock + BackoffSeconds(attempt)
              /\ clock' <= clock + BackoffSeconds(attempt) + MaxOversleep
          <5>1. Sleep(BackoffSeconds(attempt)) /\ clock \in Nat
            BY <2>2 DEF Backoff, TypeOK
          <5>2. QED
            BY <4>1, <5>1, SleepFacts, PolicyAssumption
        <4>3. /\ pc' = "wait" /\ attempt' = attempt
              /\ host' = host /\ wireEnd' = wireEnd /\ pc = "backoff"
          BY <2>2 DEF Backoff
        <4>4. clock = wireEnd[host] /\ wireEnd[host] # Never
          BY <3>1, <4>3 DEF RetryTimed
        <4>5. QED
          BY <4>2, <4>3, <4>4 DEF RetryTimed, RetryGap
      <3>2. CASE ~(attempt > 1)
        BY <2>2, <3>2 DEF Backoff, RetryTimed, RetryGap
      <3>3. QED
        BY <3>1, <3>2
    <2>3. CASE WaitForHost
      <3>1. /\ pc = "wait" /\ pc' = "wire" /\ attempt' = attempt
            /\ host' = host /\ wireEnd' = wireEnd
        BY <2>3 DEF WaitForHost
      <3>2. CASE attempt > 1
        <4> DEFINE b == BackoffSeconds(attempt)
                   w == wireEnd[host]
        <4>1. b \in Nat /\ w \in Nat /\ clock \in Nat /\ clock' \in Nat
          BY <3>1, <3>2, BackoffFacts DEF RetryTimed, TypeOK
        <4>2. clock >= w + b /\ clock <= w + b + MaxOversleep
          BY <3>1, <3>2 DEF RetryTimed
        <4>3. Sleep(RemainingWait(host)) /\ RemainingWait(host) \in Int
          BY <2>3, RemainingWaitFacts DEF WaitForHost
        <4>4. CASE Limited(host)
          <5>1. host \in Hosts /\ lastEnd[host] = w /\ w # Never
            BY <3>1, <3>2, <4>4 DEF Limited, TableIsTrue, RetryTimed
          <5>2. RemainingWait(host) = w + MinInterval - clock
            BY <4>4, <5>1 DEF RemainingWait
          <5>3. /\ clock' >= clock
                /\ clock' >= w + MinInterval
                /\ clock' <= w + MinInterval + MaxOversleep \/ clock' = clock
            <6>1. /\ clock' >= clock + RemainingWait(host)
                  /\ clock' >= clock
                  /\ RemainingWait(host) > 0 =>
                       clock' <= clock + RemainingWait(host) + MaxOversleep
                  /\ RemainingWait(host) <= 0 => clock' = clock
              BY <4>1, <4>3, SleepFacts
            <6>2. QED
              BY <4>1, <5>2, <6>1, PolicyAssumption
          <5>4. RetryDelay(host, attempt) = IF b < MinInterval THEN MinInterval ELSE b
            BY <5>1 DEF RetryDelay, LargerOf
          <5>5. /\ clock' - w >= RetryDelay(host, attempt)
                /\ clock' - w <= RetryDelay(host, attempt) + MaxOversleep
            <6>1. CASE b < MinInterval
              BY <4>1, <4>2, <5>3, <5>4, <6>1, PolicyAssumption
            <6>2. CASE ~(b < MinInterval)
              BY <4>1, <4>2, <5>3, <5>4, <6>2, PolicyAssumption
            <6>3. QED
              BY <6>1, <6>2
          <5>6. QED
            BY <3>1, <3>2, <5>1, <5>5 DEF RetryTimed, RetryGap, RetryDelay, LargerOf
        <4>5. CASE ~Limited(host)
          <5>1. RemainingWait(host) = 0 /\ clock' = clock
            <6>1. RemainingWait(host) = 0
              BY <4>5 DEF RemainingWait
            <6>2. QED
              BY <4>1, <4>3, <6>1, SleepFacts
          <5>2. RetryDelay(host, attempt) = b
            BY <4>1, <4>5, PolicyAssumption DEF RetryDelay, LargerOf, Limited
          <5>3. QED
            BY <3>1, <3>2, <4>1, <4>2, <5>1, <5>2, PolicyAssumption
            DEF RetryTimed, RetryGap, RetryDelay, LargerOf
        <4>6. QED
          BY <4>4, <4>5
      <3>3. CASE ~(attempt > 1)
        BY <3>1, <3>3 DEF RetryTimed, RetryGap
      <3>4. QED
        BY <3>2, <3>3
    <2>4. ASSUME NEW r \in AttemptResults, Retry(r)
          PROVE  RetryTimed' /\ RetryGap'
      <3>1. AttemptEnds(r) /\ pc' = "backoff"
        BY <2>4 DEF Retry
      <3>2. wireEnd'[host'] = clock' /\ clock' # Never
        BY <3>1 DEF AttemptEnds, TypeOK, Never
      <3>3. QED
        BY <3>1, <3>2 DEF RetryTimed, RetryGap
    <2>5. ASSUME NEW r \in AttemptResults, Settle(r)
          PROVE  RetryTimed' /\ RetryGap'
      BY <2>5 DEF Settle, RetryTimed, RetryGap
    <2>6. CASE UNCHANGED vars
      BY <2>6 DEF vars, RetryTimed, RetryGap, RetryDelay, LargerOf
    <2>7. QED
      BY <2>1, <2>2, <2>3, <2>4, <2>5, <2>6 DEF Next, Call, Transport
  <1>3. GapInv => RetryGap
    BY DEF GapInv
  <1>4. QED
    BY <1>1, <1>2, <1>3, PoliteInvariant, PTL DEF Spec

-------------------------------------------------------------------------------

(***************************************************************************)
(* HttpClient implements HttpSend: Send opens a call, Retry is a try,      *)
(* Settle closes the call, and the two sleeps are invisible.               *)
(***************************************************************************)
THEOREM ImplementsPromise == Spec => KeepsPromise
  <1>1. Init => Promise!Init
    BY DEF Init, Promise!Init
  <1>2. AttemptInv /\ TypeOK' /\ [Next]_vars => [Promise!Next]_Promise!vars
    <2> SUFFICES ASSUME AttemptInv, TypeOK', [Next]_vars
                 PROVE  [Promise!Next]_Promise!vars
      OBVIOUS
    <2> USE DEF AttemptInv
    <2>1. ASSUME NEW m \in Methods, NEW h \in Targets, Send(m, h)
          PROVE  Promise!Open(m)
      BY <2>1 DEF Send, Promise!Open
    <2>2. CASE Backoff \/ WaitForHost
      BY <2>2 DEF Backoff, WaitForHost, Promise!vars
    <2>3. ASSUME NEW r \in AttemptResults, Retry(r)
          PROVE  Promise!Try
      <3>1. /\ AttemptEnds(r) /\ pc = "wire" /\ pc' = "backoff"
            /\ result' = result /\ attempt < AttemptLimit(method)
        BY <2>3 DEF Retry, AttemptEnds, WorthRetrying
      <3>2. Len(seen) = attempt - 1 /\ attempt \in Nat
        BY <3>1 DEF AttemptsCounted, TypeOK
      <3>3. Len(seen') = Len(seen) + 1 /\ method' = method
        BY <3>1, SeenFacts
      <3>4. QED
        BY <3>1, <3>2, <3>3 DEF Promise!Try
    <2>4. ASSUME NEW r \in AttemptResults, Settle(r)
          PROVE  Promise!Close(Verdict(r)) /\ Verdict(r) \in Promise!Answers
      <3>1. /\ AttemptEnds(r) /\ pc = "wire" /\ pc' = "idle"
            /\ result' = Verdict(r)
        BY <2>4 DEF Settle, AttemptEnds
      <3>2. Len(seen) = attempt - 1 /\ attempt \in Nat /\ attempt <= AttemptLimit(method)
        BY <3>1 DEF AttemptsCounted, TypeOK
      <3>3. Len(seen') = Len(seen) + 1 /\ method' = method
        BY <3>1, SeenFacts
      <3>4. AttemptLimit(method) \in Nat
        BY LimitFacts, PolicyAssumption
      <3>5. Verdict(r) = "ResponseError" => Len(seen) + 1 = AttemptLimit(method)
        BY <2>4, <3>2, <3>4, VerdictFacts DEF Settle, WorthRetrying, RetryableResults
      <3>6. Promise!Close(Verdict(r))
        BY <3>1, <3>2, <3>3, <3>4, <3>5 DEF Promise!Close
      <3>7. QED
        BY <3>6, VerdictFacts DEF Promise!Answers
    <2>5. CASE UNCHANGED vars
      BY <2>5 DEF vars, Promise!vars
    <2>6. QED
      BY <2>1, <2>2, <2>3, <2>4, <2>5 DEF Next, Call, Transport, Promise!Next
  <1>3. QED
    BY <1>1, <1>2, AttemptInvariant, TypeCorrect, PTL DEF Spec, KeepsPromise, Promise!Spec
===============================================================================
