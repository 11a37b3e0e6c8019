-------------------------- MODULE CrawlSessionProofs --------------------------
(***************************************************************************)
(* Theorems about CrawlSession for every list of URLs, every --max-runs    *)
(* and any number of passes, in all four modes, with a Ctrl+C anywhere.    *)
(***************************************************************************)
EXTENDS CrawlSession, TLAPS

\* The command line is read once; with it the mode stays what it is.
LEMMA ModeFacts ==
    ASSUME [Next]_vars
    PROVE  /\ UNCHANGED <<batch, interval, maxRuns, saving>>
           /\ Scheduled' = Scheduled /\ Single' = Single /\ UrlCount' = UrlCount
  <1>1. UNCHANGED arguments
    BY DEF Next, Work, Bootstrap, CreateRuntime, CreateFails, Crawl, PrintItem, PrintFails,
           Save, SaveFails, Sleep, Interrupt, vars
  <1>2. UNCHANGED <<batch, interval, maxRuns, saving>>
    BY <1>1 DEF arguments
  <1>3. QED
    BY <1>2 DEF Scheduled, Single, UrlCount

\* After a URL the process crawls the next one, waits for the next pass, or ends.
LEMMA UrlDoneFacts ==
    ASSUME TypeOK, UrlDone
    PROVE  \/ /\ next < UrlCount /\ next' = next + 1 /\ runCount' = runCount
              /\ pc' = "crawl" /\ UNCHANGED <<exit, runtime>>
           \/ /\ next = UrlCount /\ next' = next /\ runCount' = runCount + 1
              /\ Scheduled /\ (maxRuns = NoLimit \/ runCount + 1 < maxRuns)
              /\ pc' = "sleep" /\ UNCHANGED <<exit, runtime>>
           \/ /\ next = UrlCount /\ next' = next /\ runCount' = runCount + 1
              /\ ~(Scheduled /\ (maxRuns = NoLimit \/ runCount + 1 < maxRuns))
              /\ pc' = "stopped" /\ exit' = "success" /\ CloseRuntime
  BY DEF UrlDone, PassDone, GoOn, Exit

\* What the except clauses make of each outcome of a crawl.
LEMMA HandlerFacts ==
    ASSUME NEW r \in CrawlResults
    PROVE  /\ Handler(r) \in {"print", "skip", "unsupported", "crawl_failure", "unexpected"}
           /\ Handler(r) = "print" <=> r = "item"
           /\ Handler(r) = "skip" <=>
                 \/ r = "CrawlerError" /\ ~Single
                 \/ r = "UnsupportedSourceError" /\ batch
           /\ Handler(r) = "unsupported" => ~batch /\ r = "UnsupportedSourceError"
           /\ Handler(r) = "crawl_failure" => Single /\ r = "CrawlerError"
  BY DEF CrawlResults, Handler

-------------------------------------------------------------------------------

(***************************************************************************)
(* Where the runtime is at each point of the program: run_crawl has closed *)
(* it when it prints, the other modes keep it open until they exit.        *)
(***************************************************************************)
RuntimeInv ==
    /\ opens = (IF runtime = "none" THEN 0 ELSE 1)
    /\ pc \in {"bootstrap", "create"} => runtime = "none"
    /\ pc \in {"crawl", "sleep"} => runtime = "open"
    /\ pc \in {"print", "save"} => runtime = (IF Single THEN "closed" ELSE "open")
    /\ pc = "stopped" => runtime # "open"
    /\ pc = "sleep" => Scheduled

\* TypeOK and RuntimeInv are preserved together: the single crawl never comes
\* back to a runtime it has closed, because its list of URLs has one element.
LEMMA RuntimeStep == TypeOK /\ RuntimeInv /\ [Next]_vars => (TypeOK /\ RuntimeInv)'
  <1> SUFFICES ASSUME TypeOK, RuntimeInv, [Next]_vars
               PROVE  TypeOK' /\ RuntimeInv'
    OBVIOUS
  <1> USE ModeFacts
  <1>0. UrlCount \in Nat \ {0} /\ (Single => UrlCount = 1 /\ ~Scheduled)
    BY SessionAssumption DEF UrlCount, Single
  <1>1. CASE Bootstrap
    BY <1>1 DEF Bootstrap, GoOn, Exit, CloseRuntime, output, TypeOK, RuntimeInv, Exits
  <1>2. CASE CreateRuntime
    BY <1>2 DEF CreateRuntime, output, TypeOK, RuntimeInv, Exits
  <1>3. CASE CreateFails
    BY <1>3 DEF CreateFails, Exit, CloseRuntime, output, TypeOK, RuntimeInv, Exits
  <1>4. ASSUME NEW r \in CrawlResults, Crawl(r)
        PROVE  TypeOK' /\ RuntimeInv'
    <2>1. attempts' \in Seq(CrawlResults)
      BY <1>4 DEF Crawl, TypeOK
    <2>2. /\ pc = "crawl" /\ UNCHANGED <<printed, saved, sleeps, opens, interrupted>>
      BY <1>4 DEF Crawl, output
    <2>3. CASE Handler(r) = "print"
      BY <1>4, <2>1, <2>2, <2>3, HandlerFacts
      DEF Crawl, CloseRuntime, TypeOK, RuntimeInv, Exits
    <2>4. CASE Handler(r) = "skip"
      <3>1. UrlDone /\ ~Single
        BY <1>4, <2>4, HandlerFacts DEF Crawl, Exits, Single
      <3>2. QED
        BY <1>0, <2>1, <2>2, <3>1, UrlDoneFacts DEF CloseRuntime, TypeOK, RuntimeInv, Exits
    <2>5. CASE Handler(r) \in Exits
      <3>1. Exit(Handler(r)) /\ UNCHANGED <<next, runCount>>
        BY <1>4, <2>5, HandlerFacts DEF Crawl, Exits
      <3>2. QED
        BY <2>1, <2>2, <2>5, <3>1 DEF Exit, CloseRuntime, TypeOK, RuntimeInv
    <2>6. QED
      BY <2>3, <2>4, <2>5, HandlerFacts DEF Exits
  <1>5. CASE PrintItem
    <2>1. /\ pc = "print" /\ UNCHANGED <<attempts, saved, sleeps, opens, interrupted>>
          /\ printed' \in Seq(Nat)
      BY <1>5 DEF PrintItem, TypeOK
    <2>2. CASE saving
      <3>1. pc' = "save" /\ UNCHANGED <<exit, runtime, next, runCount>>
        BY <1>5, <2>2 DEF PrintItem, GoOn
      <3>2. QED
        BY <2>1, <3>1 DEF TypeOK, RuntimeInv
    <2>3. CASE ~saving
      <3>1. UrlDone
        BY <1>5, <2>3 DEF PrintItem
      <3>2. QED
        BY <1>0, <2>1, <3>1, UrlDoneFacts DEF CloseRuntime, TypeOK, RuntimeInv, Exits
    <2>4. QED
      BY <2>2, <2>3
  <1>6. CASE PrintFails
    BY <1>6 DEF PrintFails, Exit, CloseRuntime, output, TypeOK, RuntimeInv, Exits
  <1>7. CASE Save
    <2>1. /\ pc = "save" /\ UNCHANGED <<attempts, printed, sleeps, opens, interrupted>>
          /\ saved' \in Seq(Nat) /\ UrlDone
      BY <1>7 DEF Save, TypeOK
    <2>2. QED
      BY <1>0, <2>1, UrlDoneFacts DEF CloseRuntime, TypeOK, RuntimeInv, Exits
  <1>8. CASE SaveFails
    BY <1>8 DEF SaveFails, Exit, CloseRuntime, output, TypeOK, RuntimeInv, Exits
  <1>9. CASE Sleep
    <2>1. /\ pc = "sleep" /\ UNCHANGED <<runCount, attempts, printed, saved, opens, interrupted>>
      BY <1>9 DEF Sleep, output
    <2>2. CASE pc' = "crawl" /\ next' = 1 /\ sleeps' = sleeps + 1 /\ UNCHANGED <<exit, runtime>>
      <3>1. next' \in 1..UrlCount' /\ sleeps' \in Nat
        BY <1>0, <2>2 DEF TypeOK
      <3>2. TypeOK'
        BY <2>1, <2>2, <3>1 DEF TypeOK
      <3>3. RuntimeInv'
        BY <2>1, <2>2 DEF RuntimeInv
      <3>4. QED
        BY <3>2, <3>3
    <2>3. CASE /\ pc' = "stopped" /\ exit' = "uncaught" /\ CloseRuntime
               /\ UNCHANGED <<next, sleeps>>
      BY <1>0, <2>1, <2>3 DEF CloseRuntime, TypeOK, RuntimeInv, Exits
    <2>4. QED
      BY <1>9, <2>2, <2>3 DEF Sleep, GoOn, Exit
  <1>10. CASE Interrupt
    <2>1. /\ UNCHANGED <<next, runCount, attempts, sleeps, opens>>
          /\ pc' = "stopped" /\ CloseRuntime
          /\ exit' \in {"success", "uncaught_interrupt"}
      BY <1>10 DEF Interrupt, Exit
    <2>2. printed' \in Seq(Nat) /\ saved' \in Seq(Nat)
      <3>1. Len(attempts) \in Nat /\ printed \in Seq(Nat) /\ saved \in Seq(Nat)
        BY DEF TypeOK
      <3>2. CASE UNCHANGED output
        BY <3>1, <3>2 DEF output
      <3>3. CASE printed' = Append(printed, Len(attempts)) /\ UNCHANGED saved
        BY <3>1, <3>3
      <3>4. CASE saved' = Append(saved, Len(attempts)) /\ UNCHANGED printed
        BY <3>1, <3>4
      <3>5. QED
        BY <1>10, <3>2, <3>3, <3>4 DEF Interrupt
    <2>3. interrupted' \in BOOLEAN
      BY <1>10 DEF Interrupt
    <2>4. QED
      BY <2>1, <2>2, <2>3 DEF CloseRuntime, TypeOK, RuntimeInv, Exits
  <1>11. CASE UNCHANGED vars
    BY <1>11 DEF vars, output, TypeOK, RuntimeInv
  <1>12. QED
    BY <1>1, <1>2, <1>3, <1>4, <1>5, <1>6, <1>7, <1>8, <1>9, <1>10, <1>11 DEF Next, Work

\* Both hold of every behaviour.
LEMMA RuntimeInvariant == SafetySpec => [](TypeOK /\ RuntimeInv)
  <1>1. ASSUME Init
        PROVE  TypeOK /\ RuntimeInv
    <2>1. interval \in {"absent", "finite", "infinite", "nan"} /\ maxRuns \in Nat
      BY <1>1, SessionAssumption DEF Init, PositiveFloats, Numbers, AtMostZero, NoLimit
    <2>2. interrupted \in BOOLEAN
      BY <1>1 DEF Init
    <2>3. QED
      BY <1>1, <2>1, <2>2, SessionAssumption DEF Init, TypeOK, RuntimeInv, UrlCount
  <1>2. QED
    BY <1>1, RuntimeStep, PTL DEF SafetySpec

\* The session keeps its types: the position in the list of URLs never leaves it.
THEOREM TypeCorrect == SafetySpec => []TypeOK
  BY RuntimeInvariant, PTL

\* Every mode opens at most one runtime, crawls only while it is open, and has
\* closed it when the process ends, whatever ended it.
THEOREM RuntimeAlwaysOwned == SafetySpec => []RuntimeIsOwned
  <1>1. TypeOK /\ RuntimeInv => RuntimeIsOwned
    BY DEF TypeOK, RuntimeInv, RuntimeIsOwned
  <1>2. QED
    BY <1>1, RuntimeInvariant, PTL

-------------------------------------------------------------------------------

(***************************************************************************)
(* What standard output and the sink hold at each point: they agree except *)
(* between the printing and the saving of an item, and where the process   *)
(* stopped in between.                                                     *)
(***************************************************************************)
OutputInv ==
    /\ ~saving => saved = <<>>
    /\ pc = "save" => saving /\ printed = Append(saved, Len(attempts))
    /\ saving /\ pc \notin {"save", "stopped"} => printed = saved
    /\ saving /\ pc = "stopped" => printed = saved \/ \E n \in Nat : printed = Append(saved, n)

\* OutputInv is preserved by every step.
LEMMA OutputStep == TypeOK /\ OutputInv /\ [Next]_vars => OutputInv'
  <1> SUFFICES ASSUME TypeOK, OutputInv, [Next]_vars
               PROVE  OutputInv'
    OBVIOUS
  <1>0. saving' = saving /\ Len(attempts) \in Nat
    BY ModeFacts DEF TypeOK
  <1>1. CASE UNCHANGED <<printed, saved>> /\ pc \notin {"save", "stopped"} /\ pc' # "save"
    BY <1>0, <1>1 DEF OutputInv
  <1>2. CASE Bootstrap \/ CreateRuntime \/ CreateFails \/ PrintFails \/ Sleep
    BY <1>1, <1>2
    DEF Bootstrap, CreateRuntime, CreateFails, PrintFails, Sleep, GoOn, Exit, output
  <1>3. ASSUME NEW r \in CrawlResults, Crawl(r)
        PROVE  OutputInv'
    <2>1. pc' # "save"
      BY <1>3, UrlDoneFacts DEF Crawl, Exit
    <2>2. QED
      BY <1>1, <1>3, <2>1 DEF Crawl, output
  <1>4. CASE PrintItem
    <2>1. /\ pc = "print" /\ printed' = Append(printed, Len(attempts))
          /\ UNCHANGED <<attempts, saved>>
      BY <1>4 DEF PrintItem
    <2>2. CASE saving
      BY <1>0, <1>4, <2>1, <2>2 DEF PrintItem, GoOn, OutputInv
    <2>3. CASE ~saving
      BY <1>0, <1>4, <2>1, <2>3, UrlDoneFacts DEF PrintItem, OutputInv
    <2>4. QED
      BY <2>2, <2>3
  <1>5. CASE Save
    <2>1. /\ pc = "save" /\ saved' = Append(saved, Len(attempts))
          /\ UNCHANGED printed
      BY <1>5 DEF Save
    <2>2. pc' # "save"
      BY <1>5, UrlDoneFacts DEF Save
    <2>3. QED
      BY <1>0, <2>1, <2>2 DEF OutputInv
  <1>6. CASE SaveFails
    BY <1>0, <1>6 DEF SaveFails, Exit, output, OutputInv
  <1>7. CASE Interrupt
    <2>1. pc # "stopped" /\ pc' = "stopped"
      BY <1>7 DEF Interrupt, Exit
    <2>2. CASE UNCHANGED output
      BY <1>0, <2>1, <2>2 DEF output, OutputInv
    <2>3. CASE pc = "print" /\ printed' = Append(printed, Len(attempts)) /\ UNCHANGED saved
      BY <1>0, <2>1, <2>3 DEF OutputInv
    <2>4. CASE pc = "save" /\ saved' = Append(saved, Len(attempts)) /\ UNCHANGED printed
      BY <1>0, <2>1, <2>4 DEF OutputInv
    <2>5. QED
      BY <1>7, <2>2, <2>3, <2>4 DEF Interrupt
  <1>8. CASE UNCHANGED vars
    BY <1>8 DEF vars, arguments, output, OutputInv
  <1>9. QED
    BY <1>2, <1>3, <1>4, <1>5, <1>6, <1>7, <1>8 DEF Next, Work

\* OutputInv holds of every behaviour.
LEMMA OutputInvariant == SafetySpec => []OutputInv
  <1>1. Init => OutputInv
    BY DEF Init, OutputInv
  <1>2. QED
    BY <1>1, OutputStep, RuntimeInvariant, PTL DEF SafetySpec

\* The sink never holds an item standard output does not, nor in another order,
\* and misses at most the last one, in a process that has gone no further.
THEOREM SavedAlwaysFollowsPrinted == SafetySpec => []SavedFollowsPrinted
  <1>1. ASSUME TypeOK, OutputInv
        PROVE  SavedFollowsPrinted
    <2>1. printed \in Seq(Nat) /\ saved \in Seq(Nat) /\ Len(attempts) \in Nat
      BY <1>1 DEF TypeOK
    <2>2. CASE ~saving
      BY <1>1, <2>1, <2>2 DEF OutputInv, SavedFollowsPrinted, IsPrefixOf
    <2>3. CASE saving /\ printed = saved
      BY <2>1, <2>3 DEF SavedFollowsPrinted, IsPrefixOf
    <2>4. ASSUME saving, NEW n \in Nat, printed = Append(saved, n), pc \in {"save", "stopped"}
          PROVE  SavedFollowsPrinted
      BY <2>1, <2>4 DEF SavedFollowsPrinted, IsPrefixOf
    <2>5. QED
      BY <1>1, <2>1, <2>2, <2>3, <2>4 DEF OutputInv
  <1>2. QED
    BY <1>1, OutputInvariant, RuntimeInvariant, PTL

-------------------------------------------------------------------------------

(***************************************************************************)
(* How the crawls so far stand to the output, while the process runs:      *)
(* every one that gave an item was printed - the last one is, next - and   *)
(* the others failed in ways the mode skips.                               *)
(***************************************************************************)
Printed == {printed[i] : i \in 1..Len(printed)}

Skippable(r) ==
    \/ r = "CrawlerError" /\ ~Single
    \/ r = "UnsupportedSourceError" /\ batch

RunningInv ==
    pc # "stopped" =>
        /\ exit = "none" /\ ~interrupted
        /\ \A i \in 1..Len(attempts) : attempts[i] = "item" \/ Skippable(attempts[i])
        /\ Items = (IF pc = "print" THEN Printed \cup {Len(attempts)} ELSE Printed)
        /\ pc \in {"bootstrap", "create"} => attempts = <<>>
        /\ Single /\ pc = "crawl" => attempts = <<>>

ResultInv == RunningInv /\ ExitTellsWhatHappened

\* Appending an element adds it to the elements.
LEMMA AppendElements ==
    ASSUME NEW S, NEW s \in Seq(S), NEW x \in S
    PROVE  {Append(s, x)[i] : i \in 1..Len(Append(s, x))} = {s[i] : i \in 1..Len(s)} \cup {x}
  <1>1. Len(Append(s, x)) = Len(s) + 1 /\ Len(s) \in Nat
    OBVIOUS
  <1>2. \A i \in 1..Len(s) : Append(s, x)[i] = s[i]
    OBVIOUS
  <1>3. Append(s, x)[Len(s) + 1] = x
    OBVIOUS
  <1>4. ASSUME NEW y \in {Append(s, x)[i] : i \in 1..Len(Append(s, x))}
        PROVE  y \in {s[i] : i \in 1..Len(s)} \cup {x}
    BY <1>1, <1>2, <1>3
  <1>5. ASSUME NEW y \in {s[i] : i \in 1..Len(s)}
        PROVE  y \in {Append(s, x)[i] : i \in 1..Len(Append(s, x))}
    <2>1. PICK i \in 1..Len(s) : y = s[i]
      OBVIOUS
    <2>2. i \in 1..Len(Append(s, x)) /\ y = Append(s, x)[i]
      BY <1>1, <1>2, <2>1
    <2>3. QED
      BY <2>2
  <1>6. x \in {Append(s, x)[i] : i \in 1..Len(Append(s, x))}
    <2>1. Len(s) + 1 \in 1..Len(Append(s, x))
      BY <1>1
    <2>2. QED
      BY <1>3, <2>1
  <1>7. QED
    BY <1>4, <1>5, <1>6

\* One more crawl adds its number to the items if it gave one.
LEMMA ItemsFacts ==
    ASSUME TypeOK, NEW r \in CrawlResults, attempts' = Append(attempts, r)
    PROVE  /\ Items' = (IF r = "item" THEN Items \cup {Len(attempts')} ELSE Items)
           /\ Len(attempts') = Len(attempts) + 1
           /\ attempts'[Len(attempts')] = r
           /\ \A i \in 1..Len(attempts) : attempts'[i] = attempts[i]
  <1>1. attempts \in Seq(CrawlResults) /\ Len(attempts) \in Nat
    BY DEF TypeOK
  <1>2. Len(attempts') = Len(attempts) + 1 /\ attempts'[Len(attempts')] = r
    BY <1>1
  <1>3. \A i \in 1..Len(attempts) : attempts'[i] = attempts[i]
    BY <1>1
  <1>4. 1..Len(attempts') = 1..Len(attempts) \cup {Len(attempts')}
    BY <1>1, <1>2
  <1>5. CASE r = "item"
    BY <1>2, <1>3, <1>4, <1>5 DEF Items
  <1>6. CASE r # "item"
    BY <1>2, <1>3, <1>4, <1>6 DEF Items
  <1>7. QED
    BY <1>2, <1>3, <1>5, <1>6

\* Going on after a URL, or ending with status 0, is right when all output is out.
LEMMA UrlDoneResult ==
    ASSUME TypeOK, [Next]_vars, UrlDone, exit = "none", ~interrupted',
           Items' = Printed', saving => saved' = printed',
           \A i \in 1..Len(attempts') : attempts'[i] = "item" \/ Skippable(attempts'[i])
    PROVE  ResultInv'
  <1> USE ModeFacts
  <1>1. (\A i \in 1..Len(attempts) : attempts[i] = "item" \/ Skippable(attempts[i]))'
    BY DEF Skippable, Single, Scheduled
  <1>2. CASE next < UrlCount /\ pc' = "crawl" /\ exit' = exit
    <2>1. ~Single
      BY <1>2 DEF TypeOK, UrlCount, Single
    <2>2. ~Single'
      BY <2>1 DEF Single, Scheduled
    <2>3. QED
      BY <1>1, <1>2, <2>2 DEF ResultInv, RunningInv, ExitTellsWhatHappened
  <1>3. CASE pc' = "sleep" /\ exit' = exit
    BY <1>1, <1>3 DEF ResultInv, RunningInv, ExitTellsWhatHappened
  <1>4. CASE pc' = "stopped" /\ exit' = "success"
    <2>1. saving' => saved' = printed'
      OBVIOUS
    <2>2. (\A i \in 1..Len(attempts) :
              \/ attempts[i] = "item"
              \/ attempts[i] = "CrawlerError" /\ (batch \/ Scheduled)
              \/ attempts[i] = "UnsupportedSourceError" /\ batch)'
      BY <1>1 DEF Skippable, Single
    <2>3. {printed[i] : i \in 1..Len(printed)}' = Items'
      BY DEF Printed
    <2>4. QED
      BY <1>4, <2>1, <2>2, <2>3 DEF ResultInv, RunningInv, ExitTellsWhatHappened
  <1>5. QED
    BY <1>2, <1>3, <1>4, UrlDoneFacts

\* ResultInv is preserved by every step.
LEMMA ResultStep ==
    TypeOK /\ RuntimeInv /\ OutputInv /\ OutputInv' /\ ResultInv /\ [Next]_vars => ResultInv'
  <1> SUFFICES ASSUME TypeOK, RuntimeInv, OutputInv, OutputInv', ResultInv, [Next]_vars
               PROVE  ResultInv'
    OBVIOUS
  <1> USE ModeFacts
  <1>0. /\ \A r \in CrawlResults : Skippable(r)' = Skippable(r)
        /\ Single' = Single
        /\ attempts \in Seq(CrawlResults) /\ Len(attempts) \in Nat
        /\ printed \in Seq(Nat) /\ saved \in Seq(Nat)
    BY DEF Skippable, Single, Scheduled, TypeOK
  \* The process ends in a way that says nothing about the crawls.
  <1>1. ASSUME exit' \in {"uncaught", "unexpected", "uncaught_interrupt"}, pc' = "stopped"
        PROVE  ResultInv'
    BY <1>1 DEF ResultInv, RunningInv, ExitTellsWhatHappened
  <1>2. CASE Bootstrap
    <2>1. CASE pc' = "create" /\ exit' = exit
      BY <1>2, <2>1
      DEF Bootstrap, output, ResultInv, RunningInv, ExitTellsWhatHappened, Items, Printed
    <2>2. CASE pc' = "stopped" /\ exit' = "startup"
      BY <1>2, <2>2
      DEF Bootstrap, RuntimeInv, ResultInv, RunningInv, ExitTellsWhatHappened
    <2>3. QED
      BY <1>1, <1>2, <2>1, <2>2 DEF Bootstrap, GoOn, Exit
  <1>3. CASE CreateRuntime
    BY <1>3
    DEF CreateRuntime, output, ResultInv, RunningInv, ExitTellsWhatHappened, Items, Printed
  <1>4. CASE CreateFails \/ PrintFails
    BY <1>1, <1>4 DEF CreateFails, PrintFails, Exit
  <1>5. ASSUME NEW r \in CrawlResults, Crawl(r)
        PROVE  ResultInv'
    <2>1. /\ pc = "crawl" /\ attempts' = Append(attempts, r)
          /\ UNCHANGED <<printed, saved, interrupted, opens>>
          /\ exit = "none" /\ ~interrupted /\ Items = Printed /\ Printed' = Printed
          /\ Single => attempts = <<>>
          /\ saving => printed = saved
      BY <1>5 DEF Crawl, output, ResultInv, RunningInv, OutputInv, Printed
    <2>2. ASSUME r = "item" \/ Skippable(r)
          PROVE  \A i \in 1..Len(attempts') : attempts'[i] = "item" \/ Skippable(attempts'[i])
      BY <1>0, <2>1, <2>2, ItemsFacts DEF ResultInv, RunningInv
    <2>3. CASE Handler(r) = "print"
      <3>1. r = "item" /\ pc' = "print" /\ exit' = exit
        BY <1>5, <2>3, HandlerFacts DEF Crawl, Exits
      <3>2. (\A i \in 1..Len(attempts) : attempts[i] = "item" \/ Skippable(attempts[i]))'
        BY <2>2, <3>1 DEF Skippable, Single, Scheduled
      <3>3. Items' = Printed' \cup {Len(attempts')}
        BY <2>1, <3>1, ItemsFacts
      <3>4. QED
        BY <2>1, <3>1, <3>2, <3>3 DEF ResultInv, RunningInv, ExitTellsWhatHappened
    <2>4. CASE Handler(r) = "skip"
      <3>1. UrlDone /\ r # "item" /\ Skippable(r)
        BY <1>5, <2>4, HandlerFacts DEF Crawl, Exits, Skippable
      <3>2. Items' = Printed' /\ (saving => saved' = printed')
        BY <2>1, <3>1, ItemsFacts
      <3>3. QED
        BY <2>1, <2>2, <3>1, <3>2, UrlDoneResult
    <2>5. CASE Handler(r) \in Exits
      <3>1. pc' = "stopped" /\ exit' = Handler(r)
        BY <1>5, <2>5, HandlerFacts DEF Crawl, Exits, Exit
      <3>2. CASE Handler(r) = "unexpected"
        BY <1>1, <3>1, <3>2
      <3>3. CASE Handler(r) = "unsupported"
        <4>1. ~batch' /\ attempts'[Len(attempts')] = "UnsupportedSourceError"
          BY <2>1, <3>3, HandlerFacts, ItemsFacts
        <4>2. QED
          BY <3>1, <3>3, <4>1 DEF ResultInv, RunningInv, ExitTellsWhatHappened
      <3>4. CASE Handler(r) = "crawl_failure"
        <4>1. Single /\ r = "CrawlerError"
          BY <3>4, HandlerFacts
        <4>2. Single' /\ attempts' = <<"CrawlerError">>
          BY <1>0, <2>1, <4>1
        <4>3. QED
          BY <3>1, <3>4, <4>2 DEF ResultInv, RunningInv, ExitTellsWhatHappened
      <3>5. QED
        BY <2>5, <3>2, <3>3, <3>4, HandlerFacts DEF Exits
    <2>6. QED
      BY <2>3, <2>4, <2>5, HandlerFacts DEF Exits
  <1>6. CASE PrintItem
    <2>1. /\ pc = "print" /\ printed' = Append(printed, Len(attempts))
          /\ UNCHANGED <<attempts, saved, interrupted>>
          /\ exit = "none" /\ ~interrupted
          /\ Items = Printed \cup {Len(attempts)}
          /\ \A i \in 1..Len(attempts) : attempts[i] = "item" \/ Skippable(attempts[i])
      BY <1>6 DEF PrintItem, ResultInv, RunningInv
    <2>2. Items' = Items /\ Printed' = Printed \cup {Len(attempts)}
      BY <1>0, <2>1, AppendElements DEF Items, Printed
    <2>3. CASE saving
      <3>1. pc' = "save" /\ exit' = exit
        BY <1>6, <2>3 DEF PrintItem, GoOn
      <3>2. (\A i \in 1..Len(attempts) : attempts[i] = "item" \/ Skippable(attempts[i]))'
        BY <2>1 DEF Skippable, Single, Scheduled
      <3>3. QED
        BY <2>1, <2>2, <3>1, <3>2 DEF ResultInv, RunningInv, ExitTellsWhatHappened
    <2>4. CASE ~saving
      BY <1>6, <2>1, <2>2, <2>4, UrlDoneResult DEF PrintItem
    <2>5. QED
      BY <2>3, <2>4
  <1>7. CASE Save
    <2>1. /\ pc = "save" /\ UNCHANGED <<attempts, printed, interrupted>> /\ UrlDone
          /\ saved' = Append(saved, Len(attempts))
          /\ exit = "none" /\ ~interrupted /\ Items = Printed
          /\ \A i \in 1..Len(attempts) : attempts[i] = "item" \/ Skippable(attempts[i])
          /\ printed = Append(saved, Len(attempts))
      BY <1>7 DEF Save, ResultInv, RunningInv, OutputInv
    <2>2. Items' = Printed'
      BY <2>1 DEF Items, Printed
    <2>3. QED
      BY <2>1, <2>2, UrlDoneResult
  <1>8. CASE SaveFails
    <2>1. /\ exit' = "persistence" /\ pc' = "stopped" /\ saving' /\ UNCHANGED <<printed, saved>>
          /\ printed = Append(saved, Len(attempts))
      BY <1>8 DEF SaveFails, Exit, output, OutputInv
    <2>2. Len(printed') = Len(saved') + 1
      BY <1>0, <2>1
    <2>3. QED
      BY <2>1, <2>2 DEF ResultInv, RunningInv, ExitTellsWhatHappened
  <1>9. CASE Sleep
    <2>1. CASE pc' = "crawl" /\ exit' = exit
      <3>1. /\ pc = "sleep" /\ UNCHANGED <<attempts, printed, saved, interrupted>>
            /\ ~Single
        BY <1>9 DEF Sleep, output, RuntimeInv, Single
      <3>2. (\A i \in 1..Len(attempts) : attempts[i] = "item" \/ Skippable(attempts[i]))'
        BY <3>1 DEF ResultInv, RunningInv, Skippable, Single, Scheduled
      <3>3. Items' = Printed'
        BY <3>1 DEF ResultInv, RunningInv, Items, Printed
      <3>4. QED
        BY <1>0, <2>1, <3>1, <3>2, <3>3 DEF ResultInv, RunningInv, ExitTellsWhatHappened
    <2>2. QED
      BY <1>1, <1>9, <2>1 DEF Sleep, GoOn, Exit
  <1>10. CASE Interrupt
    <2>1. pc' = "stopped" /\ interrupted' /\ exit' \in {"success", "uncaught_interrupt"}
      BY <1>10 DEF Interrupt, Exit
    <2>2. QED
      BY <2>1 DEF ResultInv, RunningInv, ExitTellsWhatHappened
  <1>11. CASE UNCHANGED vars
    BY <1>11
    DEF vars, arguments, output, ResultInv, RunningInv, ExitTellsWhatHappened, Skippable,
        Items, Printed, Single, Scheduled
  <1>12. QED
    BY <1>2, <1>3, <1>4, <1>5, <1>6, <1>7, <1>8, <1>9, <1>10, <1>11 DEF Next, Work

\* ResultInv holds of every behaviour.
LEMMA ResultInvariant == SafetySpec => []ResultInv
  <1>1. ASSUME Init
        PROVE  ResultInv
    <2>1. /\ pc = "bootstrap" /\ exit = "none" /\ ~interrupted
          /\ Len(attempts) = 0 /\ Len(printed) = 0 /\ attempts = <<>>
      BY <1>1 DEF Init
    <2>2. QED
      BY <2>1 DEF ResultInv, RunningInv, ExitTellsWhatHappened, Items, Printed
  <1>2. QED
    BY <1>1, ResultStep, OutputInvariant, RuntimeInvariant, PTL DEF SafetySpec

\* The exit status never lies about what was printed, saved and skipped.
THEOREM ExitAlwaysTellsWhatHappened == SafetySpec => []ExitTellsWhatHappened
  BY ResultInvariant, PTL DEF ResultInv

-------------------------------------------------------------------------------

(***************************************************************************)
(* The position in the run: the crawls made so far are the passes          *)
(* completed times the URLs, plus the place in the current pass; there was *)
(* one wait per completed pass; and the passes have not reached --max-runs.*)
(***************************************************************************)
Position ==
    /\ pc \in {"bootstrap", "create", "crawl"} => Len(attempts) + 1 = runCount * UrlCount + next
    /\ pc \in {"print", "save"} => Len(attempts) = runCount * UrlCount + next
    /\ pc = "sleep" => Len(attempts) = runCount * UrlCount

PassInv ==
    /\ Position
    /\ pc \notin {"sleep", "stopped"} => sleeps = runCount
    /\ pc = "sleep" => sleeps + 1 = runCount
    /\ pc # "stopped" /\ maxRuns # NoLimit => runCount < maxRuns
    /\ pc # "stopped" /\ ~Scheduled => runCount = 0
    /\ PassesAreComplete

\* Completing one pass more completes UrlCount crawls more.
LEMMA PassArithmetic ==
    ASSUME NEW k \in Nat, NEW u \in Nat
    PROVE  (k + 1) * u = k * u + u
  OBVIOUS

\* What UrlDone does to the position, the crawl of the current URL being over.
LEMMA UrlDonePass ==
    ASSUME TypeOK, TypeOK', PassInv, RunningInv, [Next]_vars, UrlDone,
           pc \in {"crawl", "print", "save"}, sleeps' = sleeps,
           Len(attempts') = runCount * UrlCount + next
    PROVE  PassInv'
  <1> USE ModeFacts
  <1>1. /\ runCount \in Nat /\ UrlCount \in Nat /\ next \in Nat /\ maxRuns \in Nat
        /\ sleeps = runCount /\ exit = "none" /\ NoLimit = 0
        /\ maxRuns # NoLimit => runCount < maxRuns
        /\ ~Scheduled => runCount = 0
    BY SessionAssumption DEF TypeOK, UrlCount, PassInv, RunningInv, NoLimit
  <1>2. (runCount + 1) * UrlCount = runCount * UrlCount + UrlCount
    BY <1>1, PassArithmetic
  <1>3. CASE next < UrlCount /\ next' = next + 1 /\ runCount' = runCount /\ pc' = "crawl"
             /\ exit' = exit
    <2>1. Position'
      BY <1>1, <1>3 DEF Position
    <2>2. QED
      BY <1>1, <1>3, <2>1 DEF PassInv, PassesAreComplete
  <1>4. CASE next = UrlCount /\ runCount' = runCount + 1 /\ pc' = "sleep" /\ exit' = exit
             /\ Scheduled /\ (maxRuns = NoLimit \/ runCount + 1 < maxRuns)
    <2>1. Len(attempts') = runCount' * UrlCount'
      BY <1>1, <1>2, <1>4
    <2>2. Position'
      BY <1>4, <2>1 DEF Position
    <2>3. QED
      BY <1>1, <1>4, <2>2 DEF PassInv, PassesAreComplete
  <1>5. CASE next = UrlCount /\ runCount' = runCount + 1 /\ pc' = "stopped"
             /\ ~(Scheduled /\ (maxRuns = NoLimit \/ runCount + 1 < maxRuns))
    <2>1. Len(attempts') = runCount' * UrlCount'
      BY <1>1, <1>2, <1>5
    <2>2. runCount' = (IF Scheduled THEN maxRuns ELSE 1)
      BY <1>1, <1>5
    <2>3. PassesAreComplete'
      BY <1>1, <1>5, <2>1, <2>2 DEF PassesAreComplete
    <2>4. QED
      BY <1>5, <2>3 DEF PassInv, Position
  <1>6. QED
    BY <1>3, <1>4, <1>5, UrlDoneFacts

\* PassInv is preserved by every step.
LEMMA PassStep ==
    TypeOK /\ TypeOK' /\ RunningInv /\ PassInv /\ [Next]_vars => PassInv'
  <1> SUFFICES ASSUME TypeOK, TypeOK', RunningInv, PassInv, [Next]_vars
               PROVE  PassInv'
    OBVIOUS
  <1> USE ModeFacts
  <1>0. /\ attempts \in Seq(CrawlResults) /\ Len(attempts) \in Nat /\ runCount \in Nat
        /\ UrlCount \in Nat \ {0} /\ next \in Nat /\ sleeps \in Nat /\ maxRuns \in Nat
        /\ runCount * UrlCount \in Nat
    BY SessionAssumption DEF TypeOK, UrlCount
  \* The process ends otherwise than by completing its passes.
  <1>1. ASSUME pc' = "stopped", exit' # "success" \/ interrupted'
        PROVE  PassInv'
    BY <1>1 DEF PassInv, Position, PassesAreComplete
  \* The process goes on, nothing that counts having changed.
  <1>2. ASSUME UNCHANGED <<attempts, next, runCount, sleeps, exit>>, exit = "none",
               pc' # "stopped", pc # "stopped", pc # "sleep", pc' # "sleep",
               pc \in {"print", "save"} <=> pc' \in {"print", "save"}
        PROVE  PassInv'
    <2>1. Position'
      BY <1>2 DEF TypeOK, PassInv, Position
    <2>2. QED
      BY <1>2, <2>1 DEF PassInv, PassesAreComplete
  <1>3. CASE Bootstrap
    <2>1. CASE pc' = "create" /\ exit' = exit
      BY <1>2, <1>3, <2>1 DEF Bootstrap, RunningInv
    <2>2. QED
      BY <1>1, <1>3, <2>1 DEF Bootstrap, GoOn, Exit
  <1>4. CASE CreateRuntime
    BY <1>2, <1>4 DEF CreateRuntime, RunningInv
  <1>5. CASE CreateFails \/ PrintFails \/ SaveFails
    BY <1>1, <1>5 DEF CreateFails, PrintFails, SaveFails, Exit
  <1>6. ASSUME NEW r \in CrawlResults, Crawl(r)
        PROVE  PassInv'
    <2>1. /\ pc = "crawl" /\ exit = "none" /\ sleeps' = sleeps
          /\ Len(attempts') = runCount * UrlCount + next
      BY <1>0, <1>6, ItemsFacts DEF Crawl, RunningInv, PassInv, Position
    <2>2. CASE pc' = "print" /\ UNCHANGED <<next, runCount, exit>>
      <3>1. Position'
        BY <2>1, <2>2 DEF Position
      <3>2. QED
        BY <2>1, <2>2, <3>1 DEF PassInv, PassesAreComplete
    <2>3. CASE UrlDone
      BY <2>1, <2>3, UrlDonePass
    <2>4. CASE Exit(Handler(r)) /\ Handler(r) # "success"
      BY <1>1, <2>4 DEF Exit
    <2>5. QED
      BY <1>6, <2>2, <2>3, <2>4, HandlerFacts DEF Crawl
  <1>7. CASE PrintItem
    <2>1. pc = "print" /\ exit = "none" /\ UNCHANGED <<attempts, sleeps>>
      BY <1>7 DEF PrintItem, RunningInv
    <2>2. CASE saving
      BY <1>2, <1>7, <2>1, <2>2 DEF PrintItem, GoOn
    <2>3. CASE ~saving
      BY <1>7, <2>1, <2>3, UrlDonePass DEF PrintItem, PassInv, Position
    <2>4. QED
      BY <2>2, <2>3
  <1>8. CASE Save
    BY <1>8, UrlDonePass DEF Save, PassInv, Position
  <1>9. CASE Sleep
    <2>1. /\ pc = "sleep" /\ exit = "none" /\ UNCHANGED <<attempts, runCount>>
          /\ Len(attempts) = runCount * UrlCount /\ sleeps + 1 = runCount
      BY <1>9 DEF Sleep, RunningInv, PassInv, Position
    <2>2. CASE pc' = "crawl" /\ next' = 1 /\ sleeps' = sleeps + 1 /\ exit' = exit
      <3>1. Position'
        BY <1>0, <2>1, <2>2 DEF Position
      <3>2. QED
        BY <1>0, <2>1, <2>2, <3>1 DEF PassInv, PassesAreComplete
    <2>3. QED
      BY <1>1, <1>9, <2>2 DEF Sleep, GoOn, Exit
  <1>10. CASE Interrupt
    BY <1>1, <1>10 DEF Interrupt, Exit
  <1>11. CASE UNCHANGED vars
    <2>1. UNCHANGED <<pc, attempts, next, runCount, sleeps, exit, interrupted>>
      BY <1>11 DEF vars
    <2>2. PassesAreComplete'
      BY <2>1 DEF PassInv, PassesAreComplete
    <2>3. QED
      BY <2>1, <2>2 DEF PassInv, Position
  <1>12. QED
    BY <1>3, <1>4, <1>5, <1>6, <1>7, <1>8, <1>9, <1>10, <1>11 DEF Next, Work

\* A run that ends with status 0 and no Ctrl+C made exactly the passes it was
\* asked for, each over every URL, with one wait between two passes.
THEOREM PassesAlwaysComplete == SafetySpec => []PassesAreComplete
  <1>1. Init => PassInv
    <2>1. ASSUME Init
          PROVE  PassInv
      <3>1. /\ pc = "bootstrap" /\ exit = "none" /\ Len(attempts) = 0 /\ runCount = 0
            /\ next = 1 /\ sleeps = 0 /\ maxRuns \in Nat /\ UrlCount \in Nat
        BY <2>1, SessionAssumption DEF Init, UrlCount, NoLimit
      <3>2. Position
        BY <3>1 DEF Position
      <3>3. QED
        BY <3>1, <3>2 DEF PassInv, PassesAreComplete, NoLimit
    <2>2. QED
      BY <2>1
  <1>2. ResultInv => RunningInv
    BY DEF ResultInv
  <1>3. PassInv => PassesAreComplete
    BY DEF PassInv
  <1>4. QED
    BY <1>1, <1>2, <1>3, PassStep, ResultInvariant, RuntimeInvariant, PTL DEF SafetySpec
===============================================================================
