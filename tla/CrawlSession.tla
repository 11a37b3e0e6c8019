----------------------------- MODULE CrawlSession -----------------------------
(***************************************************************************)
(* One run of the command line program, from main() to its exit status:    *)
(*   main, _positive_float       src/aa_crawler/cli/__init__.py            *)
(*   run_crawl                   src/aa_crawler/cli/app.py                 *)
(*   run_scheduled_crawl         src/aa_crawler/cli/scheduler.py           *)
(*   run_batch_crawl, run_scheduled_batch_crawl                            *)
(*                               src/aa_crawler/cli/batch.py               *)
(*   create_application_runtime  src/aa_crawler/application/runtime.py     *)
(*                                                                         *)
(* The four modes bootstrap the application, open one runtime, crawl,      *)
(* print each item and then save it.  They differ in what they repeat, in  *)
(* which failures they survive, in whether the runtime is still open while *)
(* an item is printed and saved, and in what a Ctrl+C does.  A Ctrl+C may  *)
(* arrive between any two steps, and in the middle of printing or saving.  *)
(***************************************************************************)
EXTENDS Naturals, Sequences

CONSTANTS
    NumUrls,        \* the URLs of a --urls-file
    RunLimits,      \* the values of --max-runs tried
    MaxCrawls       \* bound: crawls of one run; it stops only a schedule
                    \* without --max-runs, because of the next assumption

ASSUME SessionAssumption ==
    /\ NumUrls \in Nat \ {0}
    /\ RunLimits \subseteq Nat \ {0}
    /\ MaxCrawls \in Nat
    /\ \A n \in RunLimits \cup {1} : NumUrls * n <= MaxCrawls

NoLimit == 0

VARIABLES
    batch,          \* --urls-file was given, and not a URL
    interval,       \* the kind of number given to --interval, or "absent"
    maxRuns,        \* --max-runs, or NoLimit
    saving,         \* --output was given
    pc,             \* what the process does next
    runtime,        \* the ApplicationRuntime and its HTTP client
    next,           \* the position of the URL being crawled
    runCount,       \* run_count: passes completed
    exit,           \* the exit status, by its cause
    \* history, for the properties only
    attempts,       \* what each crawl came to, in order
    printed,        \* the attempts whose item was printed, in order
    saved,          \* the attempts whose item was saved, in order
    sleeps,         \* waits between passes
    opens,          \* runtimes created
    interrupted     \* a KeyboardInterrupt was raised

arguments == <<batch, interval, maxRuns, saving>>
output == <<printed, saved>>
vars == <<arguments, pc, runtime, next, runCount, exit, attempts, output,
          sleeps, opens, interrupted>>

\* What float() makes of the text given to --interval.
Numbers == {"negative", "zero", "finite", "infinite", "nan"}

\* Every comparison with a nan is false.
AtMostZero(x) == x \in {"negative", "zero"}

\* _positive_float: what it does not reject.
PositiveFloats == {x \in Numbers : ~AtMostZero(x)}

Scheduled == interval # "absent"
Single == ~batch /\ ~Scheduled
UrlCount == IF batch THEN NumUrls ELSE 1

\* What ArticleCrawlService.crawl and the serialization after it can come to.
CrawlResults ==
    {"item", "not_one_item", "UnsupportedSourceError", "CrawlerError", "Exception"}

\* Exit statuses 0 to 5, and the two ways to die with a traceback.
Exits == {"success", "unexpected", "unsupported", "crawl_failure", "startup",
          "persistence", "uncaught", "uncaught_interrupt"}

\* main(): the argument combinations that get past the parser.
Init ==
    /\ batch \in BOOLEAN
    /\ interval \in PositiveFloats \cup {"absent"}
    /\ maxRuns \in RunLimits \cup {NoLimit}
    /\ maxRuns # NoLimit => Scheduled
    /\ saving \in BOOLEAN
    /\ pc = "bootstrap"
    /\ runtime = "none"
    /\ next = 1
    /\ runCount = 0
    /\ exit = "none"
    /\ attempts = <<>>
    /\ printed = <<>>
    /\ saved = <<>>
    /\ sleeps = 0
    /\ opens = 0
    /\ interrupted = FALSE

\* Leaving by return only, without the with statement.
CloseRuntime_Never == runtime' = runtime

\* ApplicationRuntime.__exit__, however the with block is left.
CloseRuntime == runtime' = IF runtime = "open" THEN "closed" ELSE runtime

Exit(code) ==
    /\ pc' = "stopped"
    /\ exit' = code
    /\ CloseRuntime

GoOn(step) ==
    /\ pc' = step
    /\ UNCHANGED <<exit, runtime>>

\* bootstrap_application(), the same two handlers in every mode.
Bootstrap ==
    /\ pc = "bootstrap"
    /\ \/ GoOn("create")
       \/ Exit("startup")
       \/ Exit("unexpected")
    /\ UNCHANGED <<arguments, next, runCount, attempts, output, sleeps, opens, interrupted>>

\* create_application_runtime() succeeds.
CreateRuntime ==
    /\ pc = "create"
    /\ pc' = "crawl"
    /\ runtime' = "open"
    /\ opens' = opens + 1
    /\ UNCHANGED <<arguments, next, runCount, exit, attempts, output, sleeps, interrupted>>

\* It raises: run_crawl has handlers around it, the other modes do not.
CreateFails ==
    /\ pc = "create"
    /\ Exit(IF Single THEN "unexpected" ELSE "uncaught")
    /\ UNCHANGED <<arguments, next, runCount, attempts, output, sleeps, opens, interrupted>>

\* Making one pass more than --max-runs.
PassDone_OneMore ==
    /\ runCount' = runCount + 1
    /\ IF Scheduled /\ (maxRuns = NoLimit \/ runCount < maxRuns)
       THEN GoOn("sleep")
       ELSE Exit("success")

\* Not counting the passes.
PassDone_Uncounted ==
    /\ runCount' = runCount
    /\ IF Scheduled /\ (maxRuns = NoLimit \/ runCount + 1 < maxRuns)
       THEN GoOn("sleep")
       ELSE Exit("success")

\* The end of a pass over the URLs (of the only crawl, in the other modes).
PassDone ==
    /\ runCount' = runCount + 1
    /\ IF Scheduled /\ (maxRuns = NoLimit \/ runCount + 1 < maxRuns)
       THEN GoOn("sleep")
       ELSE Exit("success")

\* Going past the end of the list.
UrlDone_Overrun ==
    \/ /\ next <= UrlCount
       /\ next' = next + 1
       /\ GoOn("crawl")
       /\ UNCHANGED runCount
    \/ /\ next > UrlCount
       /\ PassDone
       /\ UNCHANGED next

\* _run_one_url or _run_iteration returned None: the next URL, or the pass is over.
UrlDone ==
    \/ /\ next < UrlCount
       /\ next' = next + 1
       /\ GoOn("crawl")
       /\ UNCHANGED runCount
    \/ /\ next = UrlCount
       /\ PassDone
       /\ UNCHANGED next

\* Catching CrawlerError before its subclass UnsupportedSourceError.
Handler_BaseClassFirst(r) ==
    CASE r = "item" -> "print"
      [] r \in {"UnsupportedSourceError", "CrawlerError"} ->
            IF Single THEN "crawl_failure" ELSE "skip"
      [] r \in {"not_one_item", "Exception"} -> "unexpected"

\* The except clauses of the mode: print the item, skip the URL, or exit.
Handler(r) ==
    CASE r = "item" -> "print"
      [] r = "UnsupportedSourceError" -> IF batch THEN "skip" ELSE "unsupported"
      [] r = "CrawlerError" -> IF Single THEN "crawl_failure" ELSE "skip"
      [] r \in {"not_one_item", "Exception"} -> "unexpected"

\* One crawl; run_crawl leaves its with statement before it prints.
Crawl(r) ==
    /\ pc = "crawl"
    /\ Len(attempts) < MaxCrawls
    /\ attempts' = Append(attempts, r)
    /\ \/ /\ Handler(r) = "print"
          /\ pc' = "print"
          /\ IF Single THEN CloseRuntime ELSE runtime' = runtime
          /\ UNCHANGED <<next, runCount, exit>>
       \/ /\ Handler(r) = "skip"
          /\ UrlDone
       \/ /\ Handler(r) \in Exits
          /\ Exit(Handler(r))
          /\ UNCHANGED <<next, runCount>>
    /\ UNCHANGED <<arguments, output, sleeps, opens, interrupted>>

\* print(payload)
PrintItem ==
    /\ pc = "print"
    /\ printed' = Append(printed, Len(attempts))
    /\ IF saving THEN GoOn("save") /\ UNCHANGED <<next, runCount>> ELSE UrlDone
    /\ UNCHANGED <<arguments, attempts, saved, sleeps, opens, interrupted>>

\* Standard output is gone: nothing catches the OSError.
PrintFails ==
    /\ pc = "print"
    /\ Exit("uncaught")
    /\ UNCHANGED <<arguments, next, runCount, attempts, output, sleeps, opens, interrupted>>

\* sink.save(item)
Save ==
    /\ pc = "save"
    /\ saved' = Append(saved, Len(attempts))
    /\ UrlDone
    /\ UNCHANGED <<arguments, attempts, printed, sleeps, opens, interrupted>>

\* Carrying on after a PersistenceWriteError, as after a failed crawl.
SaveFails_Skips ==
    /\ pc = "save"
    /\ UrlDone
    /\ UNCHANGED <<arguments, attempts, output, sleeps, opens, interrupted>>

\* PersistenceWriteError ends the process in every mode.
SaveFails ==
    /\ pc = "save"
    /\ Exit("persistence")
    /\ UNCHANGED <<arguments, next, runCount, attempts, output, sleeps, opens, interrupted>>

\* sleep(interval), and the next pass: time.sleep takes no nan and no infinity.
Sleep ==
    /\ pc = "sleep"
    /\ \/ /\ interval = "finite"
          /\ GoOn("crawl")
          /\ next' = 1
          /\ sleeps' = sleeps + 1
       \/ /\ interval # "finite"
          /\ Exit("uncaught")
          /\ UNCHANGED <<next, sleeps>>
    /\ UNCHANGED <<arguments, runCount, attempts, output, opens, interrupted>>

\* Ctrl+C.  The scheduled modes catch it from the creation of the runtime on.
\* What was being printed or saved may or may not have got out.
Interrupt ==
    /\ pc # "stopped"
    /\ interrupted' = TRUE
    /\ Exit(IF Scheduled /\ pc # "bootstrap" THEN "success" ELSE "uncaught_interrupt")
    /\ \/ UNCHANGED output
       \/ /\ pc = "print"
          /\ printed' = Append(printed, Len(attempts))
          /\ UNCHANGED saved
       \/ /\ pc = "save"
          /\ saved' = Append(saved, Len(attempts))
          /\ UNCHANGED printed
    /\ UNCHANGED <<arguments, next, runCount, attempts, sleeps, opens>>

Work ==
    \/ Bootstrap \/ CreateRuntime \/ CreateFails
    \/ \E r \in CrawlResults : Crawl(r)
    \/ PrintItem \/ PrintFails \/ Save \/ SaveFails \/ Sleep

Next == Work \/ Interrupt

\* The process, which may also stop at any step and never go on.
SafetySpec == Init /\ [][Next]_vars

\* Every step of the process ends: crawls by ArticleCrawl!EveryCrawlEnds, the
\* sleeps by themselves.  Nothing obliges the user to press Ctrl+C.
Spec == SafetySpec /\ WF_vars(Work)

-------------------------------------------------------------------------------

TypeOK ==
    /\ batch \in BOOLEAN /\ saving \in BOOLEAN /\ interrupted \in BOOLEAN
    /\ interval \in {"absent", "finite", "infinite", "nan"}
    /\ maxRuns \in Nat
    /\ pc \in {"bootstrap", "create", "crawl", "print", "save", "sleep", "stopped"}
    /\ runtime \in {"none", "open", "closed"}
    /\ next \in 1..UrlCount
    /\ runCount \in Nat /\ sleeps \in Nat /\ opens \in Nat
    /\ exit \in Exits \cup {"none"}
    /\ attempts \in Seq(CrawlResults)
    /\ printed \in Seq(Nat) /\ saved \in Seq(Nat)

(***************************************************************************)
(* ADR-022, ADR-023: one runtime for the whole run, never used before it   *)
(* is opened or after it is closed, and closed however the process ends -  *)
(* a return, an exception nothing catches, or a Ctrl+C at any moment.      *)
(***************************************************************************)
RuntimeIsOwned ==
    /\ opens <= 1
    /\ pc \in {"crawl", "sleep"} => runtime = "open"
    /\ pc \in {"bootstrap", "create"} => runtime = "none"
    /\ pc = "stopped" => runtime # "open"

IsPrefixOf(s, t) == Len(s) <= Len(t) /\ \A i \in 1..Len(s) : s[i] = t[i]

(***************************************************************************)
(* ADR-027: an item is saved only after it was printed, in the same order  *)
(* and once each; only the last printed item can be missing from the sink, *)
(* and then the process has not gone on to another crawl.                  *)
(***************************************************************************)
SavedFollowsPrinted ==
    /\ IsPrefixOf(saved, printed)
    /\ Len(printed) <= Len(saved) + 1 \/ ~saving
    /\ saving /\ Len(printed) > Len(saved) => pc \in {"save", "stopped"}
    /\ ~saving => saved = <<>>

\* The attempts that ended with a single item.
Items == {i \in 1..Len(attempts) : attempts[i] = "item"}

(***************************************************************************)
(* README, exit codes: the status tells the operator what happened.  Status *)
(* 0 without a Ctrl+C means that every item was printed and, with --output, *)
(* saved, and that every failed crawl was one the mode may skip; 5 means    *)
(* that exactly the last printed item is missing from the sink.             *)
(***************************************************************************)
ExitTellsWhatHappened ==
    /\ exit = "success" /\ ~interrupted =>
          /\ {printed[i] : i \in 1..Len(printed)} = Items
          /\ saving => saved = printed
          /\ \A i \in 1..Len(attempts) :
                \/ attempts[i] = "item"
                \/ attempts[i] = "CrawlerError" /\ (batch \/ Scheduled)
                \/ attempts[i] = "UnsupportedSourceError" /\ batch
    /\ exit = "persistence" => saving /\ Len(printed) = Len(saved) + 1
    /\ exit = "unsupported" => ~batch /\ attempts[Len(attempts)] = "UnsupportedSourceError"
    /\ exit = "crawl_failure" => Single /\ attempts = <<"CrawlerError">>
    /\ exit = "startup" => opens = 0

(***************************************************************************)
(* ADR-028, ADR-029: without a Ctrl+C or a terminal failure the program    *)
(* makes exactly --max-runs passes (one, without a schedule), each over    *)
(* every URL whatever became of the others, with a wait between two passes *)
(* and none after the last.                                                *)
(***************************************************************************)
PassesAreComplete ==
    exit = "success" /\ ~interrupted =>
        /\ runCount = (IF Scheduled THEN maxRuns ELSE 1)
        /\ Len(attempts) = runCount * UrlCount
        /\ sleeps + 1 = runCount

\* A run that is not an endless schedule ends, whatever fails and is skipped.
BoundedRunsEnd == (~Scheduled \/ maxRuns # NoLimit) ~> (pc = "stopped")

(***************************************************************************)
(* README, batch table: "Reaching --max-runs, or a keyboard interrupt:     *)
(* clean shutdown, exit 0".                                                *)
(***************************************************************************)
BatchInterruptIsClean ==
    batch /\ interrupted /\ opens = 1 => exit = "success"

(***************************************************************************)
(* cli/__init__.py: --interval accepts a "positive number of seconds", and *)
(* the crawl repeats "until interrupted or --max-runs is reached": the     *)
(* wait between two passes is never what ends the run.                     *)
(***************************************************************************)
WaitsDoNotCrash == [][pc = "sleep" /\ pc' = "stopped" => interrupted']_vars
===============================================================================
