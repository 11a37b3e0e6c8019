-------------------------------- MODULE Process --------------------------------
(***************************************************************************)
(* A Python process in which a program may call bootstrap_application()    *)
(* itself (the package exports it), and which then runs main(): startup    *)
(* (Startup) and the run of the command line program (CrawlSession) in one *)
(* process, over one environment, one disk and one logger.                 *)
(*                                                                         *)
(* CrawlSession takes the startup as one step, Bootstrap.  Here it is the  *)
(* steps of the call main() makes, and Bootstrap is the last of them.      *)
(***************************************************************************)
EXTENDS CrawlSession

CONSTANTS
    Overrides, Dotenvs, Environments,
    MaxEarlierCalls     \* bound: calls of bootstrap_application() before main()

VARIABLES
    environ, step, settings, todo, outgoing, outcome, disk, attached, closed,
    propagates, calls, made, built, good,
    inMain          \* main() has called bootstrap_application()

Startup == INSTANCE Startup

\* A caller may always do as main() does, and pass nothing.
ASSUME ProcessAssumption ==
    /\ \A s \in Overrides \cup Dotenvs \cup Environments : Startup!IsSource(s)
    /\ Startup!Nothing \in Overrides \cap Dotenvs
    /\ MaxEarlierCalls \in Nat

startupVars == <<environ, step, settings, todo, outgoing, outcome, disk, attached,
                 closed, propagates, calls, made, built, good>>
processVars == <<vars, startupVars, inMain>>

ProcessInit ==
    /\ Init
    /\ Startup!Init
    /\ inMain = FALSE

\* The embedding program starts the application, with whatever it likes.
EarlierCall ==
    /\ ~inMain
    /\ calls < MaxEarlierCalls
    /\ \E o \in Overrides, d \in Dotenvs : Startup!LoadSettings(o, d)
    /\ UNCHANGED <<vars, inMain>>

EarlierCallGoesOn ==
    /\ ~inMain
    /\ Startup!GoOnStarting
    /\ UNCHANGED <<vars, inMain>>

\* Every error of the startup is an AACrawlerError.
StartupOutcome ==
    IF outcome' = "returned" THEN pc' = "create" ELSE exit' = "startup"

\* The call of main() is one step of CrawlSession when it ends, and none before.
MainStarts ==
    /\ inMain' = TRUE
    /\ IF step' = "idle" THEN Bootstrap /\ StartupOutcome ELSE UNCHANGED vars

\* Leaving the application alone that an earlier call has started.
EnterMain_Once ==
    /\ ~inMain /\ step = "idle"
    /\ IF good.call > 0
       THEN inMain' = TRUE /\ Bootstrap /\ pc' = "create" /\ UNCHANGED startupVars
       ELSE Startup!LoadSettings(Startup!Nothing, Startup!Nothing) /\ MainStarts

\* main() passes base_dir only: no overrides and no dotenv file.
EnterMain ==
    /\ ~inMain
    /\ Startup!LoadSettings(Startup!Nothing, Startup!Nothing)
    /\ MainStarts

MainGoesOn ==
    /\ inMain /\ pc = "bootstrap"
    /\ Startup!GoOnStarting
    /\ MainStarts

\* Path.cwd() raises FileNotFoundError, before the startup begins.
NoWorkingDirectory ==
    /\ ~inMain /\ step = "idle"
    /\ inMain' = TRUE
    /\ Bootstrap /\ exit' = "unexpected"
    /\ UNCHANGED startupVars

SessionStep ==
    /\ pc # "bootstrap"
    /\ Work
    /\ UNCHANGED <<startupVars, inMain>>

\* Ctrl+C in main(): also between any two steps of the startup.
CtrlC ==
    /\ inMain
    /\ Interrupt
    /\ UNCHANGED <<startupVars, inMain>>

ProcessWork ==
    EarlierCallGoesOn \/ EnterMain \/ MainGoesOn \/ NoWorkingDirectory \/ SessionStep

ProcessNext == ProcessWork \/ EarlierCall \/ CtrlC

\* As CrawlSession's Spec; and the run of main() the model is about takes place.
ProcessSpec == ProcessInit /\ [][ProcessNext]_processVars /\ WF_processVars(ProcessWork)

-------------------------------------------------------------------------------

ProcessTypeOK ==
    /\ TypeOK
    /\ Startup!TypeOK
    /\ inMain \in BOOLEAN

(***************************************************************************)
(* configure_logging() replaces handlers safely in every process: after    *)
(* whatever calls and failures, and with a Ctrl+C within the call of main  *)
(* (see Startup), no record is doubled and no handler left open.           *)
(***************************************************************************)
LoggerIsWhole == Startup!LoggerIsWhole

(***************************************************************************)
(* bootstrap_application() reads, then creates directories in order, then  *)
(* attaches handlers, in every process and wherever the startup stops (see *)
(* Startup).                                                               *)
(***************************************************************************)
StartupIsOrdered == Startup!StartupIsOrdered

\* The handlers the environment asks for: console only, unless it says otherwise.
EnvironmentKinds ==
    LET Says(field, otherwise) ==
            IF field \in DOMAIN environ THEN environ[field] = "on" ELSE otherwise
    IN  {k \in {"console", "file"} :
            IF k = "console" THEN Says("console_enabled", TRUE) ELSE Says("file_enabled", FALSE)}

(***************************************************************************)
(* cli/app.py, scheduler.py, batch.py: a runtime is created only in a      *)
(* process whose startup returned.  Then the handlers in place are the     *)
(* ones the environment of the command asks for, whatever overrides and    *)
(* dotenv files an earlier startup had, and no record goes to the root     *)
(* logger as well; status 4 means that this startup raised, not another.   *)
(***************************************************************************)
SessionIsConfigured ==
    /\ opens > 0 =>
          /\ outcome = "returned" /\ good.call = calls
          /\ {h.kind : h \in attached} = {"foreign"} \cup EnvironmentKinds
          /\ {"data_dir", "temp_dir"} \subseteq disk
          /\ ~propagates
    /\ exit = "startup" =>
          /\ outcome \in {"InvalidEnvironmentValueError", "InvalidPathError"}
          /\ good.call < calls
===============================================================================
