-------------------------------- MODULE Startup --------------------------------
(***************************************************************************)
(* bootstrap_application() and what it calls:                              *)
(*   bootstrap_application         src/aa_crawler/bootstrap.py             *)
(*   load_settings                 src/aa_crawler/configuration/loader.py  *)
(*   LoggingSettings               src/aa_crawler/configuration/models.py  *)
(*   prepare_runtime_directories   src/aa_crawler/configuration/paths.py   *)
(*   configure_logging     src/aa_crawler/observability/logging_setup.py   *)
(*                                                                         *)
(* It may be called any number of times in one Python process, each time   *)
(* with other overrides and another dotenv file, and each call works on    *)
(* what the earlier ones left: directories on the disk, and handlers on    *)
(* the logger "aa_crawler".  A setting is one of the two handler switches, *)
(* or "paths", which stands for the four directories; a value that some    *)
(* model rejects is "invalid".                                             *)
(***************************************************************************)
EXTENDS Naturals, Sequences

CONSTANTS
    Overrides,      \* what callers pass as overrides
    Dotenvs,        \* the dotenv files they select
    Environments    \* what os.environ may hold

Fields == {"console_enabled", "file_enabled", "paths"}

\* A variable or an override that no model declares.
Unknown == "unknown"

\* A source says something about some of the settings.
IsSource(s) == DOMAIN s \subseteq Fields \cup {Unknown}

\* No overrides, no dotenv file, an environment without AA_ variables.
Nothing == [f \in {} |-> "on"]

Defaults == [console_enabled |-> "on", file_enabled |-> "off", paths |-> "inside"]

VARIABLES
    environ,        \* os.environ
    step,           \* how far the current call is, or "idle"
    settings,       \* the settings it loaded
    todo,           \* the directories it still has to create, in order
    outgoing,       \* previous_handlers
    outcome,        \* how the last call ended
    disk,           \* the runtime directories that exist
    attached,       \* the handlers of the logger
    closed,         \* the handlers that were closed
    propagates,     \* logger.propagate
    \* history, for the properties only
    calls,          \* calls of bootstrap_application() so far
    made,           \* the directories created by the current call, or the last if it raised
    built,          \* every handler created so far
    good            \* the last call that returned, and the handlers it was to have

localVars == <<settings, todo, outgoing>>
loggerVars == <<attached, closed, propagates>>
historyVars == <<calls, made, built, good>>
startupVars == <<environ, step, localVars, outcome, disk, loggerVars, historyVars>>

NoSettings == [f \in Fields |-> "none"]

\* A handler of the embedding program, which configure_logging does not own.
Foreign == [kind |-> "foreign", call |-> 0]
IsOwned(h) == h.kind # "foreign"
Owned == {h \in attached : IsOwned(h)}

Directories == {"data_dir", "temp_dir", "log_dir", "config_dir"}

\* A fresh interpreter, on a disk that earlier processes may have used.
Init ==
    /\ environ \in Environments
    /\ step = "idle"
    /\ settings = NoSettings
    /\ todo = <<>>
    /\ outgoing = {}
    /\ outcome = "none"
    /\ disk \in SUBSET {"data_dir", "log_dir"}
    /\ attached = {Foreign}
    /\ closed = {}
    /\ propagates = TRUE
    /\ calls = 0
    /\ made = {}
    /\ built = {}
    /\ good = [call |-> 0, kinds |-> {}]

\* _LoaderSettings: overrides above the environment above the dotenv file.
Effective(overrides, dotenv) ==
    [f \in Fields |-> IF f \in DOMAIN overrides THEN overrides[f]
                      ELSE IF f \in DOMAIN environ THEN environ[f]
                      ELSE IF f \in DOMAIN dotenv THEN dotenv[f]
                      ELSE Defaults[f]]

\* Every source is searched for unknown names, and then the merged values are
\* validated: what a higher source hides is never looked at.
Rejected(overrides, dotenv) ==
    LET merged == Effective(overrides, dotenv) IN
    \/ Unknown \in DOMAIN environ \cup DOMAIN overrides \cup DOMAIN dotenv
    \/ \E f \in Fields : merged[f] = "invalid"
    \/ merged["console_enabled"] = "off" /\ merged["file_enabled"] = "off"

\* The handlers that settings ask for.
Kinds(s) ==
    {k \in {"console", "file"} :
        s[IF k = "console" THEN "console_enabled" ELSE "file_enabled"] = "on"}

\* The directories that settings ask for, and never config_dir.
Required(s) ==
    <<"data_dir", "temp_dir">> \o (IF "file" \in Kinds(s) THEN <<"log_dir">> ELSE <<>>)

\* bootstrap_application() returns or raises.
Leave(result) ==
    /\ step' = "idle"
    /\ settings' = NoSettings
    /\ todo' = <<>>
    /\ outgoing' = {}
    /\ outcome' = result

\* resolve_runtime_paths(): a relative directory leaves base_dir.
Escapes(s) == s["paths"] = "escapes"

\* load_settings(), which only reads.
LoadSettings(overrides, dotenv) ==
    LET merged == Effective(overrides, dotenv) IN
    /\ step = "idle"
    /\ calls' = calls + 1
    /\ made' = {}
    /\ \/ /\ Rejected(overrides, dotenv)
          /\ Leave("InvalidEnvironmentValueError")
       \/ /\ ~Rejected(overrides, dotenv) /\ Escapes(merged)
          /\ Leave("InvalidPathError")
       \/ /\ ~Rejected(overrides, dotenv) /\ ~Escapes(merged)
          /\ step' = "prepare"
          /\ settings' = merged
          /\ todo' = Required(merged)
          /\ outcome' = "none"
          /\ UNCHANGED outgoing
    /\ UNCHANGED <<environ, disk, loggerVars, built, good>>

\* mkdir(parents=True, exist_ok=True) of one directory.
MakeDirectory ==
    /\ step = "prepare" /\ todo # <<>>
    /\ disk' = disk \cup {Head(todo)}
    /\ made' = made \cup ({Head(todo)} \ disk)
    /\ todo' = Tail(todo)
    /\ UNCHANGED <<environ, step, settings, outgoing, outcome, loggerVars, calls, built, good>>

\* Going on without the directory.
DirectoryFails_GoesOn ==
    /\ step = "prepare" /\ todo # <<>>
    /\ Head(todo) \notin disk
    /\ todo' = Tail(todo)
    /\ UNCHANGED <<environ, step, settings, outgoing, outcome, disk, loggerVars, historyVars>>

\* An OSError, which a directory that is there cannot give.
DirectoryFails ==
    /\ step = "prepare" /\ todo # <<>>
    /\ Head(todo) \notin disk
    /\ Leave("InvalidPathError")
    /\ UNCHANGED <<environ, disk, loggerVars, historyVars>>

\* What _create_handlers() returns in the current call.
Replacements == {[kind |-> k, call |-> calls] : k \in Kinds(settings)}

\* _create_handlers() opens nothing (delay=True), so it does not fail.
BuildHandlers ==
    /\ step = "prepare" /\ todo = <<>>
    /\ built' = built \cup Replacements
    /\ outgoing' = Owned
    /\ step' = "swap"
    /\ UNCHANGED <<environ, settings, todo, outcome, disk, loggerVars, calls, made, good>>

\* logger.removeHandler(), for each previous handler.
RemoveHandler ==
    /\ step = "swap"
    /\ \E h \in outgoing \cap attached : attached' = attached \ {h}
    /\ UNCHANGED <<environ, step, localVars, outcome, disk, closed, propagates, historyVars>>

\* Attaching the new handlers while the old ones are there.
AddHandler_First ==
    /\ step = "swap"
    /\ \E h \in Replacements \ attached : attached' = attached \cup {h}
    /\ UNCHANGED <<environ, step, localVars, outcome, disk, closed, propagates, historyVars>>

\* logger.addHandler(), for each replacement, when all the others are gone.
AddHandler ==
    /\ step = "swap" /\ outgoing \cap attached = {}
    /\ \E h \in Replacements \ attached : attached' = attached \cup {h}
    /\ UNCHANGED <<environ, step, localVars, outcome, disk, closed, propagates, historyVars>>

\* The end of configure_logging(), and of the call.
Finish ==
    /\ step = "swap" /\ outgoing \cap attached = {} /\ Replacements \subseteq attached
    /\ propagates' = FALSE
    /\ closed' = closed \cup outgoing
    /\ good' = [call |-> calls, kinds |-> Kinds(settings)]
    /\ made' = {}
    /\ Leave("returned")
    /\ UNCHANGED <<environ, disk, attached, calls, built>>

GoOnStarting ==
    MakeDirectory \/ DirectoryFails \/ BuildHandlers \/ RemoveHandler \/ AddHandler \/ Finish

Next == (\E o \in Overrides, d \in Dotenvs : LoadSettings(o, d)) \/ GoOnStarting

-------------------------------------------------------------------------------

Outcomes == {"none", "returned", "InvalidEnvironmentValueError", "InvalidPathError"}

HandlersOf(g) == {[kind |-> k, call |-> g.call] : k \in g.kinds}

TypeOK ==
    /\ step \in {"idle", "prepare", "swap"}
    /\ DOMAIN settings = Fields
    /\ todo \in Seq(Directories)
    /\ outcome \in Outcomes
    /\ disk \subseteq Directories /\ made \subseteq Directories
    /\ calls \in Nat
    /\ \A h \in attached \cup closed \cup outgoing \cup built :
          h \in [kind : {"console", "file", "foreign"}, call : 0..calls]
    /\ propagates \in BOOLEAN
    /\ good.kinds \subseteq {"console", "file"}

(***************************************************************************)
(* Engineering standards 10.4, configure_logging: handlers are replaced    *)
(* safely.  At no moment does one record reach two handlers of the same    *)
(* kind, or a handler that was closed, or miss a handler that is not the   *)
(* program's own; between calls the program's handlers are exactly those   *)
(* of the last call that returned, a call that raised having changed       *)
(* nothing, and every other handler ever created is closed.                *)
(***************************************************************************)
LoggerIsWhole ==
    /\ Foreign \in attached
    /\ \A g, h \in attached : g.kind = h.kind => g = h
    /\ attached \cap closed = {}
    /\ step = "idle" =>
          /\ Owned = HandlersOf(good)
          /\ built \subseteq attached \cup closed

(***************************************************************************)
(* Engineering standards 9.3: settings, then directories, then logging.    *)
(* Refused settings leave the disk alone, a failing directory leaves only  *)
(* the ones before it, nobody creates config_dir, and whatever handler is  *)
(* attached finds its directories.                                         *)
(***************************************************************************)
StartupIsOrdered ==
    /\ outcome = "InvalidEnvironmentValueError" => made = {}
    /\ "temp_dir" \in made => "data_dir" \in disk
    /\ "log_dir" \in made => {"data_dir", "temp_dir"} \subseteq disk
    /\ "config_dir" \notin disk
    /\ Owned # {} => {"data_dir", "temp_dir"} \subseteq disk
    /\ (\E h \in Owned : h.kind = "file") => "log_dir" \in disk
===============================================================================
