----------------------------- MODULE ProcessProofs -----------------------------
(***************************************************************************)
(* Theorems about Process, for any overrides, dotenv files and environment *)
(* and any number of startups before main(), and for every list of URLs    *)
(* and every --max-runs: main() with its startup taken step by step is the *)
(* session of CrawlSession, the logger is never in a state between two     *)
(* configurations when nobody is changing it, and a session runs under the *)
(* configuration of its own environment.                                   *)
(***************************************************************************)
EXTENDS Process, CrawlSessionProofs

\* The actions of Startup that a step of the process may take.
StartupStep ==
    \/ \E o \in Overrides, d \in Dotenvs : Startup!LoadSettings(o, d)
    \/ Startup!GoOnStarting

\* What a step of the process is to the startup, to the session, and to main().
LEMMA StepFacts ==
    ASSUME [ProcessNext]_processVars
    PROVE  /\ StartupStep \/ UNCHANGED startupVars
           /\ [Next]_vars
           /\ inMain => inMain'
  <1> USE DEF vars
  <1>1. CASE EarlierCall
    BY <1>1 DEF EarlierCall, StartupStep
  <1>2. CASE EarlierCallGoesOn
    BY <1>2 DEF EarlierCallGoesOn, StartupStep
  <1>3. CASE EnterMain
    BY <1>3, ProcessAssumption DEF EnterMain, MainStarts, StartupStep, Next, Work
  <1>4. CASE MainGoesOn
    BY <1>4 DEF MainGoesOn, MainStarts, StartupStep, Next, Work
  <1>5. CASE NoWorkingDirectory
    BY <1>5 DEF NoWorkingDirectory, Next, Work
  <1>6. CASE SessionStep
    BY <1>6 DEF SessionStep, Next
  <1>7. CASE CtrlC
    BY <1>7 DEF CtrlC, Next
  <1>8. CASE UNCHANGED processVars
    BY <1>8 DEF processVars
  <1>9. QED
    BY <1>1, <1>2, <1>3, <1>4, <1>5, <1>6, <1>7, <1>8 DEF ProcessNext, ProcessWork

\* The startup may be taken step by step: what CrawlSession says in one step of
\* Bootstrap is true of main() in its process.
THEOREM ProcessRunsTheSession == ProcessSpec => SafetySpec
  <1>1. ProcessInit => Init
    BY DEF ProcessInit
  <1>2. [ProcessNext]_processVars => [Next]_vars
    BY StepFacts
  <1>3. QED
    BY <1>1, <1>2, PTL DEF ProcessSpec, SafetySpec
-------------------------------------------------------------------------------

(***************************************************************************)
(* What the disk has at each point of a call: the directories in front of  *)
(* those still to be created are there, and all of them when the handlers  *)
(* are exchanged.                                                          *)
(***************************************************************************)
Prepared(dirs) == dirs \subseteq disk

WantsFile == "file" \in Startup!Kinds(settings)

PrepareInv ==
    \/ todo = <<"data_dir", "temp_dir", "log_dir">> /\ WantsFile
    \/ todo = <<"temp_dir", "log_dir">> /\ WantsFile /\ Prepared({"data_dir"})
    \/ todo = <<"log_dir">> /\ WantsFile /\ Prepared({"data_dir", "temp_dir"})
    \/ todo = <<"data_dir", "temp_dir">> /\ ~WantsFile
    \/ todo = <<"temp_dir">> /\ ~WantsFile /\ Prepared({"data_dir"})
    \/ todo = <<>> /\ Prepared({"data_dir", "temp_dir"})
                 /\ (WantsFile => Prepared({"log_dir"}))

DiskInv ==
    /\ step \in {"idle", "prepare", "swap"}
    /\ disk \subseteq Startup!Directories \ {"config_dir"}
    /\ step # "idle" => outcome = "none" /\ PrepareInv
    /\ step = "swap" => todo = <<>>
    /\ Startup!StartupIsOrdered

(***************************************************************************)
(* Whose handlers are attached: between calls, and until a call exchanges  *)
(* them, those of the last good call; during the exchange either some of   *)
(* the old ones are left and no new one is there, or only new ones are.    *)
(***************************************************************************)
LoggerInv ==
    /\ calls \in Nat /\ good.call \in 0..calls
    /\ good.kinds \subseteq {"console", "file"}
    /\ step # "idle" => good.call < calls
    /\ Startup!Foreign \in attached
    /\ \A h \in closed : Startup!IsOwned(h) /\ h.call \in 0..calls /\ h.call < good.call
    /\ step \in {"idle", "prepare"} =>
          /\ attached = {Startup!Foreign} \cup Startup!HandlersOf(good)
          /\ built \subseteq attached \cup closed
    /\ step = "swap" =>
          /\ outgoing = Startup!HandlersOf(good)
          /\ built \subseteq outgoing \cup closed \cup {Startup!Foreign} \cup Startup!Replacements
          /\ \/ attached \subseteq {Startup!Foreign} \cup outgoing
             \/ attached \subseteq {Startup!Foreign} \cup Startup!Replacements

\* The cases of StartupStep.
LEMMA StartupCases ==
    ASSUME StartupStep
    PROVE  \/ \E o \in Overrides, d \in Dotenvs : Startup!LoadSettings(o, d)
           \/ Startup!MakeDirectory \/ Startup!DirectoryFails \/ Startup!BuildHandlers
           \/ Startup!RemoveHandler \/ Startup!AddHandler \/ Startup!Finish
  BY DEF StartupStep, Startup!GoOnStarting

\* The handlers of one call differ in kind, and none is foreign.
LEMMA AttachedFacts ==
    ASSUME LoggerInv
    PROVE  /\ \A h \in Startup!HandlersOf(good) :
                  h.call = good.call /\ h.kind \in {"console", "file"} /\ Startup!IsOwned(h)
           /\ \A h \in Startup!Replacements :
                  h.call = calls /\ h.kind \in {"console", "file"} /\ Startup!IsOwned(h)
           /\ \A g, h \in Startup!HandlersOf(good) : g.kind = h.kind => g = h
           /\ \A g, h \in Startup!Replacements : g.kind = h.kind => g = h
           /\ ~Startup!IsOwned(Startup!Foreign) /\ Startup!Foreign.kind = "foreign"
  BY DEF LoggerInv, Startup!HandlersOf, Startup!Replacements, Startup!Kinds,
         Startup!IsOwned, Startup!Foreign

\* At every point of the exchange the logger is whole.
LEMMA LoggerWhole == LoggerInv /\ step \in {"idle", "prepare", "swap"} => Startup!LoggerIsWhole
  <1> SUFFICES ASSUME LoggerInv, step \in {"idle", "prepare", "swap"}
               PROVE  Startup!LoggerIsWhole
    OBVIOUS
  <1> USE AttachedFacts
  <1>1. \/ attached \subseteq {Startup!Foreign} \cup Startup!HandlersOf(good)
        \/ step = "swap" /\ attached \subseteq {Startup!Foreign} \cup Startup!Replacements
    BY DEF LoggerInv
  <1>2. \A g, h \in attached : g.kind = h.kind => g = h
    BY <1>1 DEF LoggerInv, Startup!IsOwned
  <1>3. attached \cap closed = {}
    BY <1>1 DEF LoggerInv
  <1>4. step = "idle" => Startup!Owned = Startup!HandlersOf(good)
    BY DEF LoggerInv, Startup!Owned
  <1>5. QED
    BY <1>2, <1>3, <1>4 DEF LoggerInv, Startup!LoggerIsWhole

LEMMA LoggerStep == LoggerInv /\ (StartupStep \/ UNCHANGED startupVars) => LoggerInv'
  <1> SUFFICES ASSUME LoggerInv, StartupStep \/ UNCHANGED startupVars
               PROVE  LoggerInv'
    OBVIOUS
  <1> USE DEF Startup!localVars, Startup!loggerVars, Startup!historyVars
  <1>1. ASSUME NEW o \in Overrides, NEW d \in Dotenvs, Startup!LoadSettings(o, d)
        PROVE  LoggerInv'
    <2>1. /\ step = "idle" /\ step' \in {"idle", "prepare"} /\ calls' = calls + 1
          /\ UNCHANGED <<attached, closed, built, good>>
      BY <1>1 DEF Startup!LoadSettings, Startup!Leave
    <2>2. QED
      BY <2>1 DEF LoggerInv, Startup!HandlersOf
  <1>2. CASE Startup!MakeDirectory
    BY <1>2 DEF Startup!MakeDirectory, LoggerInv, Startup!HandlersOf
  <1>3. CASE Startup!DirectoryFails
    BY <1>3 DEF Startup!DirectoryFails, Startup!Leave, LoggerInv, Startup!HandlersOf
  <1>4. CASE Startup!BuildHandlers
    <2>1. /\ step = "prepare" /\ step' = "swap" /\ built' = built \cup Startup!Replacements
          /\ outgoing' = Startup!Owned
          /\ UNCHANGED <<settings, attached, closed, calls, good>>
      BY <1>4 DEF Startup!BuildHandlers
    <2>2. Startup!Owned = Startup!HandlersOf(good)
      BY <2>1, AttachedFacts DEF LoggerInv, Startup!Owned
    <2>3. Startup!Replacements' = Startup!Replacements
          /\ Startup!HandlersOf(good)' = Startup!HandlersOf(good)
      BY <2>1 DEF Startup!Replacements, Startup!Kinds, Startup!HandlersOf
    <2>4. QED
      BY <2>1, <2>2, <2>3 DEF LoggerInv
  <1>5. CASE Startup!RemoveHandler
    <2>1. PICK h \in outgoing \cap attached : attached' = attached \ {h}
      BY <1>5 DEF Startup!RemoveHandler
    <2>2. /\ step = "swap" /\ step' = "swap"
          /\ UNCHANGED <<settings, outgoing, closed, built, calls, good>>
      BY <1>5 DEF Startup!RemoveHandler
    <2>3. Startup!Replacements' = Startup!Replacements
          /\ Startup!HandlersOf(good)' = Startup!HandlersOf(good)
      BY <2>2 DEF Startup!Replacements, Startup!Kinds, Startup!HandlersOf
    <2>4. h # Startup!Foreign
      BY <2>1, <2>2, AttachedFacts DEF LoggerInv
    <2>5. QED
      BY <2>1, <2>2, <2>3, <2>4 DEF LoggerInv
  <1>6. CASE Startup!AddHandler
    <2>1. PICK h \in Startup!Replacements : attached' = attached \cup {h}
      BY <1>6 DEF Startup!AddHandler
    <2>2. /\ step = "swap" /\ step' = "swap" /\ outgoing \cap attached = {}
          /\ UNCHANGED <<settings, outgoing, closed, built, calls, good>>
      BY <1>6 DEF Startup!AddHandler
    <2>3. Startup!Replacements' = Startup!Replacements
          /\ Startup!HandlersOf(good)' = Startup!HandlersOf(good)
      BY <2>2 DEF Startup!Replacements, Startup!Kinds, Startup!HandlersOf
    <2>4. QED
      BY <2>1, <2>2, <2>3 DEF LoggerInv
  <1>7. CASE Startup!Finish
    <2>1. /\ step = "swap" /\ step' = "idle" /\ outgoing \cap attached = {}
          /\ Startup!Replacements \subseteq attached
          /\ closed' = closed \cup outgoing
          /\ good' = [call |-> calls, kinds |-> Startup!Kinds(settings)]
          /\ UNCHANGED <<attached, built, calls>>
      BY <1>7 DEF Startup!Finish, Startup!Leave
    <2>2. Startup!HandlersOf(good)' = Startup!Replacements
      BY <2>1 DEF Startup!Replacements, Startup!HandlersOf
    <2>3. attached = {Startup!Foreign} \cup Startup!Replacements
      BY <2>1 DEF LoggerInv
    <2>4. \A h \in closed' : Startup!IsOwned(h) /\ h.call \in 0..calls' /\ h.call < good'.call
      BY <2>1, AttachedFacts DEF LoggerInv
    <2>5. built' \subseteq attached' \cup closed'
      BY <2>1, <2>3 DEF LoggerInv
    <2>6. good'.kinds \subseteq {"console", "file"} /\ good'.call = calls
      BY <2>1 DEF Startup!Kinds
    <2>7. QED
      BY <2>1, <2>2, <2>3, <2>4, <2>5, <2>6 DEF LoggerInv
  <1>8. CASE UNCHANGED startupVars
    BY <1>8 DEF startupVars, LoggerInv, Startup!HandlersOf, Startup!Replacements, Startup!Kinds
  <1>9. QED
    BY <1>1, <1>2, <1>3, <1>4, <1>5, <1>6, <1>7, <1>8, StartupCases

\* A call that reads its settings, makes a directory or fails to make one.
LEMMA PreparationStep ==
    ASSUME DiskInv,
           \/ \E o \in Overrides, d \in Dotenvs : Startup!LoadSettings(o, d)
           \/ Startup!MakeDirectory \/ Startup!DirectoryFails
    PROVE  DiskInv'
  <1> USE DEF Startup!localVars, Startup!loggerVars, Startup!historyVars
  <1>1. ASSUME NEW o \in Overrides, NEW d \in Dotenvs, Startup!LoadSettings(o, d)
        PROVE  DiskInv'
    <2>1. made' = {} /\ UNCHANGED <<disk, attached>>
      BY <1>1 DEF Startup!LoadSettings
    <2>2. Startup!StartupIsOrdered'
      BY <2>1 DEF DiskInv, Startup!StartupIsOrdered, Startup!Owned
    <2>3. CASE step' = "idle"
      BY <2>1, <2>2, <2>3 DEF DiskInv
    <2>4. CASE /\ step' = "prepare" /\ outcome' = "none"
               /\ settings' = Startup!Effective(o, d)
               /\ todo' = Startup!Required(Startup!Effective(o, d))
      <3>1. todo' = (IF WantsFile' THEN <<"data_dir", "temp_dir", "log_dir">>
                                   ELSE <<"data_dir", "temp_dir">>)
        BY <2>4 DEF Startup!Required, Startup!Kinds, WantsFile
      <3>2. PrepareInv'
        BY <3>1 DEF PrepareInv
      <3>3. QED
        BY <2>1, <2>2, <2>4, <3>2 DEF DiskInv
    <2>5. QED
      BY <1>1, <2>3, <2>4 DEF Startup!LoadSettings, Startup!Leave
  <1>2. CASE Startup!MakeDirectory
    <2>1. /\ step = "prepare" /\ step' = "prepare" /\ outcome' = "none" /\ todo # <<>>
          /\ disk' = disk \cup {Head(todo)}
          /\ made' = made \cup ({Head(todo)} \ disk)
          /\ todo' = Tail(todo)
          /\ UNCHANGED <<settings, attached>>
      BY <1>2 DEF Startup!MakeDirectory, DiskInv
    <2>2. WantsFile' = WantsFile
      BY <2>1 DEF WantsFile, Startup!Kinds
    <2>3. PrepareInv
      BY <2>1 DEF DiskInv
    <2> DEFINE WayAhead(dirs, rest) == todo = dirs /\ Head(todo) = dirs[1] /\ todo' = rest
    <2>4. \/ WayAhead(<<"data_dir", "temp_dir", "log_dir">>, <<"temp_dir", "log_dir">>)
          \/ WayAhead(<<"temp_dir", "log_dir">>, <<"log_dir">>)
          \/ WayAhead(<<"log_dir">>, <<>>)
          \/ WayAhead(<<"data_dir", "temp_dir">>, <<"temp_dir">>)
          \/ WayAhead(<<"temp_dir">>, <<>>)
      <3>1. todo \in {<<"data_dir", "temp_dir", "log_dir">>, <<"temp_dir", "log_dir">>,
                      <<"log_dir">>, <<"data_dir", "temp_dir">>, <<"temp_dir">>}
        BY <2>1, <2>3 DEF PrepareInv
      <3>2. CASE todo = <<"data_dir", "temp_dir", "log_dir">>
        BY <2>1, <3>2
      <3>3. CASE todo = <<"temp_dir", "log_dir">>
        BY <2>1, <3>3
      <3>4. CASE todo = <<"log_dir">>
        BY <2>1, <3>4
      <3>5. CASE todo = <<"data_dir", "temp_dir">>
        BY <2>1, <3>5
      <3>6. CASE todo = <<"temp_dir">>
        BY <2>1, <3>6
      <3>7. QED
        BY <3>1, <3>2, <3>3, <3>4, <3>5, <3>6
    <2>5. /\ Head(todo) \in {"data_dir", "temp_dir", "log_dir"}
          /\ Head(todo) = "temp_dir" => "data_dir" \in disk
          /\ Head(todo) = "log_dir" => {"data_dir", "temp_dir"} \subseteq disk
      BY <2>3, <2>4 DEF PrepareInv, Prepared
    <2>6. PrepareInv'
      BY <2>1, <2>2, <2>3, <2>4 DEF PrepareInv, Prepared
    <2>7. Startup!StartupIsOrdered'
      BY <2>1, <2>5 DEF DiskInv, Startup!StartupIsOrdered, Startup!Owned
    <2>8. QED
      BY <2>1, <2>5, <2>6, <2>7 DEF DiskInv, Startup!Directories
  <1>3. CASE Startup!DirectoryFails
    <2>1. step' = "idle" /\ outcome' = "InvalidPathError" /\ UNCHANGED <<disk, made, attached>>
      BY <1>3 DEF Startup!DirectoryFails, Startup!Leave
    <2>2. Startup!StartupIsOrdered'
      BY <2>1 DEF DiskInv, Startup!StartupIsOrdered, Startup!Owned
    <2>3. QED
      BY <2>1, <2>2 DEF DiskInv
  <1>4. QED
    BY <1>1, <1>2, <1>3

\* A call that exchanges the handlers, with every directory in place.
LEMMA ExchangeStep ==
    ASSUME DiskInv,
           \/ Startup!BuildHandlers \/ Startup!RemoveHandler \/ Startup!AddHandler
           \/ Startup!Finish \/ UNCHANGED startupVars
    PROVE  DiskInv'
  <1> USE DEF Startup!localVars, Startup!loggerVars, Startup!historyVars
  <1>1. CASE Startup!BuildHandlers
    <2>1. /\ step = "prepare" /\ step' = "swap" /\ todo = <<>>
          /\ UNCHANGED <<settings, todo, outcome, disk, made, attached>>
      BY <1>1 DEF Startup!BuildHandlers
    <2>2. PrepareInv' /\ Startup!StartupIsOrdered'
      BY <2>1 DEF DiskInv, PrepareInv, Prepared, WantsFile, Startup!Kinds,
                  Startup!StartupIsOrdered, Startup!Owned
    <2>3. QED
      BY <2>1, <2>2 DEF DiskInv
  <1>2. CASE Startup!RemoveHandler
    <2>1. /\ step = "swap" /\ attached' \subseteq attached
          /\ UNCHANGED <<step, settings, todo, outcome, disk, made>>
      BY <1>2 DEF Startup!RemoveHandler
    <2>2. PrepareInv' /\ Startup!StartupIsOrdered'
      BY <2>1 DEF DiskInv, PrepareInv, Prepared, WantsFile, Startup!Kinds,
                  Startup!StartupIsOrdered, Startup!Owned
    <2>3. QED
      BY <2>1, <2>2 DEF DiskInv
  <1>3. CASE Startup!AddHandler
    <2>1. PICK h \in Startup!Replacements : attached' = attached \cup {h}
      BY <1>3 DEF Startup!AddHandler
    <2>2. /\ step = "swap" /\ UNCHANGED <<step, settings, todo, outcome, disk, made>>
      BY <1>3 DEF Startup!AddHandler
    <2>3. PrepareInv' /\ {"data_dir", "temp_dir"} \subseteq disk
      BY <2>2 DEF DiskInv, PrepareInv, Prepared, WantsFile, Startup!Kinds
    <2>4. h.kind = "file" => "log_dir" \in disk
      BY <2>1, <2>2 DEF DiskInv, PrepareInv, Prepared, WantsFile, Startup!Replacements
    <2>5. Startup!StartupIsOrdered'
      BY <2>1, <2>2, <2>3, <2>4 DEF DiskInv, Startup!StartupIsOrdered, Startup!Owned
    <2>6. QED
      BY <2>2, <2>3, <2>5 DEF DiskInv
  <1>4. CASE Startup!Finish
    <2>1. /\ step' = "idle" /\ made' = {} /\ UNCHANGED <<disk, attached>>
      BY <1>4 DEF Startup!Finish, Startup!Leave
    <2>2. Startup!StartupIsOrdered'
      BY <2>1 DEF DiskInv, Startup!StartupIsOrdered, Startup!Owned
    <2>3. QED
      BY <2>1, <2>2 DEF DiskInv
  <1>5. CASE UNCHANGED startupVars
    <2>1. UNCHANGED <<step, settings, todo, outcome, disk, made, attached>>
      BY <1>5 DEF startupVars
    <2>2. PrepareInv' = PrepareInv /\ Startup!StartupIsOrdered'
      BY <2>1 DEF DiskInv, PrepareInv, Prepared, WantsFile, Startup!Kinds,
                  Startup!StartupIsOrdered, Startup!Owned
    <2>3. QED
      BY <2>1, <2>2 DEF DiskInv
  <1>6. QED
    BY <1>1, <1>2, <1>3, <1>4, <1>5

LEMMA StartupInvariant == ProcessSpec => [](DiskInv /\ LoggerInv)
  <1>1. ASSUME ProcessInit
        PROVE  DiskInv /\ LoggerInv
    <2>1. /\ step = "idle" /\ disk \subseteq {"data_dir", "log_dir"} /\ outcome = "none"
          /\ attached = {Startup!Foreign} /\ closed = {} /\ calls = 0 /\ made = {} /\ built = {}
          /\ good = [call |-> 0, kinds |-> {}]
      BY <1>1 DEF ProcessInit, Startup!Init
    <2>2. Startup!HandlersOf(good) = {} /\ Startup!Owned = {}
      BY <2>1 DEF Startup!HandlersOf, Startup!Owned, Startup!IsOwned, Startup!Foreign
    <2>3. LoggerInv
      BY <2>1, <2>2 DEF LoggerInv
    <2>4. Startup!StartupIsOrdered
      BY <2>1, <2>2 DEF Startup!StartupIsOrdered
    <2>5. DiskInv
      BY <2>1, <2>4 DEF DiskInv, Startup!Directories
    <2>6. QED
      BY <2>3, <2>5
  <1>2. DiskInv /\ LoggerInv /\ [ProcessNext]_processVars => (DiskInv /\ LoggerInv)'
    BY StepFacts, StartupCases, LoggerStep, PreparationStep, ExchangeStep
  <1>3. QED
    BY <1>1, <1>2, PTL DEF ProcessSpec

\* However often the application is started, with whatever sources and
\* failures, no record is doubled and no handler of an earlier call stays open.
THEOREM LoggerAlwaysWhole == ProcessSpec => []LoggerIsWhole
  <1>1. DiskInv /\ LoggerInv => LoggerIsWhole
    BY LoggerWhole DEF DiskInv, LoggerIsWhole
  <1>2. QED
    BY <1>1, StartupInvariant, PTL

\* Directories appear in their order and before the handlers that need them.
THEOREM StartupAlwaysOrdered == ProcessSpec => []StartupIsOrdered
  <1>1. DiskInv => StartupIsOrdered
    BY DEF DiskInv, StartupIsOrdered
  <1>2. QED
    BY <1>1, StartupInvariant, PTL

-------------------------------------------------------------------------------

(***************************************************************************)
(* TypeOK of the startup is inductive with DiskInv and LoggerInv, which    *)
(* say what a call may have left in todo and among the handlers.           *)
(***************************************************************************)
LEMMA StartupTypeStep ==
    ASSUME Startup!TypeOK, DiskInv, LoggerInv, StartupStep \/ UNCHANGED startupVars,
           DiskInv', LoggerInv'
    PROVE  Startup!TypeOK'
  <1> USE DEF Startup!localVars, Startup!loggerVars, Startup!historyVars
  <1> DEFINE Handlers(upto) == [kind : {"console", "file", "foreign"}, call : 0..upto]
             All == attached \cup closed \cup outgoing \cup built
             Small == /\ step \in {"idle", "prepare", "swap"} /\ DOMAIN settings = Startup!Fields
                      /\ outcome \in Startup!Outcomes /\ propagates \in BOOLEAN
                      /\ disk \subseteq Startup!Directories /\ made \subseteq Startup!Directories
  <1>1. ASSUME NEW o \in Overrides, NEW d \in Dotenvs, Startup!LoadSettings(o, d)
        PROVE  Startup!TypeOK'
    <2>1. /\ calls' = calls + 1 /\ All' \subseteq All
      BY <1>1 DEF Startup!LoadSettings, Startup!Leave
    <2>2. All' \subseteq Handlers(calls')
      BY <2>1 DEF Startup!TypeOK, LoggerInv
    <2>3. Small'
      BY <1>1 DEF Startup!LoadSettings, Startup!Leave, Startup!TypeOK, Startup!Effective,
                  Startup!NoSettings, Startup!Outcomes
    <2>4. todo' \in Seq(Startup!Directories)
      <3>1. (step' = "idle" /\ todo' = <<>>) \/ step' = "prepare"
        BY <1>1 DEF Startup!LoadSettings, Startup!Leave
      <3>2. \/ todo' = <<>>
            \/ todo' = <<"data_dir", "temp_dir", "log_dir">> \/ todo' = <<"temp_dir", "log_dir">>
            \/ todo' = <<"log_dir">> \/ todo' = <<"data_dir", "temp_dir">>
            \/ todo' = <<"temp_dir">>
        BY <3>1 DEF DiskInv, PrepareInv
      <3>3. ASSUME NEW a \in Startup!Directories, NEW b \in Startup!Directories,
                   NEW c \in Startup!Directories
            PROVE  {<<>>, <<a>>, <<a, b>>, <<a, b, c>>} \subseteq Seq(Startup!Directories)
        OBVIOUS
      <3>4. {"data_dir", "temp_dir", "log_dir"} \subseteq Startup!Directories
        BY DEF Startup!Directories
      <3>5. QED
        BY <3>2, <3>3, <3>4
    <2>5. QED
      BY <2>2, <2>3, <2>4 DEF Startup!TypeOK, LoggerInv
  <1>2. CASE Startup!MakeDirectory
    <2>1. todo \in Seq(Startup!Directories) /\ todo # <<>> /\ todo' = Tail(todo)
      BY <1>2 DEF Startup!MakeDirectory, Startup!TypeOK
    <2>2. todo' \in Seq(Startup!Directories) /\ Head(todo) \in Startup!Directories
      BY <2>1
    <2>3. QED
      BY <1>2, <2>2 DEF Startup!MakeDirectory, Startup!TypeOK
  <1>3. CASE Startup!DirectoryFails
    BY <1>3 DEF Startup!DirectoryFails, Startup!Leave, Startup!TypeOK, Startup!NoSettings,
                Startup!Outcomes
  <1>4. CASE Startup!BuildHandlers
    <2>1. Startup!Replacements \subseteq Handlers(calls)
      BY DEF Startup!Replacements, Startup!Kinds, LoggerInv
    <2>2. QED
      BY <1>4, <2>1 DEF Startup!BuildHandlers, Startup!Owned, Startup!TypeOK
  <1>5. CASE Startup!RemoveHandler
    BY <1>5 DEF Startup!RemoveHandler, Startup!TypeOK
  <1>6. CASE Startup!AddHandler
    <2>1. Startup!Replacements \subseteq Handlers(calls)
      BY DEF Startup!Replacements, Startup!Kinds, LoggerInv
    <2>2. QED
      BY <1>6, <2>1 DEF Startup!AddHandler, Startup!TypeOK
  <1>7. CASE Startup!Finish
    <2>1. calls' = calls /\ All' \subseteq All
      BY <1>7 DEF Startup!Finish, Startup!Leave
    <2>2. All' \subseteq Handlers(calls')
      BY <2>1 DEF Startup!TypeOK
    <2>3. Small'
      BY <1>7 DEF Startup!Finish, Startup!Leave, Startup!TypeOK, Startup!NoSettings,
                  Startup!Outcomes
    <2>4. todo' \in Seq(Startup!Directories)
      BY <1>7 DEF Startup!Finish, Startup!Leave
    <2>5. QED
      BY <2>2, <2>3, <2>4 DEF Startup!TypeOK, LoggerInv
  <1>8. CASE UNCHANGED startupVars
    BY <1>8 DEF startupVars, Startup!TypeOK
  <1>9. QED
    BY <1>1, <1>2, <1>3, <1>4, <1>5, <1>6, <1>7, <1>8, StartupCases

\* A process keeps its types, in the startup and in the session.
THEOREM ProcessTypeCorrect == ProcessSpec => []ProcessTypeOK
  <1> DEFINE Typed == Startup!TypeOK /\ inMain \in BOOLEAN
  <1>1. ASSUME ProcessInit
        PROVE  Typed
    <2>1. Startup!Init /\ inMain = FALSE
      BY <1>1 DEF ProcessInit
    <2>2. /\ step = "idle" /\ settings = Startup!NoSettings /\ todo = <<>> /\ outgoing = {}
          /\ outcome = "none" /\ disk \subseteq {"data_dir", "log_dir"}
          /\ attached = {Startup!Foreign} /\ closed = {} /\ propagates = TRUE /\ calls = 0
          /\ made = {} /\ built = {} /\ good.kinds = {}
      BY <2>1 DEF Startup!Init
    <2>3. Startup!Foreign \in [kind : {"console", "file", "foreign"}, call : 0..0]
      BY DEF Startup!Foreign
    <2>4. DOMAIN settings = Startup!Fields /\ todo \in Seq(Startup!Directories)
      BY <2>2 DEF Startup!NoSettings
    <2>5. Startup!TypeOK
      BY <2>2, <2>3, <2>4 DEF Startup!TypeOK, Startup!Outcomes, Startup!Directories
    <2>6. QED
      BY <2>1, <2>5
  <1>2. ASSUME Typed, DiskInv /\ LoggerInv, (DiskInv /\ LoggerInv)',
               [ProcessNext]_processVars
        PROVE  Typed'
    <2>1. Startup!TypeOK'
      BY <1>2, StepFacts, StartupTypeStep
    <2>2. inMain' \in BOOLEAN
      BY <1>2 DEF ProcessNext, ProcessWork, EarlierCall, EarlierCallGoesOn, EnterMain,
                  MainGoesOn, MainStarts, NoWorkingDirectory, SessionStep, CtrlC, processVars
    <2>3. QED
      BY <2>1, <2>2
  <1>3. Typed /\ TypeOK => ProcessTypeOK
    BY DEF ProcessTypeOK
  <1> HIDE DEF Typed
  <1>4. QED
    BY <1>1, <1>2, <1>3, StartupInvariant, ProcessRunsTheSession, TypeCorrect, PTL
    DEF ProcessSpec

-------------------------------------------------------------------------------

\* What main() finds in settings when it passes nothing.
MainSettings == Startup!Effective(Startup!Nothing, Startup!Nothing)

Configured ==
    /\ step = "idle" /\ outcome = "returned" /\ good.call = calls
    /\ good.kinds = EnvironmentKinds
    /\ Prepared({"data_dir", "temp_dir"})
    /\ ~propagates

(***************************************************************************)
(* How the session hangs on the startup: main() is in its startup exactly  *)
(* while the session is before Bootstrap, with the settings of the         *)
(* environment; from the creation of the runtime on the process stays      *)
(* configured, because nothing starts the application again.               *)
(***************************************************************************)
MainInv ==
    /\ pc # "bootstrap" => inMain
    /\ pc = "bootstrap" /\ inMain => step # "idle" /\ settings = MainSettings
    /\ pc = "bootstrap" => opens = 0
    /\ pc # "stopped" => exit = "none"
    /\ pc \notin {"bootstrap", "stopped"} => Configured
    /\ opens > 0 => Configured
    /\ exit = "startup" =>
          /\ outcome \in {"InvalidEnvironmentValueError", "InvalidPathError"}
          /\ good.call < calls

LEMMA MainSettingsFacts ==
    /\ Startup!Kinds(MainSettings) = EnvironmentKinds
    /\ UNCHANGED environ => MainSettings' = MainSettings /\ EnvironmentKinds' = EnvironmentKinds
  BY DEF MainSettings, EnvironmentKinds, Startup!Kinds, Startup!Effective, Startup!Nothing,
         Startup!Defaults, Startup!Fields

\* After the startup no step of the session says that the startup failed.
LEMMA WorkFacts ==
    ASSUME TypeOK, Work, pc # "bootstrap", exit = "none"
    PROVE  /\ pc # "stopped" /\ pc' # "bootstrap" /\ exit' # "startup"
           /\ pc' # "stopped" => exit' = "none"
  <1> DEFINE Ends == /\ pc' # "bootstrap" /\ exit' # "startup"
                     /\ pc' # "stopped" => exit' = "none"
  <1>1. UrlDone => Ends
    BY UrlDoneFacts
  <1>2. ASSUME NEW code \in Exits \ {"startup"}, Exit(code)
        PROVE  Ends
    BY <1>2 DEF Exit
  <1>3. ASSUME NEW there \in {"crawl", "save"}, GoOn(there)
        PROVE  Ends
    BY <1>3 DEF GoOn
  <1>4. CASE CreateRuntime \/ CreateFails
    BY <1>2, <1>4 DEF CreateRuntime, CreateFails, Exits
  <1>5. ASSUME NEW r \in CrawlResults, Crawl(r)
        PROVE  pc = "crawl" /\ Ends
    <2>1. Handler(r) # "startup"
      BY HandlerFacts
    <2>2. QED
      BY <1>1, <1>2, <1>5, <2>1 DEF Crawl
  <1>6. CASE PrintItem \/ PrintFails
    BY <1>1, <1>2, <1>3, <1>6 DEF PrintItem, PrintFails, Exits
  <1>7. CASE Save \/ SaveFails
    BY <1>1, <1>2, <1>7 DEF Save, SaveFails, Exits
  <1>8. CASE Sleep
    BY <1>2, <1>3, <1>8 DEF Sleep, Exits
  <1>9. pc \in {"create", "crawl", "print", "save", "sleep"}
    BY <1>5 DEF Work, Bootstrap, CreateRuntime, CreateFails, PrintItem, PrintFails, Save,
                SaveFails, Sleep
  <1>10. QED
    BY <1>4, <1>5, <1>6, <1>7, <1>8, <1>9 DEF Work, Bootstrap

\* The call of main() to bootstrap_application() begins.
LEMMA EnterMainStep ==
    ASSUME MainInv, LoggerInv, EnterMain
    PROVE  MainInv'
  <1>1. /\ pc = "bootstrap" /\ exit = "none" /\ opens = 0 /\ inMain' /\ UNCHANGED environ
        /\ Startup!LoadSettings(Startup!Nothing, Startup!Nothing)
        /\ calls' = calls + 1 /\ good' = good
    BY DEF EnterMain, MainStarts, MainInv, Startup!LoadSettings
  <1>2. CASE step' = "idle"
    <2>1. outcome' \in {"InvalidEnvironmentValueError", "InvalidPathError"}
      BY <1>1, <1>2 DEF Startup!LoadSettings, Startup!Leave
    <2>2. Bootstrap /\ exit' = "startup"
      BY <1>2, <2>1 DEF EnterMain, MainStarts, StartupOutcome
    <2>3. pc' = "stopped" /\ opens' = 0
      BY <1>1, <2>2 DEF Bootstrap, GoOn, Exit
    <2>4. good'.call < calls'
      BY <1>1 DEF LoggerInv
    <2>5. QED
      BY <1>1, <2>1, <2>2, <2>3, <2>4 DEF MainInv
  <1>3. CASE step' = "prepare" /\ settings' = MainSettings
    <2>1. UNCHANGED vars
      BY <1>3 DEF EnterMain, MainStarts
    <2>2. pc' = "bootstrap" /\ exit' = "none" /\ opens' = 0
      BY <1>1, <2>1 DEF vars
    <2>3. QED
      BY <1>1, <1>3, <2>2, MainSettingsFacts DEF MainInv
  <1>4. QED
    BY <1>1, <1>2, <1>3 DEF Startup!LoadSettings, Startup!Leave, MainSettings

\* It goes on, fails, or returns to main(), which then creates the runtime.
LEMMA MainGoesOnStep ==
    ASSUME MainInv, DiskInv, LoggerInv, MainGoesOn
    PROVE  MainInv'
  <1> USE DEF Startup!localVars, Startup!loggerVars, Startup!historyVars
  <1>1. /\ pc = "bootstrap" /\ exit = "none" /\ opens = 0 /\ inMain /\ inMain'
        /\ step # "idle" /\ settings = MainSettings /\ good.call < calls
    BY DEF MainGoesOn, MainStarts, MainInv, LoggerInv
  <1>2. UNCHANGED environ
    BY DEF MainGoesOn, Startup!GoOnStarting, Startup!MakeDirectory, Startup!DirectoryFails,
           Startup!BuildHandlers, Startup!RemoveHandler, Startup!AddHandler, Startup!Finish
  <1>3. CASE Startup!DirectoryFails
    <2>1. step' = "idle" /\ outcome' = "InvalidPathError" /\ UNCHANGED <<calls, good>>
      BY <1>3 DEF Startup!DirectoryFails, Startup!Leave
    <2>2. Bootstrap /\ exit' = "startup"
      BY <2>1 DEF MainGoesOn, MainStarts, StartupOutcome
    <2>3. pc' = "stopped" /\ opens' = 0
      BY <1>1, <2>2 DEF Bootstrap, GoOn, Exit
    <2>4. QED
      BY <1>1, <2>1, <2>2, <2>3 DEF MainInv
  <1>4. CASE Startup!Finish
    <2>1. /\ step = "swap" /\ step' = "idle" /\ outcome' = "returned" /\ propagates' = FALSE
          /\ good' = [call |-> calls, kinds |-> Startup!Kinds(MainSettings)]
          /\ UNCHANGED <<disk, calls>>
      BY <1>1, <1>4 DEF Startup!Finish, Startup!Leave
    <2>2. Prepared({"data_dir", "temp_dir"})
      BY <2>1 DEF DiskInv, PrepareInv, Prepared
    <2>3. Configured'
      BY <1>2, <2>1, <2>2, MainSettingsFacts DEF Configured, Prepared
    <2>4. Bootstrap /\ pc' = "create"
      BY <2>1 DEF MainGoesOn, MainStarts, StartupOutcome
    <2>5. exit' = "none" /\ opens' = 0
      BY <1>1, <2>4 DEF Bootstrap, GoOn, Exit
    <2>6. QED
      BY <1>1, <2>3, <2>4, <2>5 DEF MainInv
  <1>5. CASE (step' = step \/ step' = "swap") /\ settings' = settings
    <2>1. UNCHANGED vars
      BY <1>1, <1>5 DEF MainGoesOn, MainStarts
    <2>2. pc' = "bootstrap" /\ exit' = "none" /\ opens' = 0
      BY <1>1, <2>1 DEF vars
    <2>3. QED
      BY <1>1, <1>2, <1>5, <2>2, MainSettingsFacts DEF MainInv
  <1>6. QED
    BY <1>3, <1>4, <1>5 DEF MainGoesOn, Startup!GoOnStarting, Startup!MakeDirectory,
       Startup!BuildHandlers, Startup!RemoveHandler, Startup!AddHandler

LEMMA MainStep ==
    ASSUME MainInv, DiskInv, LoggerInv, TypeOK, [ProcessNext]_processVars
    PROVE  MainInv'
  <1>1. CASE EarlierCall \/ EarlierCallGoesOn
    <2>1. UNCHANGED <<vars, inMain>> /\ ~inMain
      BY <1>1 DEF EarlierCall, EarlierCallGoesOn
    <2>2. pc = "bootstrap" /\ UNCHANGED <<pc, exit, opens, inMain>>
      BY <2>1 DEF vars, MainInv
    <2>3. QED
      BY <2>1, <2>2 DEF MainInv
  <1>2. CASE NoWorkingDirectory
    <2>1. pc = "bootstrap" /\ opens = 0 /\ exit' = "unexpected" /\ inMain' /\ Bootstrap
      BY <1>2 DEF NoWorkingDirectory, Bootstrap, MainInv
    <2>2. pc' = "stopped" /\ opens' = 0
      BY <2>1 DEF Bootstrap, GoOn, Exit, MainInv
    <2>3. QED
      BY <2>1, <2>2 DEF MainInv
  <1>3. ASSUME UNCHANGED startupVars
        PROVE  Configured' = Configured
    BY <1>3 DEF startupVars, Configured, EnvironmentKinds, Prepared
  <1>4. CASE SessionStep
    <2>1. pc # "bootstrap" /\ Work /\ UNCHANGED <<startupVars, inMain>>
      BY <1>4 DEF SessionStep
    <2>2. pc # "stopped"
      BY <2>1 DEF Work, Bootstrap, CreateRuntime, CreateFails, Crawl, PrintItem, PrintFails,
                  Save, SaveFails, Sleep
    <2>3. Configured /\ exit = "none" /\ inMain
      BY <2>1, <2>2 DEF MainInv
    <2>4. pc' # "bootstrap" /\ exit' # "startup" /\ (pc' # "stopped" => exit' = "none")
      BY <2>1, <2>3, WorkFacts
    <2>5. QED
      BY <1>3, <2>1, <2>3, <2>4 DEF MainInv
  <1>5. CASE CtrlC
    <2>1. /\ inMain /\ pc # "stopped" /\ pc' = "stopped" /\ opens' = opens
          /\ exit' # "startup" /\ UNCHANGED <<startupVars, inMain>>
      BY <1>5 DEF CtrlC, Interrupt, Exit
    <2>2. QED
      BY <1>3, <2>1 DEF MainInv
  <1>6. CASE UNCHANGED processVars
    <2>1. UNCHANGED <<pc, exit, opens, inMain, startupVars, settings, step, outcome, good, calls,
                      environ>>
      BY <1>6 DEF processVars, vars, startupVars
    <2>2. QED
      BY <1>3, <2>1, MainSettingsFacts DEF MainInv
  <1>7. QED
    BY <1>1, <1>2, <1>4, <1>5, <1>6, EnterMainStep, MainGoesOnStep DEF ProcessNext, ProcessWork

\* A session runs under the configuration of its own environment, whatever was
\* started earlier in the process, and a failed startup is reported as one.
THEOREM SessionAlwaysConfigured == ProcessSpec => []SessionIsConfigured
  <1>1. ASSUME ProcessInit
        PROVE  MainInv
    BY <1>1 DEF ProcessInit, Init, MainInv
  <1>2. MainInv /\ DiskInv /\ LoggerInv /\ TypeOK /\ [ProcessNext]_processVars => MainInv'
    BY MainStep
  <1>3. ASSUME MainInv, LoggerInv
        PROVE  SessionIsConfigured
    <2>1. CASE Configured
      <3>1. attached = {Startup!Foreign} \cup Startup!HandlersOf(good)
        BY <1>3, <2>1 DEF Configured, LoggerInv
      <3>2. {h.kind : h \in attached} = {"foreign"} \cup good.kinds
        <4>1. ASSUME NEW h \in attached
              PROVE  h.kind \in {"foreign"} \cup good.kinds
          BY <3>1, <4>1 DEF Startup!Foreign, Startup!HandlersOf
        <4>2. Startup!Foreign \in attached /\ Startup!Foreign.kind = "foreign"
          BY <3>1 DEF Startup!Foreign
        <4>3. ASSUME NEW k \in good.kinds
              PROVE  \E h \in attached : h.kind = k
          <5>1. [kind |-> k, call |-> good.call] \in attached
            BY <3>1 DEF Startup!HandlersOf
          <5>2. QED
            BY <5>1
        <4>4. QED
          BY <4>1, <4>2, <4>3
      <3>3. QED
        BY <1>3, <2>1, <3>2 DEF MainInv, Configured, Prepared, SessionIsConfigured
    <2>2. CASE ~Configured
      BY <1>3, <2>2 DEF MainInv, SessionIsConfigured
    <2>3. QED
      BY <2>1, <2>2
  <1>4. QED
    BY <1>1, <1>2, <1>3, StartupInvariant, ProcessRunsTheSession, TypeCorrect, PTL
    DEF ProcessSpec

-------------------------------------------------------------------------------

\* What CrawlSession's theorems say of one step of startup holds of the process.
THEOREM ProcessOwnsItsRuntime == ProcessSpec => []RuntimeIsOwned
  BY ProcessRunsTheSession, RuntimeAlwaysOwned, PTL

\* What was saved is a prefix of what was printed, and misses at most its last.
THEOREM ProcessSavesWhatItPrinted == ProcessSpec => []SavedFollowsPrinted
  BY ProcessRunsTheSession, SavedAlwaysFollowsPrinted, PTL

\* The exit status agrees with what happened, in the startup and after it.
THEOREM ProcessExitTellsWhatHappened == ProcessSpec => []ExitTellsWhatHappened
  BY ProcessRunsTheSession, ExitAlwaysTellsWhatHappened, PTL

\* Status 0 without a Ctrl+C means the passes that were asked for.
THEOREM ProcessPassesComplete == ProcessSpec => []PassesAreComplete
  BY ProcessRunsTheSession, PassesAlwaysComplete, PTL
===============================================================================
