--------------------------- MODULE SqliteSinkProofs ---------------------------
(***************************************************************************)
(* Theorems about SqliteSink for every set of processes and URLs and any   *)
(* number of saves, failures and deaths.                                   *)
(***************************************************************************)
EXTENDS SqliteSink, TLAPS

(***************************************************************************)
(* Writing is exclusive and never left behind: the lock is held exactly by *)
(* the process between its upsert and its commit, and by nobody once that  *)
(* process returned, failed or died.                                       *)
(***************************************************************************)
LockIsHeldByItsWriter ==
    \A p \in Processes : lock = p <=> pc[p] = "written"

(***************************************************************************)
(* Why saves are what they seem: a process is in at most one save, two     *)
(* processes are never in the same, a save that still runs has neither     *)
(* returned nor failed, and is over before no other was stamped.           *)
(***************************************************************************)
CallsAreDistinct ==
    /\ \A p \in Processes : pc[p] = "idle" <=> call[p] = Idle
    /\ \A p, q \in Processes : call[p] # Idle /\ call[p] = call[q] => p = q

RunningIsNotOver ==
    \A p \in Processes : call[p] # Idle =>
        /\ call[p] \notin acknowledged \cup failed
        /\ \A n \in Saves : call[p] \notin before[n]

CallInv == TypeOK /\ LockIsHeldByItsWriter /\ CallsAreDistinct /\ RunningIsNotOver

\* What stamping a save does to the history.
LEMMA StampFacts ==
    ASSUME TypeOK, NEW p \in Processes, NEW u \in Urls, Stamp(p, u)
    PROVE  /\ Len(urlOf) \in Nat /\ Len(urlOf') = Len(urlOf) + 1
           /\ Len(before') = Len(before) + 1 /\ Len(before) = Len(urlOf)
           /\ urlOf' \in Seq(Urls) /\ before' \in Seq(SUBSET Nat)
           /\ \A n \in Saves : urlOf'[n] = urlOf[n] /\ before'[n] = before[n]
           /\ urlOf'[Len(urlOf')] = u
           /\ before'[Len(urlOf')] = Saves \ Running
           /\ Saves' = Saves \cup {Len(urlOf')}
           /\ call' = [call EXCEPT ![p] = Len(urlOf')]
           /\ pc[p] = "idle" /\ pc' = [pc EXCEPT ![p] = "stamped"]
  <1>1. /\ urlOf \in Seq(Urls) /\ before \in Seq(SUBSET Nat) /\ Len(before) = Len(urlOf)
        /\ urlOf' = Append(urlOf, u) /\ before' = Append(before, Saves \ Running)
        /\ Saves \ Running \in SUBSET Nat /\ Saves = 1..Len(urlOf)
    BY DEF Stamp, TypeOK, Saves
  <1>2. Len(urlOf) \in Nat /\ Len(urlOf') = Len(urlOf) + 1 /\ Len(before') = Len(before) + 1
    BY <1>1
  <1>3. urlOf' \in Seq(Urls) /\ before' \in Seq(SUBSET Nat)
    BY <1>1
  <1>4. \A n \in Saves : urlOf'[n] = urlOf[n] /\ before'[n] = before[n]
    BY <1>1
  <1>5. urlOf'[Len(urlOf')] = u /\ before'[Len(urlOf')] = Saves \ Running
    BY <1>1, <1>2
  <1>6. Saves' = Saves \cup {Len(urlOf')}
    BY <1>2 DEF Saves
  <1>7. call' = [call EXCEPT ![p] = Len(urlOf')] /\ pc[p] = "idle"
        /\ pc' = [pc EXCEPT ![p] = "stamped"]
    BY <1>2 DEF Stamp, At
  <1>8. QED
    BY <1>1, <1>2, <1>3, <1>4, <1>5, <1>6, <1>7

\* CallInv is preserved by every step.
LEMMA CallStep == CallInv /\ [Next]_vars => CallInv'
  <1> SUFFICES ASSUME CallInv, [Next]_vars
               PROVE  CallInv'
    OBVIOUS
  <1> USE ProcessAssumption DEF Nobody, Idle, NoRow
  <1>1. ASSUME NEW p \in Processes, NEW u \in Urls, Stamp(p, u)
        PROVE  CallInv'
    <2>1. TypeOK
      BY DEF CallInv
    <2>2. Saves' = Saves \cup {Len(urlOf')} /\ Len(urlOf') \notin Saves /\ Len(urlOf') # 0
      BY <1>1, <2>1, StampFacts DEF Saves
    <2>3. UNCHANGED <<table, rows, lock, acknowledged, failed>>
      BY <1>1 DEF Stamp
    <2>4. ASSUME NEW n \in Saves'
          PROVE  before'[n] \subseteq 1..(n - 1)
      <3>1. CASE n \in Saves
        BY <1>1, <2>1, <3>1, StampFacts DEF TypeOK
      <3>2. CASE n = Len(urlOf')
        BY <1>1, <2>1, <3>2, StampFacts DEF Saves
      <3>3. QED
        BY <2>2, <3>1, <3>2
    <2>5. TypeOK'
      <3>1. rows' \in [Urls -> Saves' \cup {NoRow}] /\ acknowledged' \subseteq Saves'
            /\ failed' \subseteq Saves' /\ table' \in BOOLEAN
        BY <2>1, <2>2, <2>3 DEF TypeOK
      <3>2. call' \in [Processes -> Saves' \cup {Idle}]
        BY <1>1, <2>1, <2>2, StampFacts DEF TypeOK
      <3>3. pc' \in [Processes -> {"idle", "stamped", "ready", "written", "committed"}]
            /\ lock' \in Processes \cup {Nobody}
        BY <1>1, <2>1, <2>3, StampFacts DEF TypeOK
      <3>4. urlOf' \in Seq(Urls) /\ before' \in Seq(SUBSET Nat) /\ Len(before') = Len(urlOf')
        BY <1>1, <2>1, StampFacts
      <3>5. QED
        BY <2>4, <3>1, <3>2, <3>3, <3>4 DEF TypeOK
    <2>6. LockIsHeldByItsWriter'
      BY <1>1, <2>1, <2>3, StampFacts DEF CallInv, LockIsHeldByItsWriter, TypeOK
    <2>7. CallsAreDistinct'
      <3>1. Len(urlOf') \notin Saves /\ \A q \in Processes : call[q] \in Saves \cup {Idle}
        BY <2>1, <2>2 DEF TypeOK
      <3>2. \A q \in Processes :
               /\ q # p => call'[q] = call[q] /\ pc'[q] = pc[q]
               /\ q = p => call'[q] = Len(urlOf') /\ pc'[q] = "stamped"
        BY <1>1, <2>1, StampFacts DEF TypeOK
      <3>3. \A q \in Processes : pc'[q] = "idle" <=> call'[q] = Idle
        BY <2>2, <3>2 DEF CallInv, CallsAreDistinct
      <3>4. ASSUME NEW q \in Processes, NEW r \in Processes, call'[q] # Idle, call'[q] = call'[r]
            PROVE  q = r
        BY <2>2, <3>1, <3>2, <3>4 DEF CallInv, CallsAreDistinct
      <3>5. QED
        BY <3>3, <3>4 DEF CallsAreDistinct
    <2>8. ASSUME NEW q \in Processes, call'[q] # Idle
          PROVE  /\ call'[q] \notin acknowledged' \cup failed'
                 /\ \A n \in Saves' : call'[q] \notin before'[n]
      <3>1. CASE q = p
        <4>1. call'[q] = Len(urlOf')
          BY <1>1, <2>1, <3>1, StampFacts DEF TypeOK
        <4>2. \A n \in Saves' : Len(urlOf') \notin before'[n]
          BY <1>1, <2>1, <2>4, StampFacts DEF Saves
        <4>3. QED
          BY <2>1, <2>2, <2>3, <4>1, <4>2 DEF TypeOK
      <3>2. CASE q # p
        <4>1. call'[q] = call[q]
          BY <1>1, <2>1, <3>2, StampFacts DEF TypeOK
        <4>2. call[q] \notin acknowledged \cup failed /\ \A n \in Saves : call[q] \notin before[n]
          BY <2>8, <4>1 DEF CallInv, RunningIsNotOver
        <4>3. call[q] \notin Saves \ Running
          BY DEF Running
        <4>4. QED
          BY <1>1, <2>1, <2>2, <2>3, <4>1, <4>2, <4>3, StampFacts
      <3>3. QED
        BY <3>1, <3>2
    <2>9. RunningIsNotOver'
      BY <2>8 DEF RunningIsNotOver
    <2>10. QED
      BY <2>5, <2>6, <2>7, <2>9 DEF CallInv
  <1>2. ASSUME NEW p \in Processes, CreateTable(p)
        PROVE  CallInv'
    BY <1>2
    DEF CreateTable, At, historyVars, CallInv, TypeOK, Saves, LockIsHeldByItsWriter,
        CallsAreDistinct, RunningIsNotOver
  <1>3. ASSUME NEW p \in Processes, Upsert(p)
        PROVE  CallInv'
    BY <1>3
    DEF Upsert, At, historyVars, CallInv, TypeOK, Saves, LockIsHeldByItsWriter,
        CallsAreDistinct, RunningIsNotOver
  <1>4. ASSUME NEW p \in Processes, Commit(p)
        PROVE  CallInv'
    BY <1>4
    DEF Commit, At, Url, historyVars, CallInv, TypeOK, Saves, LockIsHeldByItsWriter,
        CallsAreDistinct, RunningIsNotOver
  <1>5. ASSUME NEW p \in Processes, pc[p] # "idle", Leave(p),
               acknowledged' \subseteq acknowledged \cup {call[p]},
               failed' \subseteq failed \cup {call[p]}
        PROVE  CallInv'
    <2>1. call[p] \in Saves /\ Saves' = Saves
      BY <1>5 DEF Leave, CallInv, TypeOK, CallsAreDistinct, Saves
    <2>2. TypeOK'
      BY <1>5, <2>1 DEF Leave, CallInv, TypeOK
    <2>3. LockIsHeldByItsWriter'
      BY <1>5 DEF Leave, CallInv, TypeOK, LockIsHeldByItsWriter
    <2>4. CallsAreDistinct'
      BY <1>5 DEF Leave, CallInv, TypeOK, CallsAreDistinct
    <2>5. RunningIsNotOver'
      BY <1>5, <2>1 DEF Leave, CallInv, TypeOK, CallsAreDistinct, RunningIsNotOver
    <2>6. QED
      BY <2>2, <2>3, <2>4, <2>5 DEF CallInv
  <1>6. ASSUME NEW p \in Processes, Return(p) \/ Fail(p) \/ Die(p)
        PROVE  CallInv'
    BY <1>5, <1>6 DEF Return, Fail, Die
  <1>7. CASE UNCHANGED vars
    BY <1>7
    DEF vars, historyVars, CallInv, TypeOK, Saves, LockIsHeldByItsWriter, CallsAreDistinct,
        RunningIsNotOver
  <1>8. QED
    BY <1>1, <1>2, <1>3, <1>4, <1>6, <1>7 DEF Next

\* CallInv holds of every behaviour.
LEMMA CallInvariant == Spec => []CallInv
  <1>1. ASSUME Init
        PROVE  CallInv
    <2>1. Saves = {}
      BY <1>1 DEF Init, Saves
    <2>2. TypeOK
      <3>1. before \in Seq(SUBSET Nat) /\ urlOf \in Seq(Urls) /\ Len(before) = Len(urlOf)
        BY <1>1 DEF Init
      <3>2. rows \in [Urls -> Saves \cup {NoRow}] /\ call \in [Processes -> Saves \cup {Idle}]
        BY <1>1 DEF Init
      <3>3. table \in BOOLEAN
        BY <1>1 DEF Init
      <3>4. QED
        BY <1>1, <2>1, <3>1, <3>2, <3>3 DEF Init, TypeOK
    <2>3. LockIsHeldByItsWriter
      BY <1>1, ProcessAssumption DEF Init, LockIsHeldByItsWriter
    <2>4. CallsAreDistinct
      BY <1>1, Zenon DEF Init, CallsAreDistinct
    <2>5. RunningIsNotOver
      BY <1>1 DEF Init, RunningIsNotOver
    <2>6. QED
      BY <2>2, <2>3, <2>4, <2>5 DEF CallInv
  <1>2. QED
    BY <1>1, CallStep, PTL DEF Spec

\* The sink keeps its types, whatever fails and dies.
THEOREM TypeCorrect == Spec => []TypeOK
  BY CallInvariant, PTL DEF CallInv

\* One process writes at a time, and no end of a save leaves the lock behind.
THEOREM LockAlwaysHeldByItsWriter == Spec => []LockIsHeldByItsWriter
  BY CallInvariant, PTL DEF CallInv

-------------------------------------------------------------------------------

(***************************************************************************)
(* Why a returned save left its mark: what SavesReplaceOlderRows says of a *)
(* save that returned holds from its commit on.                            *)
(***************************************************************************)
Effective == acknowledged \cup {call[p] : p \in {q \in Processes : pc[q] = "committed"}}

EffectsShow ==
    \A n \in Effective : rows[urlOf[n]] # NoRow /\ rows[urlOf[n]] \notin before[n]

RowInv == EffectsShow /\ RowsAreReal

\* A step that commits nothing and leaves the history alone keeps RowInv, if it
\* leaves nobody at a row that is not committed.
LEMMA QuietStep ==
    ASSUME CallInv, RowInv,
           UNCHANGED <<rows, urlOf, before>>,
           Effective' \subseteq Effective,
           \A u \in Urls : rows[u] # NoRow =>
               /\ rows[u] \notin failed'
               /\ \A q \in Processes : call'[q] = rows[u] => pc'[q] = "committed"
    PROVE  RowInv'
  <1>1. EffectsShow'
    BY DEF RowInv, EffectsShow
  <1>2. RowsAreReal'
    BY DEF RowInv, RowsAreReal
  <1>3. QED
    BY <1>1, <1>2 DEF RowInv

\* RowInv is preserved by every step.
LEMMA RowStep == CallInv /\ RowInv /\ [Next]_vars => RowInv'
  <1> SUFFICES ASSUME CallInv, RowInv, [Next]_vars
               PROVE  RowInv'
    OBVIOUS
  <1> USE ProcessAssumption DEF Nobody, Idle, NoRow
  <1>0. TypeOK
    BY DEF CallInv
  <1>1. ASSUME NEW p \in Processes, NEW u \in Urls, Stamp(p, u)
        PROVE  RowInv'
    <2>1. UNCHANGED <<rows, acknowledged, failed>>
      BY <1>1 DEF Stamp
    <2>2. \A q \in Processes :
             /\ q # p => call'[q] = call[q] /\ pc'[q] = pc[q]
             /\ q = p => call'[q] = Len(urlOf') /\ pc'[q] = "stamped"
      BY <1>0, <1>1, StampFacts DEF TypeOK
    <2>3. Effective' = Effective
      BY <1>1, <2>1, <2>2, <1>0, StampFacts DEF Effective
    <2>4. Effective \subseteq Saves
      BY <1>0 DEF Effective, TypeOK, CallInv, CallsAreDistinct
    <2>5. \A n \in Saves : urlOf'[n] = urlOf[n] /\ before'[n] = before[n]
      BY <1>0, <1>1, StampFacts
    <2>6. EffectsShow'
      BY <2>1, <2>3, <2>4, <2>5 DEF RowInv, EffectsShow
    <2>7. ASSUME NEW v \in Urls, rows[v] # NoRow
          PROVE  /\ urlOf'[rows[v]] = v
                 /\ rows[v] \notin failed
                 /\ \A q \in Processes : call'[q] = rows[v] => pc'[q] = "committed"
      <3>1. rows[v] \in Saves /\ Len(urlOf') \notin Saves
        BY <1>0, <1>1, <2>7, StampFacts DEF TypeOK, Saves
      <3>2. QED
        BY <2>2, <2>5, <2>7, <3>1 DEF RowInv, RowsAreReal
    <2>8. RowsAreReal'
      BY <2>1, <2>7 DEF RowsAreReal
    <2>9. QED
      BY <2>6, <2>8 DEF RowInv
  <1>2. ASSUME NEW p \in Processes, CreateTable(p) \/ Upsert(p)
        PROVE  RowInv'
    <2>1. UNCHANGED <<rows, call, historyVars>> /\ pc[p] # "committed"
          /\ pc' = [pc EXCEPT ![p] = pc'[p]] /\ pc'[p] # "committed"
      BY <1>0, <1>2 DEF CreateTable, Upsert, At, TypeOK
    <2>2. Effective' \subseteq Effective
      BY <1>0, <2>1 DEF Effective, historyVars, TypeOK
    <2>3. QED
      BY <1>0, <2>1, <2>2, QuietStep DEF historyVars, RowInv, RowsAreReal, TypeOK
  <1>3. ASSUME NEW p \in Processes, Commit(p)
        PROVE  RowInv'
    <2>1. /\ pc[p] = "written" /\ pc' = [pc EXCEPT ![p] = "committed"]
          /\ rows' = [rows EXCEPT ![urlOf[call[p]]] = call[p]]
          /\ UNCHANGED <<call, urlOf, before, acknowledged, failed>>
      BY <1>3 DEF Commit, At, Url, historyVars
    <2>2. call[p] # Idle /\ call[p] \in Saves /\ urlOf[call[p]] \in Urls
      BY <1>0, <2>1 DEF CallInv, CallsAreDistinct, TypeOK, Saves
    <2>3. Effective' = Effective \cup {call[p]}
      BY <1>0, <2>1 DEF Effective, TypeOK
    <2>4. Effective' \subseteq Saves
      BY <1>0, <2>2, <2>3 DEF Effective, TypeOK, CallInv, CallsAreDistinct
    <2>5. ASSUME NEW n \in Effective'
          PROVE  rows'[urlOf[n]] # NoRow /\ rows'[urlOf[n]] \notin before[n]
      <3>1. n \in Saves /\ urlOf[n] \in Urls
        BY <1>0, <2>4 DEF TypeOK, Saves
      <3>2. call[p] \notin before[n]
        BY <2>2, <3>1 DEF CallInv, RunningIsNotOver
      <3>3. CASE urlOf[n] = urlOf[call[p]]
        BY <1>0, <2>1, <2>2, <3>2, <3>3 DEF TypeOK
      <3>4. CASE urlOf[n] # urlOf[call[p]]
        BY <1>0, <2>1, <2>3, <2>5, <3>1, <3>4 DEF RowInv, EffectsShow, TypeOK
      <3>5. QED
        BY <3>3, <3>4
    <2>6. EffectsShow'
      BY <2>1, <2>5 DEF EffectsShow
    <2>7. ASSUME NEW v \in Urls, rows'[v] # NoRow
          PROVE  /\ urlOf[rows'[v]] = v
                 /\ rows'[v] \notin failed
                 /\ \A q \in Processes : call[q] = rows'[v] => pc'[q] = "committed"
      <3>1. CASE v = urlOf[call[p]]
        <4>1. rows'[v] = call[p]
          BY <1>0, <2>1, <2>2, <3>1 DEF TypeOK
        <4>2. \A q \in Processes : call[q] = call[p] => q = p
          BY <2>2 DEF CallInv, CallsAreDistinct
        <4>3. QED
          BY <1>0, <2>1, <2>2, <3>1, <4>1, <4>2 DEF CallInv, RunningIsNotOver, TypeOK
      <3>2. CASE v # urlOf[call[p]]
        BY <1>0, <2>1, <2>7, <3>2 DEF RowInv, RowsAreReal, TypeOK
      <3>3. QED
        BY <3>1, <3>2
    <2>8. RowsAreReal'
      BY <2>1, <2>7 DEF RowsAreReal
    <2>9. QED
      BY <2>6, <2>8 DEF RowInv
  <1>4. ASSUME NEW p \in Processes, Return(p) \/ Fail(p) \/ Die(p)
        PROVE  RowInv'
    <2>1. /\ UNCHANGED <<rows, urlOf, before>>
          /\ pc' = [pc EXCEPT ![p] = "idle"] /\ call' = [call EXCEPT ![p] = Idle]
          /\ pc[p] # "committed" => acknowledged' = acknowledged
          /\ acknowledged' \subseteq acknowledged \cup {call[p]}
          /\ failed' \subseteq failed \cup {call[p]}
          /\ pc[p] = "committed" => failed' = failed
      BY <1>4 DEF Return, Fail, Die, Leave
    <2>2. Effective' \subseteq Effective
      BY <1>0, <2>1 DEF Effective, TypeOK
    <2>3. ASSUME NEW v \in Urls, rows[v] # NoRow
          PROVE  /\ rows[v] \notin failed'
                 /\ \A q \in Processes : call'[q] = rows[v] => pc'[q] = "committed"
      BY <1>0, <2>1, <2>3 DEF RowInv, RowsAreReal, TypeOK
    <2>4. QED
      BY <2>1, <2>2, <2>3, QuietStep
  <1>5. CASE UNCHANGED vars
    BY <1>5 DEF vars, historyVars, RowInv, EffectsShow, Effective, RowsAreReal
  <1>6. QED
    BY <1>1, <1>2, <1>3, <1>4, <1>5 DEF Next

\* RowInv holds of every behaviour.
LEMMA RowInvariant == Spec => []RowInv
  <1>1. ASSUME Init
        PROVE  RowInv
    BY <1>1 DEF Init, RowInv, EffectsShow, Effective, RowsAreReal, NoRow
  <1>2. QED
    BY <1>1, RowStep, CallInvariant, PTL DEF Spec

\* ADR-030's idempotency for any number of concurrent saves: what returned is
\* there, and nothing that was over before it has come back.
THEOREM SavesAlwaysReplaceOlderRows == Spec => []SavesReplaceOlderRows
  <1>1. RowInv => SavesReplaceOlderRows
    BY DEF RowInv, EffectsShow, Effective, SavesReplaceOlderRows
  <1>2. QED
    BY <1>1, RowInvariant, PTL

\* No row is from a save that raised, or from another URL's.
THEOREM RowsAlwaysReal == Spec => []RowsAreReal
  BY RowInvariant, PTL DEF RowInv

-------------------------------------------------------------------------------

\* save() implements the atomic store: committing is taking effect.
THEOREM ImplementsAtomicStore == Spec => ImplementsStore
  <1> USE DEF Nobody, Idle, NoRow, Store!NoRow, Store!Idle
  <1>1. Init => Store!Init
    BY DEF Init, Store!Init
  <1>2. CallInv /\ [Next]_vars => [Store!Next]_Store!vars
    <2> SUFFICES ASSUME CallInv, [Next]_vars
                 PROVE  Store!Next \/ UNCHANGED Store!vars
      OBVIOUS
    <2> DEFINE stored == [q \in Processes |-> pc[q] = "committed"]
    <2>0. TypeOK
      BY DEF CallInv
    <2>1. ASSUME NEW p \in Processes, NEW u \in Urls, Stamp(p, u)
          PROVE  Store!Next
      <3>1. call[p] = Idle
        BY <2>1 DEF Stamp, At, CallInv, CallsAreDistinct
      <3>2. stored' = stored
        BY <2>0, <2>1 DEF Stamp, At, TypeOK
      <3>3. QED
        BY <2>1, <3>1, <3>2 DEF Stamp, Store!Begin, Store!Next
    <2>2. ASSUME NEW p \in Processes, CreateTable(p) \/ Upsert(p)
          PROVE  UNCHANGED Store!vars
      <3>1. stored' = stored
        BY <2>0, <2>2 DEF CreateTable, Upsert, At, TypeOK
      <3>2. QED
        BY <2>2, <3>1 DEF CreateTable, Upsert, historyVars, Store!vars
    <2>3. ASSUME NEW p \in Processes, Commit(p)
          PROVE  Store!Next
      <3>1. call[p] # Idle /\ ~stored[p]
        BY <2>0, <2>3 DEF Commit, At, CallInv, CallsAreDistinct
      <3>2. stored' = [stored EXCEPT ![p] = TRUE]
        BY <2>0, <2>3 DEF Commit, At, TypeOK
      <3>3. QED
        BY <2>3, <3>1, <3>2 DEF Commit, Url, historyVars, Store!TakeEffect, Store!Next
    <2>4. ASSUME NEW p \in Processes, pc[p] # "idle", Leave(p)
          PROVE  Store!Leave(p)
      <3>1. call[p] # Idle
        BY <2>4 DEF CallInv, CallsAreDistinct
      <3>2. stored' = [stored EXCEPT ![p] = FALSE]
        BY <2>0, <2>4 DEF Leave, TypeOK
      <3>3. QED
        BY <2>4, <3>1, <3>2 DEF Leave, Store!Leave
    <2>5. ASSUME NEW p \in Processes, Return(p)
          PROVE  Store!Next
      BY <2>4, <2>5 DEF Return, Store!Return, Store!Next
    <2>6. ASSUME NEW p \in Processes, Fail(p)
          PROVE  Store!Next
      BY <2>4, <2>6 DEF Fail, Store!Raise, Store!Next
    <2>7. ASSUME NEW p \in Processes, Die(p)
          PROVE  Store!Next
      BY <2>4, <2>7 DEF Die, Store!Vanish, Store!Next
    <2>8. CASE UNCHANGED vars
      BY <2>8 DEF vars, historyVars, Store!vars
    <2>9. QED
      BY <2>1, <2>2, <2>3, <2>5, <2>6, <2>7, <2>8 DEF Next
  <1>3. QED
    BY <1>1, <1>2, CallInvariant, PTL DEF Spec, ImplementsStore, Store!Spec
===============================================================================
