------------------------------ MODULE ResultStore ------------------------------
(***************************************************************************)
(* What a sink with one row per URL promises to the processes that save to *)
(* it: a save takes effect at one instant between its call and its return; *)
(* if it returns, it took effect, and if it raises PersistenceWriteError,  *)
(* it never did.  Nothing else changes a row.  A process that is killed in *)
(* a save may or may not have saved.  SqliteSink implements this module.   *)
(***************************************************************************)
EXTENDS Naturals, Sequences

CONSTANTS
    Processes,
    Urls

VARIABLES
    rows,           \* per URL: the number of the save its row is from, or NoRow
    call,           \* per process: the number of the save it is in, or Idle
    stored,         \* per process: that save has taken effect
    urlOf,          \* the URL of each save, by its number
    acknowledged,   \* the saves that returned
    failed          \* the saves that raised

vars == <<rows, call, stored, urlOf, acknowledged, failed>>

NoRow == 0
Idle == 0

Init ==
    /\ rows = [u \in Urls |-> NoRow]
    /\ call = [p \in Processes |-> Idle]
    /\ stored = [p \in Processes |-> FALSE]
    /\ urlOf = <<>>
    /\ acknowledged = {}
    /\ failed = {}

Begin(p, u) ==
    /\ call[p] = Idle
    /\ urlOf' = Append(urlOf, u)
    /\ call' = [call EXCEPT ![p] = Len(urlOf) + 1]
    /\ UNCHANGED <<rows, stored, acknowledged, failed>>

TakeEffect(p) ==
    /\ call[p] # Idle
    /\ ~stored[p]
    /\ stored' = [stored EXCEPT ![p] = TRUE]
    /\ rows' = [rows EXCEPT ![urlOf[call[p]]] = call[p]]
    /\ UNCHANGED <<call, urlOf, acknowledged, failed>>

Leave(p) ==
    /\ call[p] # Idle
    /\ call' = [call EXCEPT ![p] = Idle]
    /\ stored' = [stored EXCEPT ![p] = FALSE]
    /\ UNCHANGED <<rows, urlOf>>

Return(p) ==
    /\ stored[p]
    /\ Leave(p)
    /\ acknowledged' = acknowledged \cup {call[p]}
    /\ UNCHANGED failed

Raise(p) ==
    /\ ~stored[p]
    /\ Leave(p)
    /\ failed' = failed \cup {call[p]}
    /\ UNCHANGED acknowledged

Vanish(p) ==
    /\ Leave(p)
    /\ UNCHANGED <<acknowledged, failed>>

Next ==
    \E p \in Processes :
        \/ \E u \in Urls : Begin(p, u)
        \/ TakeEffect(p) \/ Return(p) \/ Raise(p) \/ Vanish(p)

Spec == Init /\ [][Next]_vars
===============================================================================
