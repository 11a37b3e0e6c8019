------------------------------ MODULE SqliteSink ------------------------------
(***************************************************************************)
(* SqliteCrawlResultSink (src/aa_crawler/persistence/sqlite_sink.py) used  *)
(* by several processes on one database file.                              *)
(*                                                                         *)
(* save() stamps the item, connects, creates the table in a transaction of *)
(* its own, upserts the row for the item's URL in a second transaction and *)
(* commits it.  SQLite lets one transaction write at a time; a process     *)
(* that cannot get the lock within the busy timeout of the connection gets *)
(* an error.  An error or an interrupt rolls the open transaction back,    *)
(* and so does, after a process was killed, the next one that opens the    *)
(* file.  A save is known by its number, in the order of the stamps; the   *)
(* number stands for the row's payload and updated_at.                     *)
(***************************************************************************)
EXTENDS Naturals, Sequences, FiniteSets

CONSTANTS
    Processes,      \* the processes that save to the database
    Urls,           \* the values of requested_url
    MaxSaves        \* bound: calls of save()

Nobody == 0
Idle == 0
NoRow == 0

ASSUME ProcessAssumption == Nobody \notin Processes

VARIABLES
    table,          \* the table crawl_results exists
    rows,           \* per URL: the save its committed row is from, or NoRow
    lock,           \* the process with an open write transaction, or Nobody
    pc,             \* per process: where its save() stands
    call,           \* per process: the number of the save it is in, or Idle
    \* history, for the properties only
    urlOf,          \* the URL of each save, by its number
    before,         \* per save: the saves over before it was stamped
    acknowledged,   \* the saves that returned
    failed          \* the saves that raised PersistenceWriteError

historyVars == <<urlOf, before, acknowledged, failed>>
vars == <<table, rows, lock, pc, call, historyVars>>

Url(p) == urlOf[call[p]]

Running == {call[p] : p \in Processes}

Init ==
    /\ table = FALSE
    /\ rows = [u \in Urls |-> NoRow]
    /\ lock = Nobody
    /\ pc = [p \in Processes |-> "idle"]
    /\ call = [p \in Processes |-> Idle]
    /\ urlOf = <<>>
    /\ before = <<>>
    /\ acknowledged = {}
    /\ failed = {}

At(p, here, there) == pc[p] = here /\ pc' = [pc EXCEPT ![p] = there]

\* save() serializes the item, finds its URL and takes the time.
Stamp(p, u) ==
    /\ Len(urlOf) < MaxSaves
    /\ At(p, "idle", "stamped")
    /\ urlOf' = Append(urlOf, u)
    /\ before' = Append(before, (1..Len(urlOf)) \ Running)
    /\ call' = [call EXCEPT ![p] = Len(urlOf) + 1]
    /\ UNCHANGED <<table, rows, lock, acknowledged, failed>>

\* connect() and CREATE TABLE IF NOT EXISTS, which writes only the first time.
CreateTable(p) ==
    /\ At(p, "stamped", "ready")
    /\ table \/ lock = Nobody
    /\ table' = TRUE
    /\ UNCHANGED <<rows, lock, call, historyVars>>

\* The upsert in autocommit mode: its row is there before the with statement ends.
Upsert_Autocommit(p) ==
    /\ At(p, "ready", "written")
    /\ table
    /\ lock = Nobody
    /\ lock' = p
    /\ rows' = [rows EXCEPT ![Url(p)] = call[p]]
    /\ UNCHANGED <<table, call, historyVars>>

\* The upsert opens a write transaction; its row is not visible before the commit.
Upsert(p) ==
    /\ At(p, "ready", "written")
    /\ table
    /\ lock = Nobody
    /\ lock' = p
    /\ UNCHANGED <<table, rows, call, historyVars>>

\* ON CONFLICT DO NOTHING: the first row stays.
Commit_KeepsFirst(p) ==
    /\ At(p, "written", "committed")
    /\ lock' = Nobody
    /\ rows' = IF rows[Url(p)] = NoRow THEN [rows EXCEPT ![Url(p)] = call[p]] ELSE rows
    /\ UNCHANGED <<table, call, historyVars>>

\* Taking the time again for the row: a stamp that no save has.
Commit_FreshStamp(p) ==
    /\ At(p, "written", "committed")
    /\ lock' = Nobody
    /\ rows' = [rows EXCEPT ![Url(p)] = Len(urlOf) + 1]
    /\ UNCHANGED <<table, call, historyVars>>

\* The end of the with statement commits.
Commit(p) ==
    /\ At(p, "written", "committed")
    /\ lock' = Nobody
    /\ rows' = [rows EXCEPT ![Url(p)] = call[p]]
    /\ UNCHANGED <<table, call, historyVars>>

\* The save is over: the connection is closed or gone, and with it what it had open.
Leave(p) ==
    /\ pc' = [pc EXCEPT ![p] = "idle"]
    /\ call' = [call EXCEPT ![p] = Idle]
    /\ lock' = IF lock = p THEN Nobody ELSE lock
    /\ UNCHANGED <<table, rows, urlOf, before>>

Return(p) ==
    /\ pc[p] = "committed"
    /\ Leave(p)
    /\ acknowledged' = acknowledged \cup {call[p]}
    /\ UNCHANGED failed

\* Swallowing the error of a commit.
Fail_SwallowsCommitErrors(p) ==
    /\ pc[p] \in {"stamped", "ready", "written"}
    /\ Leave(p)
    /\ IF pc[p] = "written" THEN acknowledged' = acknowledged \cup {call[p]} /\ UNCHANGED failed
                            ELSE failed' = failed \cup {call[p]} /\ UNCHANGED acknowledged

\* sqlite3.Error at any point before the commit is through (the busy timeout is
\* one): the with statement rolls back, and save() raises PersistenceWriteError.
Fail(p) ==
    /\ pc[p] \in {"stamped", "ready", "written"}
    /\ Leave(p)
    /\ failed' = failed \cup {call[p]}
    /\ UNCHANGED acknowledged

\* The process is killed or interrupted in save().
Die(p) ==
    /\ pc[p] # "idle"
    /\ Leave(p)
    /\ UNCHANGED <<acknowledged, failed>>

Next ==
    \E p \in Processes :
        \/ \E u \in Urls : Stamp(p, u)
        \/ CreateTable(p) \/ Upsert(p) \/ Commit(p) \/ Return(p) \/ Fail(p) \/ Die(p)

Spec == Init /\ [][Next]_vars

-------------------------------------------------------------------------------

Saves == 1..Len(urlOf)

TypeOK ==
    /\ table \in BOOLEAN
    /\ rows \in [Urls -> Saves \cup {NoRow}]
    /\ lock \in Processes \cup {Nobody}
    /\ pc \in [Processes -> {"idle", "stamped", "ready", "written", "committed"}]
    /\ call \in [Processes -> Saves \cup {Idle}]
    /\ urlOf \in Seq(Urls)
    /\ before \in Seq(SUBSET Nat) /\ Len(before) = Len(urlOf)
    /\ \A n \in Saves : before[n] \subseteq 1..(n - 1)
    /\ acknowledged \subseteq Saves
    /\ failed \subseteq Saves

(***************************************************************************)
(* ADR-030, real idempotency: once a save has returned, its URL has a row, *)
(* and never one from a save that was over before this one was stamped -   *)
(* so an old crawl's row comes back only if the two saves overlapped.      *)
(***************************************************************************)
SavesReplaceOlderRows ==
    \A n \in acknowledged :
        /\ rows[urlOf[n]] # NoRow
        /\ rows[urlOf[n]] \notin before[n]

(***************************************************************************)
(* A row is from a save of its own URL that returned, was killed after its *)
(* commit, or is about to return - never from one that was reported to     *)
(* have failed.                                                            *)
(***************************************************************************)
RowsAreReal ==
    \A u \in Urls : rows[u] # NoRow =>
        /\ urlOf[rows[u]] = u
        /\ rows[u] \notin failed
        /\ \A p \in Processes : call[p] = rows[u] => pc[p] = "committed"

\* save() is atomic, whatever fails and dies.
Store == INSTANCE ResultStore WITH stored <- [p \in Processes |-> pc[p] = "committed"]

ImplementsStore == Store!Spec
===============================================================================
