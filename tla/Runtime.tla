------------------------------ MODULE Runtime ------------------------------
(***************************************************************************)
(* The embedded migration runner: run_embedded_migrations_with_options in  *)
(* crates/vespertide/src/runtime.rs.  Several application processes start  *)
(* against one database, each with the migrations compiled into its binary *)
(* by vespertide_migration!, and none of them takes a lock: what keeps     *)
(* them apart is the transaction and the primary key of the version table. *)
(*                                                                         *)
(* The database is external.  A transactional backend (PostgreSQL, SQLite) *)
(* keeps a transaction's statements private until commit and drops them on *)
(* rollback.  On MySQL a DDL statement commits the open transaction and    *)
(* every later statement commits by itself.                                *)
(***************************************************************************)
EXTENDS Naturals, Sequences, FiniteSets

CONSTANTS
    Runner,      \* application processes
    Migration,   \* migration plans, whatever branch they were written on
    VersionOf,   \* Migration -> version number
    IdOf,        \* Migration -> the UUID stored in the plan, or EmptyId
    SizeOf,      \* Migration -> number of SQL statements in its blob
    Ddl,         \* statements that are DDL (the rest are DML)
    Repeatable,  \* statements the database accepts a second time
    Builds,      \* migration sequences that some binary embeds
    Backend,     \* "postgres", "mysql" or "sqlite"
    I32Max,      \* largest version the i32 column decoder accepts
    MaxStarts,   \* bound: how often processes are started
    MaxFaults,   \* bound: statement errors, lost connections and crashes
    EmptyId, None

\* The statements of a migration: split_sql_blob of the backend's blob.
StmtsOf(m) == {<<m, k>> : k \in 1..SizeOf[m]}
Stmts == UNION {StmtsOf(m) : m \in Migration}
Versions == {VersionOf[m] : m \in Migration}

\* A build embeds each plan with a version of its own, in version order:
\* the loader sorts the files by version.
ASSUME BuildAssumption ==
    /\ VersionOf \in [Migration -> Nat \ {0}]
    /\ SizeOf \in [Migration -> Nat]
    /\ Builds \subseteq Seq(Migration)
    /\ \A b \in Builds : \A i, j \in 1..Len(b) :
          i < j => VersionOf[b[i]] < VersionOf[b[j]]

ASSUME ConstantAssumption ==
    /\ I32Max \in Nat
    /\ MaxStarts \in Nat
    /\ MaxFaults \in Nat
    /\ None \notin Migration
    /\ Backend \in {"postgres", "mysql", "sqlite"}

VARIABLES
    rows,    \* committed version table: version -> recorded migration or None
    times,   \* how often each statement has taken effect, committed
    pc,      \* where each process is in run_embedded_migrations_with_options
    build,   \* the migrations embedded in its binary
    seen,    \* `version`: what SELECT MAX(version) returned
    ids,     \* `version_ids`: what SELECT version, id returned
    at,      \* index of the migration the loop is at
    step,    \* next statement of that migration
    open,    \* the transaction begun by the process is still open
    ran,     \* statements executed in the open transaction
    ins,     \* version rows inserted in the open transaction
    starts, faults

dbVars == <<rows, times>>
runVars == <<pc, build, seen, ids, at, step, open, ran, ins>>
vars == <<rows, times, pc, build, seen, ids, at, step, open, ran, ins,
          starts, faults>>

----------------------------------------------------------------------------
(* The database.                                                           *)

\* Statements S take effect, the rows of migrations M are stored.
Effects(S) == [s \in Stmts |-> IF s \in S THEN times[s] + 1 ELSE times[s]]
Stored(M) ==
    [v \in Versions |-> IF \E m \in M : VersionOf[m] = v
                        THEN CHOOSE m \in M : VersionOf[m] = v
                        ELSE rows[v]]

\* MySQL ends the transaction at the first DDL statement, and from then on
\* every statement of the session commits at once.
CommitsAtOnce(p, s) ==
    Backend = "mysql" /\ (~open[p] \/ s \in Ddl)

Running(p) == pc[p] \notin {"idle", "done", "failed"}

\* Processes whose transaction has read the version table, and so holds a
\* lock on it that ALTER TABLE waits for on PostgreSQL and MySQL.
TableLockHolders ==
    {q \in Runner : open[q] /\ pc[q] \in {"ids", "loop", "exec", "commit"}}

Recorded(m) == rows[VersionOf[m]] = m

\* What SELECT version, id yields: a row whose version does not decode as i32
\* is left out.
VisibleIds == [v \in Versions |-> IF v <= I32Max THEN rows[v] ELSE None]

\* SELECT MAX(version), decoded as i32: no row, or a value the decoder
\* rejects, reads as 0.
MaxRecorded ==
    LET R == {v \in Versions : rows[v] # None}
        Decodes(v) == v <= I32Max /\ \A w \in R : w <= v
    IN  IF \E v \in R : Decodes(v) THEN CHOOSE v \in R : Decodes(v) ELSE 0

----------------------------------------------------------------------------
(* The runner, one action per await.                                       *)

Init ==
    /\ rows = [v \in Versions |-> None]
    /\ times = [s \in Stmts |-> 0]
    /\ pc = [p \in Runner |-> "idle"]
    /\ build = [p \in Runner |-> <<>>]
    /\ seen = [p \in Runner |-> 0]
    /\ ids = [p \in Runner |-> [v \in Versions |-> None]]
    /\ at = [p \in Runner |-> 1]
    /\ step = [p \in Runner |-> 1]
    /\ open = [p \in Runner |-> FALSE]
    /\ ran = [p \in Runner |-> {}]
    /\ ins = [p \in Runner |-> {}]
    /\ starts = 0
    /\ faults = 0

Goto(p, label) == pc' = [pc EXCEPT ![p] = label]

\* A process starts, or is started again, with some build.
Start(p) ==
    /\ ~Running(p)
    /\ starts < MaxStarts
    /\ starts' = starts + 1
    /\ \E b \in Builds : build' = [build EXCEPT ![p] = b]
    /\ Goto(p, "create")
    /\ UNCHANGED <<rows, times, seen, ids, at, step, open, ran, ins, faults>>

\* CREATE TABLE IF NOT EXISTS, committed on its own.
CreateVersionTable(p) ==
    /\ pc[p] = "create"
    /\ Goto(p, "alter")
    /\ UNCHANGED <<rows, times, build, seen, ids, at, step, open, ran, ins,
                   starts, faults>>

\* ALTER TABLE ADD COLUMN id: its outcome is ignored, but it has to get the
\* table lock first, except on SQLite, where it is refused at once.
AlterVersionTable(p) ==
    /\ pc[p] = "alter"
    /\ Backend = "sqlite" \/ TableLockHolders \subseteq {p}
    /\ Goto(p, "begin")
    /\ UNCHANGED <<rows, times, build, seen, ids, at, step, open, ran, ins,
                   starts, faults>>

\* Timeouts and BEGIN.
Begin(p) ==
    /\ pc[p] = "begin"
    /\ open' = [open EXCEPT ![p] = TRUE]
    /\ Goto(p, "max")
    /\ UNCHANGED <<rows, times, build, seen, ids, at, step, ran, ins,
                   starts, faults>>

\* The first SELECT fixes what a repeatable-read transaction sees.
ReadMax(p) ==
    /\ pc[p] = "max"
    /\ seen' = [seen EXCEPT ![p] = MaxRecorded]
    /\ ids' = [ids EXCEPT ![p] = VisibleIds]
    /\ Goto(p, "ids")
    /\ UNCHANGED <<rows, times, build, at, step, open, ran, ins,
                   starts, faults>>

\* Mutant: the loop index starts at 0 in a 1-based list.
LoopFromZero(p) ==
    /\ pc[p] = "ids"
    /\ at' = [at EXCEPT ![p] = 0]
    /\ Goto(p, "loop")
    /\ UNCHANGED <<rows, times, build, seen, ids, step, open, ran, ins,
                   starts, faults>>

\* A second SELECT: PostgreSQL reads committed rows, so it may see rows that
\* were committed after the first.
ReadIds(p) ==
    /\ pc[p] = "ids"
    /\ ids' = IF Backend = "postgres"
              THEN [ids EXCEPT ![p] = VisibleIds]
              ELSE ids
    /\ at' = [at EXCEPT ![p] = 1]
    /\ step' = [step EXCEPT ![p] = 1]
    /\ Goto(p, "loop")
    /\ UNCHANGED <<rows, times, build, seen, open, ran, ins, starts, faults>>

\* Mutant: an error path that leaks the open transaction.
LeakTransaction(p) ==
    /\ Goto(p, "failed")
    /\ UNCHANGED <<rows, times, build, seen, ids, at, step, open, ran, ins,
                   starts>>

\* The transaction is dropped: the database rolls back what is still in it.
Drop(p) ==
    /\ open' = [open EXCEPT ![p] = FALSE]
    /\ ran' = [ran EXCEPT ![p] = {}]
    /\ ins' = [ins EXCEPT ![p] = {}]
    /\ Goto(p, "failed")
    /\ UNCHANGED <<rows, times, build, seen, ids, at, step, starts>>

\* The migration the loop is at, and the statement at hand.
Current(p) == build[p][at[p]]
CurrentStmt(p) == <<Current(p), step[p]>>

\* Both ids are known and differ.
IdMismatch(p, m) ==
    LET found == ids[p][VersionOf[m]]
    IN  /\ found # None
        /\ IdOf[m] # EmptyId
        /\ IdOf[found] # EmptyId
        /\ IdOf[found] # IdOf[m]

\* Mutant: off by one in the version comparison.
SkipsOneMore(p, m) == seen[p] + 1 >= VersionOf[m]

\* `if version >= migration.version { continue; }`
Skips(p, m) == seen[p] >= VersionOf[m]

\* The head of the loop over the embedded migrations: nothing is left, the
\* migration is already applied, or its statements are next.
LoopEnds(p) ==
    /\ pc[p] = "loop"
    /\ at[p] > Len(build[p])
    /\ Goto(p, "commit")
    /\ UNCHANGED <<rows, times, build, seen, ids, at, step, open, ran, ins,
                   starts, faults>>

SkipMigration(p) ==
    /\ pc[p] = "loop"
    /\ at[p] <= Len(build[p])
    /\ Skips(p, Current(p))
    /\ at' = [at EXCEPT ![p] = @ + 1]
    /\ UNCHANGED <<rows, times, pc, build, seen, ids, step, open, ran, ins,
                   starts, faults>>

EnterMigration(p) ==
    /\ pc[p] = "loop"
    /\ at[p] <= Len(build[p])
    /\ ~Skips(p, Current(p))
    /\ ~IdMismatch(p, Current(p))
    /\ Goto(p, "exec")
    /\ UNCHANGED <<rows, times, build, seen, ids, at, step, open, ran, ins,
                   starts, faults>>

ReportMismatch(p) ==
    /\ pc[p] = "loop"
    /\ at[p] <= Len(build[p])
    /\ ~Skips(p, Current(p))
    /\ IdMismatch(p, Current(p))
    /\ Drop(p)
    /\ UNCHANGED faults

\* One statement of the current migration.  A statement that cannot be
\* repeated waits for a transaction that has executed it, and fails once it
\* has taken effect.
Accepted(p, s) ==
    /\ s \in Repeatable \/ times[s] = 0
    /\ s \in Repeatable \/ \A q \in Runner \ {p} : s \notin ran[q]

\* Mutant: the statement is sent to the pool instead of the transaction.
ExecOnPool(p) ==
    /\ pc[p] = "exec"
    /\ step[p] <= SizeOf[Current(p)]
    /\ Accepted(p, CurrentStmt(p))
    /\ times' = Effects({CurrentStmt(p)})
    /\ step' = [step EXCEPT ![p] = @ + 1]
    /\ UNCHANGED <<rows, pc, build, seen, ids, at, open, ran, ins, starts,
                   faults>>

\* A statement that stays in the transaction.
ExecStmt(p) ==
    /\ pc[p] = "exec"
    /\ step[p] <= SizeOf[Current(p)]
    /\ Accepted(p, CurrentStmt(p))
    /\ ~CommitsAtOnce(p, CurrentStmt(p))
    /\ ran' = [ran EXCEPT ![p] = @ \cup {CurrentStmt(p)}]
    /\ step' = [step EXCEPT ![p] = @ + 1]
    /\ UNCHANGED <<rows, times, pc, build, seen, ids, at, open, ins, starts,
                   faults>>

\* A statement that commits, together with whatever was in the transaction.
ExecAutocommit(p) ==
    /\ pc[p] = "exec"
    /\ step[p] <= SizeOf[Current(p)]
    /\ Accepted(p, CurrentStmt(p))
    /\ CommitsAtOnce(p, CurrentStmt(p))
    /\ times' = Effects(ran[p] \cup {CurrentStmt(p)})
    /\ rows' = Stored(ins[p])
    /\ ran' = [ran EXCEPT ![p] = {}]
    /\ ins' = [ins EXCEPT ![p] = {}]
    /\ open' = [open EXCEPT ![p] = FALSE]
    /\ step' = [step EXCEPT ![p] = @ + 1]
    /\ UNCHANGED <<pc, build, seen, ids, at, starts, faults>>

\* The database refuses a statement whose effect is already there.
RejectStmt(p) ==
    /\ pc[p] = "exec"
    /\ step[p] <= SizeOf[Current(p)]
    /\ CurrentStmt(p) \notin Repeatable
    /\ times[CurrentStmt(p)] > 0
    /\ Drop(p)
    /\ UNCHANGED faults

\* No other transaction holds an uncommitted row with m's primary key.
KeyFree(p, m) ==
    \A q \in Runner \ {p} : \A n \in ins[q] : VersionOf[n] # VersionOf[m]

\* Mutant: the last statement of a migration is left out.
StatementsDoneEarly(p) == step[p] >= SizeOf[Current(p)]

\* Every statement of the current migration has been executed.
StatementsDone(p) == step[p] > SizeOf[Current(p)]

\* INSERT INTO the version table, inside the transaction or, once MySQL has
\* ended it, on its own.
InsertVersion(p) ==
    /\ pc[p] = "exec"
    /\ StatementsDone(p)
    /\ open[p]
    /\ KeyFree(p, Current(p))
    /\ rows[VersionOf[Current(p)]] = None
    /\ ins' = [ins EXCEPT ![p] = @ \cup {Current(p)}]
    /\ at' = [at EXCEPT ![p] = @ + 1]
    /\ step' = [step EXCEPT ![p] = 1]
    /\ Goto(p, "loop")
    /\ UNCHANGED <<rows, times, build, seen, ids, open, ran, starts, faults>>

\* Mutant: the version table has no primary key.
InsertOverRow(p) ==
    /\ pc[p] = "exec" /\ StatementsDone(p) /\ ~open[p]
    /\ rows' = Stored({Current(p)})
    /\ at' = [at EXCEPT ![p] = @ + 1]
    /\ step' = [step EXCEPT ![p] = 1]
    /\ Goto(p, "loop")
    /\ UNCHANGED <<times, build, seen, ids, open, ran, ins, starts, faults>>

InsertAutocommit(p) ==
    /\ pc[p] = "exec"
    /\ StatementsDone(p)
    /\ ~open[p]
    /\ KeyFree(p, Current(p))
    /\ rows[VersionOf[Current(p)]] = None
    /\ rows' = Stored({Current(p)})
    /\ at' = [at EXCEPT ![p] = @ + 1]
    /\ step' = [step EXCEPT ![p] = 1]
    /\ Goto(p, "loop")
    /\ UNCHANGED <<times, build, seen, ids, open, ran, ins, starts, faults>>

\* PRIMARY KEY violation: the version was recorded by somebody else.
RejectVersion(p) ==
    /\ pc[p] = "exec"
    /\ StatementsDone(p)
    /\ rows[VersionOf[Current(p)]] # None
    /\ Drop(p)
    /\ UNCHANGED faults

\* The effects of COMMIT in the database.
DbCommit(p) ==
    /\ times' = Effects(ran[p])
    /\ rows' = Stored(ins[p])
    /\ ran' = [ran EXCEPT ![p] = {}]
    /\ ins' = [ins EXCEPT ![p] = {}]
    /\ open' = [open EXCEPT ![p] = FALSE]

Commit(p) ==
    /\ pc[p] = "commit"
    /\ DbCommit(p)
    /\ Goto(p, "done")
    /\ UNCHANGED <<build, seen, ids, at, step, starts, faults>>

\* The database commits and the answer is lost: the caller sees an error.
CommitUnacknowledged(p) ==
    /\ pc[p] = "commit"
    /\ faults < MaxFaults
    /\ faults' = faults + 1
    /\ DbCommit(p)
    /\ Goto(p, "failed")
    /\ UNCHANGED <<build, seen, ids, at, step, starts>>

\* An error returned by any statement (`?`), a lost connection or a crash.
Fail(p) ==
    /\ Running(p)
    /\ faults < MaxFaults
    /\ faults' = faults + 1
    /\ Drop(p)

\* The steps a live process takes by itself.
RunnerStep(p) ==
    \/ CreateVersionTable(p) \/ AlterVersionTable(p) \/ Begin(p)
    \/ ReadMax(p) \/ ReadIds(p)
    \/ LoopEnds(p) \/ SkipMigration(p) \/ EnterMigration(p)
    \/ ReportMismatch(p)
    \/ ExecStmt(p) \/ ExecAutocommit(p) \/ RejectStmt(p)
    \/ InsertVersion(p) \/ InsertAutocommit(p) \/ RejectVersion(p)
    \/ Commit(p)

Next ==
    \E p \in Runner :
        RunnerStep(p) \/ Start(p) \/ CommitUnacknowledged(p) \/ Fail(p)

Spec == Init /\ [][Next]_vars

\* A process that is alive keeps executing its async function.
FairSpec == Spec /\ \A p \in Runner : WF_vars(RunnerStep(p))

----------------------------------------------------------------------------
(* Properties.                                                             *)

TypeOK ==
    /\ rows \in [Versions -> Migration \cup {None}]
    /\ times \in [Stmts -> Nat]
    /\ pc \in [Runner -> {"idle", "create", "alter", "begin", "max", "ids",
                          "loop", "exec", "commit", "done", "failed"}]
    /\ build \in [Runner -> Builds \cup {<<>>}]
    /\ seen \in [Runner -> Nat]
    /\ ids \in [Runner -> [Versions -> Migration \cup {None}]]
    /\ at \in [Runner -> Nat \ {0}]
    /\ step \in [Runner -> Nat \ {0}]
    /\ open \in [Runner -> BOOLEAN]
    /\ ran \in [Runner -> SUBSET Stmts]
    /\ ins \in [Runner -> SUBSET Migration]
    /\ starts \in 0..MaxStarts
    /\ faults \in 0..MaxFaults

\* On a transactional backend a recorded migration has taken effect exactly
\* once and an unrecorded one not at all, whichever processes race, fail or
\* lose the answer to their COMMIT.
ExactlyOnce ==
    Backend # "mysql" =>
      \A m \in Migration : \A s \in StmtsOf(m) :
         times[s] = IF Recorded(m) THEN 1 ELSE 0

\* Why ExactlyOnce holds.  While a migration is executed it is one of the
\* build's.
LoopInBounds == \A p \in Runner : pc[p] = "exec" => at[p] <= Len(build[p])

\* A process has something uncommitted only inside its transaction.
TxnStates == {"max", "ids", "loop", "exec", "commit"}
OpenTxn ==
    \A p \in Runner :
        /\ open[p] <=> pc[p] \in TxnStates
        /\ pc[p] \notin {"loop", "exec", "commit"} =>
              ran[p] = {} /\ ins[p] = {}
        /\ pc[p] = "loop" => step[p] = 1
        /\ pc[p] = "exec" => step[p] <= SizeOf[Current(p)] + 1

\* An open transaction holds all the statements of the migrations it has
\* recorded, and of the current one those before step.
RanMatchesIns ==
    \A p \in Runner : \A m \in Migration : \A k \in 1..SizeOf[m] :
        <<m, k>> \in ran[p] <=>
            \/ m \in ins[p]
            \/ pc[p] = "exec" /\ m = Current(p) /\ k < step[p]

\* Uncommitted version rows come from the part of the build already passed,
\* and their keys clash with nothing.
InsBehind ==
    \A p \in Runner : \A m \in ins[p] :
        \E i \in 1..Len(build[p]) : i < at[p] /\ build[p][i] = m
KeysApart ==
    \A p \in Runner : \A m \in ins[p] :
        /\ rows[VersionOf[m]] = None
        /\ \A q \in Runner : \A n \in ins[q] :
              VersionOf[n] = VersionOf[m] => q = p /\ n = m

\* Inductive on a transactional backend.
TxnInv ==
    Backend # "mysql" =>
      OpenTxn /\ RanMatchesIns /\ InsBehind /\ KeysApart /\ ExactlyOnce

\* On every backend, MySQL's implicit commits included, no version row is
\* visible before all the statements of its migration have taken effect.
RecordedIsApplied ==
    \A m \in Migration : Recorded(m) => \A s \in StmtsOf(m) : times[s] >= 1

\* Ok(()) means that every migration of the build is in the database.
DoneIsUpToDate ==
    \A p \in Runner : pc[p] = "done" =>
        \A i \in 1..Len(build[p]) : Recorded(build[p][i])

\* Versions are recorded in order: never one without the ones before it.
NoGaps ==
    \A b \in Builds : \A i, j \in 1..Len(b) :
        (i < j /\ Recorded(b[j])) => Recorded(b[i])

\* A run that returns Ok has brought the database up to its build, and no
\* interleaving of runs, crash or lost answer leaves a version recorded
\* without the ones before it.
HistoryIsComplete == DoneIsUpToDate /\ NoGaps

\* A row of the version table is never removed and never changes its id.
RowsAreFinal ==
    [][\A v \in Versions : rows[v] # None => rows'[v] = rows[v]]_vars

\* No two processes wait for each other: every run ends.
RunsEnd == \A p \in Runner : Running(p) ~> ~Running(p)

\* The id of a migration "is used to detect history divergence": a run
\* against a database that recorded another plan under one of its versions
\* does not return Ok.
DivergenceDetected ==
    \A p \in Runner : pc[p] = "done" =>
        \A i \in 1..Len(build[p]) :
            LET m == build[p][i]
                found == rows[VersionOf[m]]
            IN  found # None /\ IdOf[m] # EmptyId /\ IdOf[found] # EmptyId
                  => IdOf[found] = IdOf[m]

\* Every run on a transactional backend looks like one indivisible upgrade.
Ledger == INSTANCE MigrationLedger
ImplementsLedger == Ledger!Spec
=============================================================================
