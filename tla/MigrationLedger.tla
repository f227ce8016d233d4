-------------------------- MODULE MigrationLedger --------------------------
(***************************************************************************)
(* What a migration runner promises the application: the version table     *)
(* and the database change together, in one step that applies everything a *)
(* build holds above the newest recorded version, or nothing at all.       *)
(***************************************************************************)
EXTENDS Naturals, Sequences

CONSTANTS Migration, VersionOf, SizeOf, Builds, None

\* The statements of a migration, numbered from 1.
StmtsOf(m) == {<<m, k>> : k \in 1..SizeOf[m]}
Stmts == UNION {StmtsOf(m) : m \in Migration}
Versions == {VersionOf[m] : m \in Migration}

VARIABLES
    rows,   \* version table: version -> the migration recorded under it
    times   \* how often each statement has taken effect in the database

ledgerVars == <<rows, times>>

Init ==
    /\ rows = [v \in Versions |-> None]
    /\ times = [s \in Stmts |-> 0]

\* The migrations of a build that are newer than everything recorded.
Pending(build) ==
    {m \in {build[i] : i \in 1..Len(build)} :
        \A v \in Versions : rows[v] # None => v < VersionOf[m]}

\* A run brings the database up to its build in one indivisible step.
Upgrade(build) ==
    /\ Pending(build) # {}
    /\ rows' = [v \in Versions |->
                   IF \E m \in Pending(build) : VersionOf[m] = v
                   THEN CHOOSE m \in Pending(build) : VersionOf[m] = v
                   ELSE rows[v]]
    /\ times' = [s \in Stmts |->
                   IF s[1] \in Pending(build) THEN times[s] + 1 ELSE times[s]]

Next == \E build \in Builds : Upgrade(build)

Spec == Init /\ [][Next]_ledgerVars
=============================================================================
