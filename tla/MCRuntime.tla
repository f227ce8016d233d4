----------------------------- MODULE MCRuntime -----------------------------
(* Small instances of Runtime.  Three plans on one line of history, and    *)
(* two that other branches wrote under versions 1 and 2.                   *)
EXTENDS Runtime

CONSTANTS p1, p2, m1, m2, m3, other1, other2, idA, idB, idC, idD

MCRunner == {p1, p2}

LinearMigration == {m1, m2, m3}
BranchMigration == {m1, m2, other1, other2, m3}

MCVersionOf ==
    [m \in Migration |-> CASE m \in {m1, other1} -> 1 [] m = m3 -> 3 [] OTHER -> 2]
MCIdOf ==
    [m \in Migration |-> CASE m = m1 -> EmptyId [] m = m2 -> idA
                           [] m = m3 -> idC [] OTHER -> idB]
\* The first plans of two branches have ids as well.
BranchIdOf == [MCIdOf EXCEPT ![m1] = idD]
\* m1 has two statements, m3 none (a plan that only changes comments).
MCSizeOf ==
    [m \in Migration |-> CASE m = m1 -> 2 [] m = m3 -> 0 [] OTHER -> 1]
\* The second statement of m1 is a data migration.
MCDdl == {<<m1, 1>>, <<m2, 1>>, <<other1, 1>>, <<other2, 1>>}
MCRepeatable == {<<m1, 2>>}

\* Releases of one application, each with a longer history.
LinearBuilds == {<<m1>>, <<m1, m2>>, <<m1, m2, m3>>}
\* Branches that both wrote a version, and the release after one of them.
EarlyBranchBuilds == {<<other1>>, <<m1, m2>>, <<m1, other2>>, <<m1, other2, m3>>}
BranchBuilds == {<<m1>>, <<m1, m2>>, <<m1, other2>>, <<m1, other2, m3>>}
=============================================================================
