--------------------------- MODULE RuntimeProofs ---------------------------
(***************************************************************************)
(* Proofs about the migration runner, for every set of processes, builds,  *)
(* failures and restarts.                                                  *)
(***************************************************************************)
EXTENDS Runtime, TLAPS

TypeInv == TypeOK /\ LoopInBounds

\* An embedded migration that the loop executes is a known plan, and the
\* statement at hand is one of its statements.
LEMMA CurrentMigration ==
    ASSUME TypeInv, NEW p \in Runner, pc[p] = "exec"
    PROVE  /\ at[p] \in 1..Len(build[p])
           /\ build[p] \in Builds
           /\ Current(p) \in Migration
           /\ SizeOf[Current(p)] \in Nat
           /\ VersionOf[Current(p)] \in Versions
           /\ step[p] <= SizeOf[Current(p)] => CurrentStmt(p) \in Stmts
<1>1. at[p] \in Nat \ {0} /\ at[p] <= Len(build[p])
  BY DEF TypeInv, TypeOK, LoopInBounds
<1>2. build[p] \in Builds
  <2>1. build[p] \in Builds \cup {<<>>}  BY DEF TypeInv, TypeOK
  <2>2. build[p] # <<>>  BY <1>1
  <2> QED  BY <2>1, <2>2
<1>3. build[p] \in Seq(Migration)  BY <1>2, BuildAssumption
<1>4. at[p] \in 1..Len(build[p])  BY <1>1, <1>3
<1>5. Current(p) \in Migration  BY <1>3, <1>4 DEF Current
<1>6. step[p] \in Nat \ {0}  BY DEF TypeInv, TypeOK
<1>7. SizeOf[Current(p)] \in Nat  BY <1>5, BuildAssumption
<1>8. VersionOf[Current(p)] \in Versions  BY <1>5 DEF Versions
<1>9. ASSUME step[p] <= SizeOf[Current(p)]
      PROVE  CurrentStmt(p) \in Stmts
  <2>1. step[p] \in 1..SizeOf[Current(p)]  BY <1>6, <1>7, <1>9
  <2>2. CurrentStmt(p) \in StmtsOf(Current(p))
    BY <2>1 DEF StmtsOf, CurrentStmt
  <2> QED  BY <2>2, <1>5 DEF Stmts
<1> QED  BY <1>2, <1>4, <1>5, <1>7, <1>8, <1>9

\* What the database stores stays a version table and a count of effects.
LEMMA EffectsType ==
    ASSUME times \in [Stmts -> Nat], NEW S
    PROVE  Effects(S) \in [Stmts -> Nat]
  BY DEF Effects

LEMMA StoredType ==
    ASSUME rows \in [Versions -> Migration \cup {None}],
           NEW M \in SUBSET Migration
    PROVE  Stored(M) \in [Versions -> Migration \cup {None}]
<1> SUFFICES ASSUME NEW v \in Versions
             PROVE  Stored(M)[v] \in Migration \cup {None}
  BY DEF Stored
<1>1. CASE \E m \in M : VersionOf[m] = v
  BY <1>1 DEF Stored
<1>2. CASE ~\E m \in M : VersionOf[m] = v
  BY <1>2 DEF Stored
<1> QED  BY <1>1, <1>2

LEMMA VisibleIdsType ==
    ASSUME TypeOK
    PROVE  VisibleIds \in [Versions -> Migration \cup {None}]
  BY DEF TypeOK, VisibleIds

LEMMA MaxRecordedType == MaxRecorded \in Nat
<1> DEFINE R == {v \in Versions : rows[v] # None}
           Decodes(v) == v <= I32Max /\ \A w \in R : w <= v
<1>1. Versions \subseteq Nat  BY BuildAssumption DEF Versions
<1>2. CASE \E v \in R : Decodes(v)  BY <1>1, <1>2 DEF MaxRecorded
<1>3. CASE ~\E v \in R : Decodes(v)  BY <1>3 DEF MaxRecorded
<1> QED  BY <1>2, <1>3

----------------------------------------------------------------------------
(* Type correctness.                                                       *)

LEMMA TypeInvInit == Init => TypeInv
<1> SUFFICES ASSUME Init PROVE TypeInv  OBVIOUS
<1> USE BuildAssumption, ConstantAssumption DEF Init
<1>1. TypeOK  BY DEF TypeOK
<1>2. LoopInBounds  BY DEF LoopInBounds
<1> QED  BY <1>1, <1>2 DEF TypeInv

\* Rolling back keeps every variable in its type.
LEMMA DropType ==
    ASSUME TypeInv, NEW p \in Runner, Drop(p), faults' \in 0..MaxFaults
    PROVE  TypeInv'
<1> USE DEF Drop, Goto
<1>1. TypeOK'  BY DEF TypeInv, TypeOK
<1>2. LoopInBounds'  BY DEF TypeInv, TypeOK, LoopInBounds
<1> QED  BY <1>1, <1>2 DEF TypeInv

\* So does committing what the transaction holds.
LEMMA DbCommitType ==
    ASSUME TypeOK, NEW p \in Runner, DbCommit(p)
    PROVE  /\ rows' \in [Versions -> Migration \cup {None}]
           /\ times' \in [Stmts -> Nat]
           /\ open' \in [Runner -> BOOLEAN]
           /\ ran' \in [Runner -> SUBSET Stmts]
           /\ ins' \in [Runner -> SUBSET Migration]
<1>1. ins[p] \in SUBSET Migration  BY DEF TypeOK
<1>2. rows' \in [Versions -> Migration \cup {None}]
  BY <1>1, StoredType DEF DbCommit, TypeOK
<1>3. times' \in [Stmts -> Nat]
  BY EffectsType DEF DbCommit, TypeOK
<1> QED  BY <1>2, <1>3 DEF DbCommit, TypeOK

LEMMA TypeInvStep == TypeInv /\ [Next]_vars => TypeInv'
<1> SUFFICES ASSUME TypeInv, [Next]_vars PROVE TypeInv'  OBVIOUS
<1> USE ConstantAssumption DEF Goto
<1>0. TypeOK /\ LoopInBounds  BY DEF TypeInv
<1>1. ASSUME NEW p \in Runner, Start(p) PROVE TypeInv'
  <2>1. TypeOK'  BY <1>0, <1>1 DEF Start, TypeOK
  <2>2. LoopInBounds'  BY <1>0, <1>1 DEF Start, TypeOK, LoopInBounds
  <2> QED  BY <2>1, <2>2 DEF TypeInv
<1>2. ASSUME NEW p \in Runner, CreateVersionTable(p) PROVE TypeInv'
  <2>1. TypeOK'  BY <1>0, <1>2 DEF CreateVersionTable, TypeOK
  <2>2. LoopInBounds'
    BY <1>0, <1>2 DEF CreateVersionTable, TypeOK, LoopInBounds
  <2> QED  BY <2>1, <2>2 DEF TypeInv
<1>3. ASSUME NEW p \in Runner, AlterVersionTable(p) PROVE TypeInv'
  <2>1. TypeOK'  BY <1>0, <1>3 DEF AlterVersionTable, TypeOK
  <2>2. LoopInBounds'
    BY <1>0, <1>3 DEF AlterVersionTable, TypeOK, LoopInBounds
  <2> QED  BY <2>1, <2>2 DEF TypeInv
<1>4. ASSUME NEW p \in Runner, Begin(p) PROVE TypeInv'
  <2>1. TypeOK'  BY <1>0, <1>4 DEF Begin, TypeOK
  <2>2. LoopInBounds'  BY <1>0, <1>4 DEF Begin, TypeOK, LoopInBounds
  <2> QED  BY <2>1, <2>2 DEF TypeInv
<1>5. ASSUME NEW p \in Runner, ReadMax(p) PROVE TypeInv'
  <2>1. TypeOK'
    BY <1>0, <1>5, MaxRecordedType, VisibleIdsType DEF ReadMax, TypeOK
  <2>2. LoopInBounds'  BY <1>0, <1>5 DEF ReadMax, TypeOK, LoopInBounds
  <2> QED  BY <2>1, <2>2 DEF TypeInv
<1>6. ASSUME NEW p \in Runner, ReadIds(p) PROVE TypeInv'
  <2>1. TypeOK'
    BY <1>0, <1>6, VisibleIdsType DEF ReadIds, TypeOK
  <2>2. LoopInBounds'  BY <1>0, <1>6 DEF ReadIds, TypeOK, LoopInBounds
  <2> QED  BY <2>1, <2>2 DEF TypeInv
<1>7. ASSUME NEW p \in Runner, LoopEnds(p) PROVE TypeInv'
  <2>1. TypeOK'  BY <1>0, <1>7 DEF LoopEnds, TypeOK
  <2>2. LoopInBounds'  BY <1>0, <1>7 DEF LoopEnds, TypeOK, LoopInBounds
  <2> QED  BY <2>1, <2>2 DEF TypeInv
<1>8. ASSUME NEW p \in Runner, SkipMigration(p) PROVE TypeInv'
  <2>1. TypeOK'  BY <1>0, <1>8 DEF SkipMigration, TypeOK
  <2>2. LoopInBounds'
    BY <1>0, <1>8 DEF SkipMigration, TypeOK, LoopInBounds
  <2> QED  BY <2>1, <2>2 DEF TypeInv
<1>9. ASSUME NEW p \in Runner, EnterMigration(p) PROVE TypeInv'
  <2>1. TypeOK'  BY <1>0, <1>9 DEF EnterMigration, TypeOK
  <2>2. LoopInBounds'
    BY <1>0, <1>9 DEF EnterMigration, TypeOK, LoopInBounds
  <2> QED  BY <2>1, <2>2 DEF TypeInv
<1>10. ASSUME NEW p \in Runner, ExecStmt(p) PROVE TypeInv'
  <2>1. CurrentStmt(p) \in Stmts  BY <1>10, CurrentMigration DEF ExecStmt
  <2>2. ran' \in [Runner -> SUBSET Stmts]
    BY <1>0, <1>10, <2>1 DEF ExecStmt, TypeOK
  <2>3. TypeOK'  BY <1>0, <1>10, <2>2 DEF ExecStmt, TypeOK
  <2>4. LoopInBounds'  BY <1>0, <1>10 DEF ExecStmt, LoopInBounds
  <2> QED  BY <2>3, <2>4 DEF TypeInv
<1>13. ASSUME NEW p \in Runner, ExecAutocommit(p) PROVE TypeInv'
  <2>1. rows' \in [Versions -> Migration \cup {None}]
    BY <1>0, <1>13, StoredType DEF ExecAutocommit, TypeOK
  <2>2. times' \in [Stmts -> Nat]
    BY <1>0, <1>13, EffectsType DEF ExecAutocommit, TypeOK
  <2>3. /\ ran' \in [Runner -> SUBSET Stmts]
        /\ ins' \in [Runner -> SUBSET Migration]
        /\ open' \in [Runner -> BOOLEAN]
        /\ step' \in [Runner -> Nat \ {0}]
    BY <1>0, <1>13 DEF ExecAutocommit, TypeOK
  <2>5. UNCHANGED <<pc, build, seen, ids, at, starts, faults>>
    BY <1>13 DEF ExecAutocommit
  <2>6. TypeOK'  BY <1>0, <2>1, <2>2, <2>3, <2>5 DEF TypeOK
  <2>4. LoopInBounds'  BY <1>0, <1>13 DEF ExecAutocommit, LoopInBounds
  <2> QED  BY <2>4, <2>6 DEF TypeInv
<1>14. ASSUME NEW p \in Runner, InsertVersion(p) PROVE TypeInv'
  <2>1. Current(p) \in Migration
    BY <1>14, CurrentMigration DEF InsertVersion
  <2>2. TypeOK'  BY <1>0, <1>14, <2>1 DEF InsertVersion, TypeOK
  <2>3. LoopInBounds'
    BY <1>0, <1>14 DEF InsertVersion, TypeOK, LoopInBounds
  <2> QED  BY <2>2, <2>3 DEF TypeInv
<1>15. ASSUME NEW p \in Runner, InsertAutocommit(p) PROVE TypeInv'
  <2>1. {Current(p)} \in SUBSET Migration
    BY <1>15, CurrentMigration DEF InsertAutocommit
  <2>2. rows' \in [Versions -> Migration \cup {None}]
    BY <1>0, <1>15, <2>1, StoredType DEF InsertAutocommit, TypeOK
  <2>3. /\ pc' = [pc EXCEPT ![p] = "loop"]
        /\ at' \in [Runner -> Nat \ {0}]
        /\ step' \in [Runner -> Nat \ {0}]
    BY <1>0, <1>15 DEF InsertAutocommit, TypeOK
  <2>5. UNCHANGED <<times, build, seen, ids, open, ran, ins, starts, faults>>
    BY <1>15 DEF InsertAutocommit
  <2>6. TypeOK'  BY <1>0, <2>2, <2>3, <2>5 DEF TypeOK
  <2>4. LoopInBounds'
    BY <1>0, <1>15 DEF InsertAutocommit, TypeOK, LoopInBounds
  <2> QED  BY <2>4, <2>6 DEF TypeInv
<1>16. ASSUME NEW p \in Runner, Commit(p) \/ CommitUnacknowledged(p)
       PROVE TypeInv'
  <2>1. DbCommit(p)  BY <1>16 DEF Commit, CommitUnacknowledged
  <2>2. faults' \in 0..MaxFaults
    BY <1>0, <1>16 DEF Commit, CommitUnacknowledged, TypeOK
  <2>3. pc' = [pc EXCEPT ![p] = "done"] \/ pc' = [pc EXCEPT ![p] = "failed"]
    BY <1>16 DEF Commit, CommitUnacknowledged
  <2>4. UNCHANGED <<build, seen, ids, at, step, starts>>
    BY <1>16 DEF Commit, CommitUnacknowledged
  <2>5. TypeOK'
    BY <1>0, <2>1, <2>2, <2>3, <2>4, DbCommitType DEF TypeOK
  <2>6. LoopInBounds'
    BY <1>0, <2>3, <2>4 DEF TypeOK, LoopInBounds
  <2> QED  BY <2>5, <2>6 DEF TypeInv
<1>11. ASSUME NEW p \in Runner,
              ReportMismatch(p) \/ RejectStmt(p) \/ RejectVersion(p) \/ Fail(p)
       PROVE TypeInv'
  <2>1. Drop(p)
    BY <1>11 DEF ReportMismatch, RejectStmt, RejectVersion, Fail
  <2>2. faults' \in 0..MaxFaults
    BY <1>0, <1>11
    DEF ReportMismatch, RejectStmt, RejectVersion, Fail, TypeOK
  <2> QED  BY <2>1, <2>2, DropType
<1>12. ASSUME UNCHANGED vars PROVE TypeInv'
  <2>1. TypeOK'  BY <1>0, <1>12 DEF vars, TypeOK
  <2>2. LoopInBounds'  BY <1>0, <1>12 DEF vars, LoopInBounds
  <2> QED  BY <2>1, <2>2 DEF TypeInv
<1> QED
  BY <1>1, <1>2, <1>3, <1>4, <1>5, <1>6, <1>7, <1>8, <1>9, <1>10, <1>11,
     <1>12, <1>13, <1>14, <1>15, <1>16 DEF Next, RunnerStep

\* Every variable of the runner keeps its type, for any processes, builds and
\* failures; in particular the loop never executes a statement outside the
\* embedded migrations.
THEOREM TypeCorrect == Spec => []TypeOK
<1>1. TypeInv => TypeOK  BY DEF TypeInv
<1> QED  BY TypeInvInit, TypeInvStep, <1>1, PTL DEF Spec

----------------------------------------------------------------------------
(* Exactly once.                                                           *)

\* A statement belongs to one migration only.
LEMMA StmtsOfMember ==
    ASSUME NEW m \in Migration, NEW s \in StmtsOf(m)
    PROVE  \E k \in 1..SizeOf[m] : s = <<m, k>>
  BY DEF StmtsOf

LEMMA StmtsOfInStmts ==
    ASSUME NEW m \in Migration, NEW k \in 1..SizeOf[m]
    PROVE  <<m, k>> \in StmtsOf(m) /\ <<m, k>> \in Stmts
  BY DEF StmtsOf, Stmts

LEMMA TxnInvInit == Init => TxnInv
<1> SUFFICES ASSUME Init PROVE TxnInv  OBVIOUS
<1> USE DEF Init
<1>1. OpenTxn  BY DEF OpenTxn, TxnStates
<1>2. RanMatchesIns  BY DEF RanMatchesIns
<1>3. InsBehind  BY DEF InsBehind
<1>4. KeysApart  BY DEF KeysApart
<1>5. ExactlyOnce
  <2> SUFFICES ASSUME NEW m \in Migration, NEW s \in StmtsOf(m)
               PROVE  times[s] = IF Recorded(m) THEN 1 ELSE 0
    BY DEF ExactlyOnce
  <2>1. s \in Stmts  BY DEF Stmts
  <2>2. ~Recorded(m)
    BY ConstantAssumption DEF Recorded, Versions
  <2> QED  BY <2>1, <2>2
<1> QED  BY <1>1, <1>2, <1>3, <1>4, <1>5 DEF TxnInv

\* A step that leaves the database and the open transactions alone keeps what
\* relates them.
LEMMA QuietStep ==
    ASSUME KeysApart, ExactlyOnce, UNCHANGED <<rows, times, ran, ins>>
    PROVE  KeysApart' /\ ExactlyOnce'
<1>1. KeysApart'  BY DEF KeysApart
<1>2. ExactlyOnce'  BY DEF ExactlyOnce, Recorded
<1> QED  BY <1>1, <1>2

\* Rolling back keeps the invariant: the transaction's part disappears.
LEMMA DropTxn ==
    ASSUME TypeInv, OpenTxn, RanMatchesIns, InsBehind, KeysApart, ExactlyOnce,
           NEW p \in Runner, Drop(p)
    PROVE  OpenTxn' /\ RanMatchesIns' /\ InsBehind' /\ KeysApart' /\ ExactlyOnce'
<1> USE DEF Drop, Goto
<1>0. TypeOK  BY DEF TypeInv
<1>1. OpenTxn'  BY <1>0 DEF OpenTxn, TxnStates, TypeOK, Current
<1>2. RanMatchesIns'  BY <1>0 DEF RanMatchesIns, TypeOK, Current
<1>3. InsBehind'  BY <1>0 DEF InsBehind, TypeOK
<1>4. KeysApart'  BY <1>0 DEF KeysApart, TypeOK
<1>5. ExactlyOnce'  BY DEF ExactlyOnce, Recorded
<1> QED  BY <1>1, <1>2, <1>3, <1>4, <1>5

\* Committing moves whole migrations into the database, none of which was
\* there before.
LEMMA CommitOnce ==
    ASSUME TypeInv, OpenTxn, RanMatchesIns, KeysApart, ExactlyOnce,
           Backend # "mysql",
           NEW p \in Runner, pc[p] = "commit", DbCommit(p)
    PROVE  ExactlyOnce'
<1>0. TypeOK  BY DEF TypeInv
<1>1. SUFFICES ASSUME NEW m \in Migration, NEW s \in StmtsOf(m)
               PROVE  times'[s] = IF Recorded(m)' THEN 1 ELSE 0
  BY DEF ExactlyOnce, StmtsOf
<1>2. PICK k \in 1..SizeOf[m] : s = <<m, k>>  BY StmtsOfMember
<1>3. s \in Stmts  BY <1>2, StmtsOfInStmts
<1>4. s \in ran[p] <=> m \in ins[p]  BY <1>2 DEF RanMatchesIns
<1>5. times'[s] = IF m \in ins[p] THEN times[s] + 1 ELSE times[s]
  BY <1>3, <1>4 DEF DbCommit, Effects
<1>6. times[s] = IF Recorded(m) THEN 1 ELSE 0  BY DEF ExactlyOnce
<1>7. VersionOf[m] \in Versions  BY DEF Versions
<1>8. rows'[VersionOf[m]] = IF \E n \in ins[p] : VersionOf[n] = VersionOf[m]
                            THEN CHOOSE n \in ins[p] : VersionOf[n] = VersionOf[m]
                            ELSE rows[VersionOf[m]]
  BY <1>7 DEF DbCommit, Stored
<1>9. CASE m \in ins[p]
  <2>1. \A n \in ins[p] : VersionOf[n] = VersionOf[m] => n = m
    BY <1>9 DEF KeysApart
  <2>2. Recorded(m)'  BY <1>8, <1>9, <2>1 DEF Recorded
  <2>3. ~Recorded(m)
    BY <1>9, ConstantAssumption DEF KeysApart, Recorded
  <2> QED  BY <1>5, <1>6, <1>9, <2>2, <2>3
<1>10. CASE m \notin ins[p]
  <2>1. CASE \E n \in ins[p] : VersionOf[n] = VersionOf[m]
    <3>1. PICK n \in ins[p] : VersionOf[n] = VersionOf[m]  BY <2>1
    <3>2. rows[VersionOf[m]] = None  BY <3>1 DEF KeysApart
    <3>3. ~Recorded(m)  BY <3>2, ConstantAssumption DEF Recorded
    <3>4. rows'[VersionOf[m]] \in ins[p]  BY <1>8, <2>1
    <3>5. ~Recorded(m)'  BY <3>4, <1>10 DEF Recorded
    <3> QED  BY <1>5, <1>6, <1>10, <3>3, <3>5
  <2>2. CASE ~\E n \in ins[p] : VersionOf[n] = VersionOf[m]
    <3>1. Recorded(m)' <=> Recorded(m)  BY <1>8, <2>2 DEF Recorded
    <3> QED  BY <1>5, <1>6, <1>10, <3>1
  <2> QED  BY <2>1, <2>2
<1> QED  BY <1>9, <1>10

LEMMA CommitTxn ==
    ASSUME TypeInv, OpenTxn, RanMatchesIns, InsBehind, KeysApart, ExactlyOnce,
           Backend # "mysql",
           NEW p \in Runner, pc[p] = "commit", DbCommit(p),
           NEW l \in {"done", "failed"}, Goto(p, l),
           UNCHANGED <<build, at, step>>
    PROVE  OpenTxn' /\ RanMatchesIns' /\ InsBehind' /\ KeysApart' /\ ExactlyOnce'
<1>0. TypeOK  BY DEF TypeInv
<1> USE DEF DbCommit, Goto
<1>1. OpenTxn'  BY <1>0 DEF OpenTxn, TxnStates, TypeOK, Current
<1>2. RanMatchesIns'  BY <1>0 DEF RanMatchesIns, TypeOK, Current
<1>3. InsBehind'  BY <1>0 DEF InsBehind, TypeOK
<1>4. KeysApart'
  <2> SUFFICES ASSUME NEW q \in Runner, NEW m \in ins'[q]
               PROVE  /\ rows'[VersionOf[m]] = None
                      /\ \A r \in Runner : \A n \in ins'[r] :
                            VersionOf[n] = VersionOf[m] => r = q /\ n = m
    BY DEF KeysApart
  <2>1. q # p /\ m \in ins[q]  BY <1>0 DEF TypeOK
  <2>2. m \in Migration /\ VersionOf[m] \in Versions
    BY <2>1, <1>0 DEF TypeOK, Versions
  <2>3. \A n \in ins[p] : VersionOf[n] # VersionOf[m]
    BY <2>1 DEF KeysApart
  <2>4. rows[VersionOf[m]] = None  BY <2>1 DEF KeysApart
  <2>5. rows'[VersionOf[m]] = None  BY <2>2, <2>3, <2>4 DEF Stored
  <2>6. \A r \in Runner : \A n \in ins'[r] : n \in ins[r]
    BY <1>0 DEF TypeOK
  <2> QED  BY <2>1, <2>5, <2>6 DEF KeysApart
<1>5. ExactlyOnce'  BY CommitOnce
<1> QED  BY <1>1, <1>2, <1>3, <1>4, <1>5

\* A statement executed in the transaction extends the current migration.
LEMMA ExecTxn ==
    ASSUME TypeInv, OpenTxn, RanMatchesIns, InsBehind, KeysApart, ExactlyOnce,
           NEW p \in Runner, ExecStmt(p)
    PROVE  OpenTxn' /\ RanMatchesIns' /\ InsBehind' /\ KeysApart' /\ ExactlyOnce'
<1> USE DEF ExecStmt
<1>0. TypeOK  BY DEF TypeInv
<1>1. /\ Current(p) \in Migration /\ SizeOf[Current(p)] \in Nat
      /\ step[p] \in Nat \ {0}
  BY <1>0, CurrentMigration DEF TypeOK
<1>2. \A q \in Runner : Current(q)' = Current(q)  BY DEF Current
<1>3. OpenTxn'  BY <1>0, <1>1, <1>2 DEF OpenTxn, TxnStates, TypeOK
<1>4. RanMatchesIns'
  <2> SUFFICES ASSUME NEW q \in Runner, NEW m \in Migration,
                      NEW k \in 1..SizeOf[m]
               PROVE  <<m, k>> \in ran'[q] <=>
                        \/ m \in ins'[q]
                        \/ pc'[q] = "exec" /\ m = Current(q)' /\ k < step'[q]
    BY DEF RanMatchesIns
  <2>1. CASE q # p
    <3>1. ran'[q] = ran[q] /\ step'[q] = step[q]  BY <2>1, <1>0 DEF TypeOK
    <3> QED  BY <3>1, <1>2 DEF RanMatchesIns
  <2>2. CASE q = p
    <3>1. <<m, k>> \in ran'[p] <=>
            <<m, k>> \in ran[p] \/ (m = Current(p) /\ k = step[p])
      BY <1>0 DEF TypeOK, CurrentStmt
    <3>2. step'[p] = step[p] + 1  BY <1>0 DEF TypeOK
    <3>3. k < step[p] + 1 <=> k < step[p] \/ k = step[p]
      BY <1>1, BuildAssumption
    <3>4. <<m, k>> \in ran[p] <=>
            m \in ins[p] \/ (m = Current(p) /\ k < step[p])
      BY DEF RanMatchesIns
    <3> QED  BY <2>2, <1>2, <3>1, <3>2, <3>3, <3>4
  <2> QED  BY <2>1, <2>2
<1>5. InsBehind'  BY DEF InsBehind
<1>6. KeysApart'  BY DEF KeysApart
<1>7. ExactlyOnce'  BY DEF ExactlyOnce, Recorded
<1> QED  BY <1>3, <1>4, <1>5, <1>6, <1>7

\* Recording a version completes the current migration in the transaction.
LEMMA InsertTxn ==
    ASSUME TypeInv, OpenTxn, RanMatchesIns, InsBehind, KeysApart, ExactlyOnce,
           NEW p \in Runner, InsertVersion(p)
    PROVE  OpenTxn' /\ RanMatchesIns' /\ InsBehind' /\ KeysApart' /\ ExactlyOnce'
<1> USE DEF InsertVersion, Goto
<1>0. TypeOK  BY DEF TypeInv
<1>1. /\ Current(p) \in Migration /\ SizeOf[Current(p)] \in Nat
      /\ at[p] \in 1..Len(build[p]) /\ build[p] \in Builds
      /\ step[p] \in Nat \ {0}
  BY <1>0, CurrentMigration DEF TypeOK
<1>2. \A q \in Runner \ {p} :
         /\ Current(q)' = Current(q) /\ pc'[q] = pc[q] /\ step'[q] = step[q]
         /\ ins'[q] = ins[q] /\ ran'[q] = ran[q] /\ at'[q] = at[q]
  BY <1>0 DEF Current, TypeOK
<1>3. ins'[p] = ins[p] \cup {Current(p)} /\ pc'[p] = "loop"
  BY <1>0 DEF TypeOK
<1>4. OpenTxn'
  <2> SUFFICES ASSUME NEW q \in Runner
               PROVE  /\ open'[q] <=> pc'[q] \in TxnStates
                      /\ pc'[q] \notin {"loop", "exec", "commit"} =>
                            ran'[q] = {} /\ ins'[q] = {}
                      /\ pc'[q] = "loop" => step'[q] = 1
                      /\ pc'[q] = "exec" => step'[q] <= SizeOf[Current(q)'] + 1
    BY DEF OpenTxn
  <2>1. CASE q = p  BY <2>1, <1>0, <1>3 DEF TypeOK, TxnStates
  <2>2. CASE q # p  BY <2>2, <1>2 DEF OpenTxn
  <2> QED  BY <2>1, <2>2
<1>5. RanMatchesIns'
  <2> SUFFICES ASSUME NEW q \in Runner, NEW m \in Migration,
                      NEW k \in 1..SizeOf[m]
               PROVE  <<m, k>> \in ran'[q] <=>
                        \/ m \in ins'[q]
                        \/ pc'[q] = "exec" /\ m = Current(q)' /\ k < step'[q]
    BY DEF RanMatchesIns
  <2>1. CASE q # p  BY <2>1, <1>2 DEF RanMatchesIns
  <2>2. CASE q = p
    <3>1. <<m, k>> \in ran[p] <=>
            m \in ins[p] \/ (m = Current(p) /\ k < step[p])
      BY DEF RanMatchesIns
    <3>2. m = Current(p) => k < step[p]
      BY <1>1, BuildAssumption DEF StatementsDone
    <3> QED  BY <2>2, <1>3, <3>1, <3>2
  <2> QED  BY <2>1, <2>2
<1>6. InsBehind'
  <2> SUFFICES ASSUME NEW q \in Runner, NEW m \in ins'[q]
               PROVE  \E i \in 1..Len(build[q]) : i < at'[q] /\ build[q][i] = m
    BY DEF InsBehind
  <2>1. CASE q # p  BY <2>1, <1>2 DEF InsBehind
  <2>2. CASE q = p /\ m = Current(p)
    <3>1. at'[p] = at[p] + 1  BY <1>0 DEF TypeOK
    <3>2. at[p] < at'[p] /\ build[p][at[p]] = m
      BY <1>1, <2>2, <3>1 DEF Current
    <3> QED  BY <1>1, <2>2, <3>2
  <2>3. CASE q = p /\ m \in ins[p]
    <3>1. PICK i \in 1..Len(build[p]) : i < at[p] /\ build[p][i] = m
      BY <2>3 DEF InsBehind
    <3>2. at'[p] = at[p] + 1  BY <1>0 DEF TypeOK
    <3> QED  BY <2>3, <3>1, <3>2, <1>1
  <2> QED  BY <2>1, <2>2, <2>3, <1>3
<1>7. \A m \in ins[p] : VersionOf[m] # VersionOf[Current(p)]
  <2> SUFFICES ASSUME NEW m \in ins[p]
               PROVE  VersionOf[m] # VersionOf[Current(p)]
    OBVIOUS
  <2>1. PICK i \in 1..Len(build[p]) : i < at[p] /\ build[p][i] = m
    BY DEF InsBehind
  <2>2. VersionOf[build[p][i]] < VersionOf[build[p][at[p]]]
    BY <1>1, <2>1, BuildAssumption
  <2>3. m \in Migration  BY <1>0 DEF TypeOK
  <2>4. VersionOf[m] \in Nat /\ VersionOf[Current(p)] \in Nat
    BY <1>1, <2>3, BuildAssumption
  <2> QED  BY <2>1, <2>2, <2>4 DEF Current
<1>8. KeysApart'
  <2>1. \A q \in Runner \ {p} : \A n \in ins[q] :
           VersionOf[n] # VersionOf[Current(p)]
    BY DEF KeyFree
  <2> SUFFICES ASSUME NEW q \in Runner, NEW m \in ins'[q]
               PROVE  /\ rows[VersionOf[m]] = None
                      /\ \A r \in Runner : \A n \in ins'[r] :
                            VersionOf[n] = VersionOf[m] => r = q /\ n = m
    BY DEF KeysApart
  <2>2. \A r \in Runner : \A n \in ins'[r] :
           n \in ins[r] \/ (r = p /\ n = Current(p))
    BY <1>2, <1>3
  <2>3. CASE m \in ins[q]
    <3>1. rows[VersionOf[m]] = None  BY <2>3 DEF KeysApart
    <3>2. ASSUME NEW r \in Runner, NEW n \in ins'[r],
                 VersionOf[n] = VersionOf[m]
          PROVE  r = q /\ n = m
      <4>1. CASE n \in ins[r]  BY <2>3, <3>2, <4>1 DEF KeysApart
      <4>2. CASE r = p /\ n = Current(p)
        BY <1>7, <2>1, <2>3, <3>2, <4>2
      <4> QED  BY <2>2, <4>1, <4>2
    <3> QED  BY <3>1, <3>2
  <2>4. CASE q = p /\ m = Current(p)
    BY <1>7, <2>1, <2>2, <2>4
  <2> QED  BY <2>2, <2>3, <2>4
<1>9. ExactlyOnce'  BY DEF ExactlyOnce, Recorded
<1> QED  BY <1>4, <1>5, <1>6, <1>8, <1>9

LEMMA TxnInvStep == TypeInv /\ TxnInv /\ [Next]_vars => TxnInv'
<1> SUFFICES ASSUME TypeInv, TxnInv, [Next]_vars, Backend # "mysql"
             PROVE  /\ OpenTxn' /\ RanMatchesIns' /\ InsBehind'
                    /\ KeysApart' /\ ExactlyOnce'
  BY DEF TxnInv
<1> DEFINE Goal == /\ OpenTxn' /\ RanMatchesIns' /\ InsBehind'
                   /\ KeysApart' /\ ExactlyOnce'
<1> USE DEF Goto
<1>0. /\ TypeOK /\ OpenTxn /\ RanMatchesIns /\ InsBehind
      /\ KeysApart /\ ExactlyOnce
  BY DEF TypeInv, TxnInv
<1>1. ASSUME NEW p \in Runner, Start(p) PROVE Goal
  <2>1. ran[p] = {} /\ ins[p] = {}
    BY <1>0, <1>1 DEF Start, Running, OpenTxn
  <2>2. KeysApart' /\ ExactlyOnce'  BY <1>0, <1>1, QuietStep DEF Start
  <2>3. OpenTxn'
    BY <1>0, <1>1, <2>1 DEF Start, OpenTxn, TxnStates, TypeOK, Running, Current
  <2>4. RanMatchesIns'
    <3>1. \A q \in Runner \ {p} : Current(q)' = Current(q)
      BY <1>0, <1>1 DEF Start, TypeOK, Current
    <3>2. pc[p] # "exec" /\ pc'[p] # "exec"
      BY <1>0, <1>1 DEF Start, TypeOK, Running
    <3>3. \A q \in Runner \ {p} : pc'[q] = pc[q]
      BY <1>0, <1>1 DEF Start, TypeOK
    <3>4. UNCHANGED <<ran, ins, step>>  BY <1>1 DEF Start
    <3> SUFFICES ASSUME NEW q \in Runner, NEW m \in Migration,
                        NEW k \in 1..SizeOf[m]
                 PROVE  <<m, k>> \in ran[q] <=>
                          \/ m \in ins[q]
                          \/ pc'[q] = "exec" /\ m = Current(q)' /\ k < step[q]
      BY <3>4 DEF RanMatchesIns
    <3>5. CASE q = p  BY <2>1, <3>2, <3>5
    <3>6. CASE q # p  BY <1>0, <3>1, <3>3, <3>6 DEF RanMatchesIns
    <3> QED  BY <3>5, <3>6
  <2>5. InsBehind'  BY <1>0, <1>1, <2>1 DEF Start, InsBehind, TypeOK
  <2> QED  BY <2>2, <2>3, <2>4, <2>5
<1>2. ASSUME NEW p \in Runner,
             CreateVersionTable(p) \/ AlterVersionTable(p) \/ Begin(p)
             \/ ReadMax(p)
      PROVE Goal
  <2> USE DEF CreateVersionTable, AlterVersionTable, Begin, ReadMax
  <2>2. KeysApart' /\ ExactlyOnce'  BY <1>0, <1>2, QuietStep
  <2>3. OpenTxn'
    <3>1. \A q \in Runner : Current(q)' = Current(q)  BY <1>2 DEF Current
    <3>2. CASE CreateVersionTable(p)
      BY <1>0, <3>1, <3>2 DEF OpenTxn, TxnStates, TypeOK
    <3>3. CASE AlterVersionTable(p)
      BY <1>0, <3>1, <3>3 DEF OpenTxn, TxnStates, TypeOK
    <3>4. CASE Begin(p)
      BY <1>0, <3>1, <3>4 DEF OpenTxn, TxnStates, TypeOK
    <3>5. CASE ReadMax(p)
      BY <1>0, <3>1, <3>5 DEF OpenTxn, TxnStates, TypeOK
    <3> QED  BY <1>2, <3>2, <3>3, <3>4, <3>5
  <2>4. RanMatchesIns'  BY <1>0, <1>2 DEF RanMatchesIns, TypeOK, Current
  <2>5. InsBehind'  BY <1>0, <1>2 DEF InsBehind
  <2> QED  BY <2>2, <2>3, <2>4, <2>5
<1>3. ASSUME NEW p \in Runner, ReadIds(p) PROVE Goal
  <2> USE DEF ReadIds
  <2>1. ins[p] = {}  BY <1>0, <1>3 DEF OpenTxn
  <2>2. KeysApart' /\ ExactlyOnce'  BY <1>0, <1>3, QuietStep
  <2>3. OpenTxn'
    BY <1>0, <1>3 DEF OpenTxn, TxnStates, TypeOK, Current
  <2>4. RanMatchesIns'  BY <1>0, <1>3 DEF RanMatchesIns, TypeOK, Current
  <2>5. InsBehind'  BY <1>0, <1>3, <2>1 DEF InsBehind, TypeOK
  <2> QED  BY <2>2, <2>3, <2>4, <2>5
<1>4. ASSUME NEW p \in Runner, LoopEnds(p) \/ EnterMigration(p) PROVE Goal
  <2> USE DEF LoopEnds, EnterMigration
  <2>1. step[p] = 1  BY <1>0, <1>4 DEF OpenTxn
  <2>2. KeysApart' /\ ExactlyOnce'  BY <1>0, <1>4, QuietStep
  <2>3. OpenTxn'
    <3>1. CASE LoopEnds(p)
      BY <1>0, <3>1 DEF OpenTxn, TxnStates, TypeOK, Current
    <3>2. CASE EnterMigration(p)
      <4>1. Current(p) \in Migration
        <5>1. at[p] \in Nat \ {0} /\ at[p] <= Len(build[p])
          BY <1>0, <3>2 DEF TypeOK
        <5>2. build[p] \in Builds
          <6>1. build[p] \in Builds \cup {<<>>}  BY <1>0 DEF TypeOK
          <6>2. build[p] # <<>>  BY <5>1
          <6> QED  BY <6>1, <6>2
        <5> QED  BY <5>1, <5>2, BuildAssumption DEF Current
      <4>2. SizeOf[Current(p)] \in Nat  BY <4>1, BuildAssumption
      <4> QED
        BY <1>0, <2>1, <3>2, <4>2 DEF OpenTxn, TxnStates, TypeOK, Current
    <3> QED  BY <1>4, <3>1, <3>2
  <2>4. RanMatchesIns'
    <3>1. \A q \in Runner : Current(q)' = Current(q)  BY <1>4 DEF Current
    <3>2. UNCHANGED <<ran, ins, step>>  BY <1>4
    <3>3. \A q \in Runner \ {p} : pc'[q] = pc[q]  BY <1>0, <1>4 DEF TypeOK
    <3> SUFFICES ASSUME NEW q \in Runner, NEW m \in Migration,
                        NEW k \in 1..SizeOf[m]
                 PROVE  <<m, k>> \in ran[q] <=>
                          \/ m \in ins[q]
                          \/ pc'[q] = "exec" /\ m = Current(q) /\ k < step[q]
      BY <3>1, <3>2 DEF RanMatchesIns
    <3>4. CASE q = p
      <4>1. ~(k < step[p])  BY <2>1, BuildAssumption
      <4>2. <<m, k>> \in ran[p] <=> m \in ins[p]
        BY <1>0, <4>1 DEF RanMatchesIns
      <4> QED  BY <3>4, <4>1, <4>2
    <3>5. CASE q # p  BY <1>0, <3>3, <3>5 DEF RanMatchesIns
    <3> QED  BY <3>4, <3>5
  <2>5. InsBehind'  BY <1>0, <1>4 DEF InsBehind
  <2> QED  BY <2>2, <2>3, <2>4, <2>5
<1>5. ASSUME NEW p \in Runner, SkipMigration(p) PROVE Goal
  <2> USE DEF SkipMigration
  <2>1. \A q \in Runner : pc[q] = "exec" => Current(q)' = Current(q)
    BY <1>0, <1>5 DEF TypeOK, Current
  <2>2. KeysApart' /\ ExactlyOnce'  BY <1>0, <1>5, QuietStep
  <2>3. OpenTxn'  BY <1>0, <1>5, <2>1 DEF OpenTxn, TxnStates
  <2>4. RanMatchesIns'  BY <1>0, <1>5, <2>1 DEF RanMatchesIns
  <2>5. InsBehind'
    <3> SUFFICES ASSUME NEW q \in Runner, NEW m \in ins[q]
                 PROVE  \E i \in 1..Len(build[q]) :
                           i < at'[q] /\ build[q][i] = m
      BY <1>5 DEF InsBehind
    <3>1. PICK i \in 1..Len(build[q]) : i < at[q] /\ build[q][i] = m
      BY <1>0 DEF InsBehind
    <3>2. at[q] \in Nat /\ (at'[q] = at[q] \/ at'[q] = at[q] + 1)
      BY <1>0, <1>5 DEF TypeOK
    <3>3. i < at'[q]  BY <3>1, <3>2
    <3> QED  BY <3>1, <3>3
  <2> QED  BY <2>2, <2>3, <2>4, <2>5
<1>6. ASSUME NEW p \in Runner, ExecStmt(p) PROVE Goal
  BY <1>0, <1>6, ExecTxn
<1>7. ASSUME NEW p \in Runner, InsertVersion(p) PROVE Goal
  BY <1>0, <1>7, InsertTxn
<1>8. ASSUME NEW p \in Runner, ExecAutocommit(p) \/ InsertAutocommit(p)
      PROVE  Goal
  BY <1>0, <1>8
  DEF ExecAutocommit, InsertAutocommit, CommitsAtOnce, OpenTxn, TxnStates
<1>9. ASSUME NEW p \in Runner, Commit(p) \/ CommitUnacknowledged(p)
      PROVE  Goal
  <2>1. PICK l \in {"done", "failed"} : Goto(p, l)
    BY <1>9 DEF Commit, CommitUnacknowledged
  <2> QED  BY <1>0, <1>9, <2>1, CommitTxn DEF Commit, CommitUnacknowledged
<1>10. ASSUME NEW p \in Runner,
              ReportMismatch(p) \/ RejectStmt(p) \/ RejectVersion(p) \/ Fail(p)
       PROVE  Goal
  <2>1. Drop(p)
    BY <1>10 DEF ReportMismatch, RejectStmt, RejectVersion, Fail
  <2> QED  BY <1>0, <2>1, DropTxn
<1>11. ASSUME UNCHANGED vars PROVE Goal
  <2> USE DEF vars
  <2>1. KeysApart' /\ ExactlyOnce'  BY <1>0, <1>11, QuietStep
  <2>2. OpenTxn'  BY <1>0, <1>11 DEF OpenTxn, TxnStates, Current
  <2>3. RanMatchesIns'  BY <1>0, <1>11 DEF RanMatchesIns, Current
  <2>4. InsBehind'  BY <1>0, <1>11 DEF InsBehind
  <2> QED  BY <2>1, <2>2, <2>3, <2>4
<1> QED
  BY <1>1, <1>2, <1>3, <1>4, <1>5, <1>6, <1>7, <1>8, <1>9, <1>10, <1>11
  DEF Next, RunnerStep

\* On PostgreSQL and SQLite a recorded migration has taken effect exactly once
\* and an unrecorded one not at all, for any number of processes that run
\* run_embedded_migrations at the same time, fail anywhere and start again.
THEOREM AppliedExactlyOnce == Spec => []ExactlyOnce
<1>1. TypeInv /\ TxnInv => ExactlyOnce
  BY DEF TxnInv, ExactlyOnce
<1>2. Init => TypeInv /\ TxnInv  BY TypeInvInit, TxnInvInit
<1>3. TypeInv /\ TxnInv /\ [Next]_vars => (TypeInv /\ TxnInv)'
  BY TypeInvStep, TxnInvStep
<1> QED  BY <1>1, <1>2, <1>3, PTL DEF Spec

----------------------------------------------------------------------------
(* The history that the runner leaves in the version table: what holds on  *)
(* MySQL too, where a transaction falls apart at the first DDL statement,  *)
(* and what a transactional backend promises the application.              *)

\* The builds are releases of one history: a shorter one is the beginning of
\* a longer one.  Without it versions clash, see DivergenceDetected.
Linear ==
    \A b, c \in Builds :
        Len(b) <= Len(c) => \A i \in 1..Len(b) : b[i] = c[i]

----------------------------------------------------------------------------
(* The inductive invariants.                                               *)

\* A version row that waits for its commit belongs to a running loop in an
\* open transaction, and nobody has, or holds, a row with its key.
UncommittedRows ==
    \A p \in Runner :
        /\ ins[p] # {} => open[p] /\ pc[p] \in {"loop", "exec", "commit"}
        /\ \A m \in ins[p] :
              /\ rows[VersionOf[m]] = None
              /\ \A q \in Runner \ {p} : \A n \in ins[q] :
                    VersionOf[n] # VersionOf[m]

\* A statement that p has executed is in its transaction still, or it has
\* taken effect.
InEffect(p, s) == s \in ran[p] \/ times[s] >= 1

\* The statements of p before step, and those of the migrations it has
\* recorded, have been executed.
ExecutedInEffect(p) ==
    /\ ~open[p] => ran[p] = {}
    /\ pc[p] = "loop" => step[p] = 1
    /\ pc[p] = "exec" =>
          \A k \in 1..SizeOf[Current(p)] :
              k < step[p] => InEffect(p, <<Current(p), k>>)
    /\ \A m \in ins[p] : \A s \in StmtsOf(m) : InEffect(p, s)

StepsInEffect == \A p \in Runner : ExecutedInEffect(p)

\* What the loop has passed is recorded or waits for the commit, and what it
\* skips because of `version` is recorded.
PassedRecorded(p) ==
    /\ pc[p] \in {"loop", "exec", "commit"} =>
          \A i \in 1..Len(build[p]) :
              i < at[p] => Recorded(build[p][i]) \/ build[p][i] \in ins[p]
    /\ pc[p] = "commit" => at[p] > Len(build[p])
    /\ pc[p] \in {"ids", "loop", "exec", "commit"} =>
          \A i \in 1..Len(build[p]) :
              VersionOf[build[p][i]] <= seen[p] => Recorded(build[p][i])

LoopPassed == \A p \in Runner : PassedRecorded(p)

\* A recorded plan is one some build embeds.
RowsFromBuilds ==
    \A v \in Versions : rows[v] # None =>
        \E b \in Builds : \E i \in 1..Len(b) :
            b[i] = rows[v] /\ VersionOf[b[i]] = v

HistoryInv ==
    Linear => InsBehind /\ LoopPassed /\ RowsFromBuilds /\ HistoryIsComplete
----------------------------------------------------------------------------
(* Rows of the version table.                                              *)

\* Storing the rows of M changes exactly the versions of M.
LEMMA StoredRow ==
    ASSUME NEW M \in SUBSET Migration, NEW v \in Versions
    PROVE  /\ (\E m \in M : VersionOf[m] = v) =>
                 Stored(M)[v] \in M /\ VersionOf[Stored(M)[v]] = v
           /\ (~\E m \in M : VersionOf[m] = v) => Stored(M)[v] = rows[v]
  BY DEF Stored

LEMMA UncommittedRowsInit == Init => UncommittedRows
  BY DEF Init, UncommittedRows

\* Committing ins[p] leaves the keys of the other transactions free.
LEMMA CommitRows ==
    ASSUME TypeOK, UncommittedRows, NEW p \in Runner,
           rows' = Stored(ins[p]), ins' = [ins EXCEPT ![p] = {}],
           NEW q \in Runner \ {p}, NEW m \in ins[q]
    PROVE  rows'[VersionOf[m]] = None
<1>1. m \in Migration /\ ins[p] \in SUBSET Migration  BY DEF TypeOK
<1>2. VersionOf[m] \in Versions  BY <1>1 DEF Versions
<1>3. ~\E n \in ins[p] : VersionOf[n] = VersionOf[m]  BY DEF UncommittedRows
<1>4. rows[VersionOf[m]] = None  BY DEF UncommittedRows
<1> QED  BY <1>1, <1>2, <1>3, <1>4, StoredRow

LEMMA UncommittedRowsStep ==
    TypeInv /\ UncommittedRows /\ [Next]_vars => UncommittedRows'
<1> SUFFICES ASSUME TypeInv, UncommittedRows, [Next]_vars
             PROVE  UncommittedRows'
  OBVIOUS
<1> USE DEF Goto
<1>0. TypeOK  BY DEF TypeInv
<1>1. ASSUME NEW p \in Runner,
             \/ CreateVersionTable(p) \/ AlterVersionTable(p)
             \/ Begin(p) \/ ReadMax(p) \/ ReadIds(p) \/ Start(p)
      PROVE  UncommittedRows'
  <2>1. pc[p] \notin {"loop", "exec", "commit"}
    BY <1>0, <1>1
    DEF CreateVersionTable, AlterVersionTable, Begin, ReadMax, ReadIds, Start,
        Running, TypeOK
  <2>2. ins[p] = {}  BY <2>1 DEF UncommittedRows
  <2>3. UNCHANGED <<rows, ins>>
    BY <1>1
    DEF CreateVersionTable, AlterVersionTable, Begin, ReadMax, ReadIds, Start
  <2>4. \A q \in Runner \ {p} : pc'[q] = pc[q] /\ open'[q] = open[q]
    BY <1>0, <1>1
    DEF CreateVersionTable, AlterVersionTable, Begin, ReadMax, ReadIds, Start,
        TypeOK
  <2> QED  BY <2>2, <2>3, <2>4 DEF UncommittedRows
<1>2. ASSUME NEW p \in Runner,
             LoopEnds(p) \/ SkipMigration(p) \/ EnterMigration(p) \/ ExecStmt(p)
      PROVE  UncommittedRows'
  <2>1. UNCHANGED <<rows, ins, open>>
    BY <1>2 DEF LoopEnds, SkipMigration, EnterMigration, ExecStmt
  <2>2. /\ pc'[p] \in {"loop", "exec", "commit"}
        /\ \A q \in Runner \ {p} : pc'[q] = pc[q]
    BY <1>0, <1>2 DEF LoopEnds, SkipMigration, EnterMigration, ExecStmt, TypeOK
  <2> QED  BY <2>1, <2>2 DEF UncommittedRows
<1>3. ASSUME NEW p \in Runner, InsertVersion(p) PROVE UncommittedRows'
  <2>1. /\ open[p] /\ KeyFree(p, Current(p))
        /\ rows[VersionOf[Current(p)]] = None
    BY <1>3 DEF InsertVersion
  <2>2. /\ UNCHANGED <<rows, open>>
        /\ ins'[p] = ins[p] \cup {Current(p)} /\ pc'[p] = "loop"
        /\ \A q \in Runner \ {p} : ins'[q] = ins[q] /\ pc'[q] = pc[q]
    BY <1>0, <1>3 DEF InsertVersion, TypeOK
  <2> SUFFICES ASSUME NEW q \in Runner
               PROVE  /\ ins'[q] # {} =>
                            open[q] /\ pc'[q] \in {"loop", "exec", "commit"}
                      /\ \A m \in ins'[q] :
                            /\ rows[VersionOf[m]] = None
                            /\ \A r \in Runner \ {q} : \A n \in ins'[r] :
                                  VersionOf[n] # VersionOf[m]
    BY <2>2 DEF UncommittedRows
  <2>3. CASE q = p
    BY <2>1, <2>2, <2>3 DEF UncommittedRows, KeyFree
  <2>4. CASE q # p
    BY <2>1, <2>2, <2>4 DEF UncommittedRows, KeyFree
  <2> QED  BY <2>3, <2>4
<1>4. ASSUME NEW p \in Runner,
             \/ ExecAutocommit(p) \/ Commit(p) \/ CommitUnacknowledged(p)
      PROVE  UncommittedRows'
  <2>1. /\ rows' = Stored(ins[p]) /\ ins' = [ins EXCEPT ![p] = {}]
        /\ open' = [open EXCEPT ![p] = FALSE]
    BY <1>4 DEF ExecAutocommit, Commit, CommitUnacknowledged, DbCommit
  <2>2. ins'[p] = {}  BY <1>0, <2>1 DEF TypeOK
  <2>3. \A q \in Runner \ {p} :
           ins'[q] = ins[q] /\ open'[q] = open[q] /\ pc'[q] = pc[q]
    BY <1>0, <1>4, <2>1
    DEF ExecAutocommit, Commit, CommitUnacknowledged, TypeOK
  <2>4. \A q \in Runner \ {p} : \A m \in ins[q] : rows'[VersionOf[m]] = None
    BY <1>0, <2>1, CommitRows
  <2> QED  BY <2>2, <2>3, <2>4 DEF UncommittedRows
<1>5. ASSUME NEW p \in Runner, InsertAutocommit(p) PROVE UncommittedRows'
  <2>1. Current(p) \in Migration
    BY <1>5, CurrentMigration DEF InsertAutocommit
  <2>2. /\ ~open[p] /\ KeyFree(p, Current(p)) /\ rows' = Stored({Current(p)})
        /\ UNCHANGED <<ins, open>>
    BY <1>5 DEF InsertAutocommit
  <2>3. ins[p] = {}  BY <2>2 DEF UncommittedRows
  <2>4. \A q \in Runner \ {p} : pc'[q] = pc[q]
    BY <1>0, <1>5 DEF InsertAutocommit, TypeOK
  <2>5. ASSUME NEW q \in Runner \ {p}, NEW m \in ins[q]
        PROVE  rows'[VersionOf[m]] = None
    <3>1. m \in Migration  BY <1>0 DEF TypeOK
    <3>2. VersionOf[m] \in Versions  BY <3>1 DEF Versions
    <3>3. VersionOf[m] # VersionOf[Current(p)]  BY <2>2 DEF KeyFree
    <3>4. rows[VersionOf[m]] = None  BY DEF UncommittedRows
    <3> QED  BY <2>1, <2>2, <3>2, <3>3, <3>4, StoredRow
  <2>6. \A q \in Runner \ {p} : \A m \in ins[q] : rows'[VersionOf[m]] = None
    BY <2>5
  <2>7. UNCHANGED <<ins, open>>  BY <2>2
  <2> QED  BY <2>3, <2>4, <2>6, <2>7 DEF UncommittedRows
<1>6. ASSUME NEW p \in Runner,
             ReportMismatch(p) \/ RejectStmt(p) \/ RejectVersion(p) \/ Fail(p)
      PROVE  UncommittedRows'
  <2>1. Drop(p)
    BY <1>6 DEF ReportMismatch, RejectStmt, RejectVersion, Fail
  <2>2. /\ ins'[p] = {} /\ UNCHANGED rows
        /\ \A q \in Runner \ {p} :
              ins'[q] = ins[q] /\ open'[q] = open[q] /\ pc'[q] = pc[q]
    BY <1>0, <2>1 DEF Drop, TypeOK
  <2> QED  BY <2>2 DEF UncommittedRows
<1>7. ASSUME UNCHANGED vars PROVE UncommittedRows'
  BY <1>7 DEF vars, UncommittedRows
<1> QED
  BY <1>1, <1>2, <1>3, <1>4, <1>5, <1>6, <1>7 DEF Next, RunnerStep

\* A step stores rows under free keys only.
LEMMA RowsKept ==
    ASSUME TypeInv, UncommittedRows, [Next]_vars,
           NEW v \in Versions, rows[v] # None
    PROVE  rows'[v] = rows[v]
<1>0. TypeOK  BY DEF TypeInv
<1>1. ASSUME NEW p \in Runner, rows' = Stored(ins[p])
      PROVE  rows'[v] = rows[v]
  <2>1. ins[p] \in SUBSET Migration  BY <1>0 DEF TypeOK
  <2>2. ~\E m \in ins[p] : VersionOf[m] = v  BY DEF UncommittedRows
  <2> QED  BY <1>1, <2>1, <2>2, StoredRow
<1>2. ASSUME NEW p \in Runner, InsertAutocommit(p) PROVE rows'[v] = rows[v]
  <2>1. Current(p) \in Migration
    BY <1>2, CurrentMigration DEF InsertAutocommit
  <2>2. VersionOf[Current(p)] # v /\ rows' = Stored({Current(p)})
    BY <1>2 DEF InsertAutocommit
  <2> QED  BY <2>1, <2>2, StoredRow
<1>3. \/ rows' = rows
      \/ \E p \in Runner : rows' = Stored(ins[p])
      \/ \E p \in Runner : InsertAutocommit(p)
  BY DEF Next, RunnerStep, vars, Start, CreateVersionTable, AlterVersionTable,
         Begin, ReadMax, ReadIds, LoopEnds, SkipMigration, EnterMigration,
         ReportMismatch, ExecStmt, ExecAutocommit, RejectStmt, InsertVersion,
         RejectVersion, Commit, CommitUnacknowledged, DbCommit, Fail, Drop
<1> QED  BY <1>1, <1>2, <1>3

\* On every backend a row of the version table is final, whichever processes
\* race for its version, fail or start again: a run either inserts under a
\* free key or is refused.
THEOREM RowsStayFinal == Spec => RowsAreFinal
<1>1. TypeInv /\ UncommittedRows /\ [Next]_vars =>
        [\A v \in Versions : rows[v] # None => rows'[v] = rows[v]]_vars
  BY RowsKept
<1>2. Init => TypeInv /\ UncommittedRows
  BY TypeInvInit, UncommittedRowsInit
<1>3. TypeInv /\ UncommittedRows /\ [Next]_vars
        => (TypeInv /\ UncommittedRows)'
  BY TypeInvStep, UncommittedRowsStep
<1> QED  BY <1>1, <1>2, <1>3, PTL DEF Spec, RowsAreFinal
----------------------------------------------------------------------------
(* A recorded migration has taken effect, on MySQL too.                    *)

LEMMA EffectsCount ==
    ASSUME TypeOK, NEW S, NEW s \in Stmts
    PROVE  Effects(S)[s] = IF s \in S THEN times[s] + 1 ELSE times[s]
  BY DEF Effects

LEMMA StmtsOfSubset ==
    ASSUME NEW m \in Migration PROVE StmtsOf(m) \subseteq Stmts
  BY DEF Stmts

LEMMA AppliedInit == Init => StepsInEffect /\ RecordedIsApplied
<1> SUFFICES ASSUME Init PROVE StepsInEffect /\ RecordedIsApplied  OBVIOUS
<1>1. StepsInEffect  BY DEF Init, StepsInEffect, ExecutedInEffect
<1>2. \A m \in Migration : ~Recorded(m)
  BY ConstantAssumption DEF Init, Recorded, Versions
<1> QED  BY <1>1, <1>2 DEF RecordedIsApplied

\* What p keeps in its transaction, or sees in effect, it does not lose
\* unless it rolls back; and the other processes lose nothing.
LEMMA EffectKept ==
    ASSUME TypeInv, NEW p \in Runner, NEW s \in Stmts, InEffect(p, s),
           \/ UNCHANGED <<times, ran>>
           \/ times' = times /\ ran[p] \subseteq ran'[p]
           \/ \E S : ran[p] \subseteq S /\ times' = Effects(S)
           \/ ran'[p] = ran[p] /\ \E S : times' = Effects(S)
    PROVE  InEffect(p, s)'
<1>0. TypeOK /\ times[s] \in Nat  BY DEF TypeInv, TypeOK
<1>1. CASE UNCHANGED <<times, ran>>  BY <1>1 DEF InEffect
<1>2. CASE times' = times /\ ran[p] \subseteq ran'[p]  BY <1>2 DEF InEffect
<1>3. CASE \E S : ran[p] \subseteq S /\ times' = Effects(S)
  <2>1. PICK S : ran[p] \subseteq S /\ times' = Effects(S)  BY <1>3
  <2>2. times'[s] = IF s \in S THEN times[s] + 1 ELSE times[s]
    BY <1>0, <2>1, EffectsCount
  <2> QED  BY <1>0, <2>1, <2>2 DEF InEffect
<1>4. CASE ran'[p] = ran[p] /\ \E S : times' = Effects(S)
  <2>1. PICK S : times' = Effects(S)  BY <1>4
  <2>2. times'[s] = IF s \in S THEN times[s] + 1 ELSE times[s]
    BY <1>0, <2>1, EffectsCount
  <2> QED  BY <1>0, <1>4, <2>2 DEF InEffect
<1> QED  BY <1>1, <1>2, <1>3, <1>4

\* A process that p's step does not move keeps its part of the invariant.
LEMMA OthersInEffect ==
    ASSUME TypeInv, StepsInEffect, NEW q \in Runner,
           /\ pc'[q] = pc[q] /\ step'[q] = step[q] /\ build'[q] = build[q]
           /\ at'[q] = at[q] /\ ins'[q] = ins[q] /\ ran'[q] = ran[q]
           /\ open'[q] = open[q],
           times' = times \/ \E S : times' = Effects(S)
    PROVE  ExecutedInEffect(q)'
<1>0. TypeOK /\ Current(q)' = Current(q) /\ ExecutedInEffect(q)
  BY DEF TypeInv, Current, StepsInEffect
<1>1. ASSUME NEW s \in Stmts, InEffect(q, s) PROVE InEffect(q, s)'
  <2>1. CASE times' = times  BY <1>1, <2>1 DEF InEffect
  <2>2. CASE \E S : times' = Effects(S)  BY <1>1, <2>2, EffectKept
  <2> QED  BY <2>1, <2>2
<1>2. (~open'[q] => ran'[q] = {}) /\ (pc'[q] = "loop" => step'[q] = 1)
  BY <1>0 DEF ExecutedInEffect
<1>3. ASSUME pc'[q] = "exec", NEW k \in 1..SizeOf[Current(q)'], k < step'[q]
      PROVE  InEffect(q, <<Current(q), k>>)'
  <2>1. Current(q) \in Migration  BY <1>3, CurrentMigration
  <2>2. <<Current(q), k>> \in Stmts  BY <1>0, <1>3, <2>1, StmtsOfInStmts
  <2>3. InEffect(q, <<Current(q), k>>)  BY <1>0, <1>3 DEF ExecutedInEffect
  <2> QED  BY <1>0, <1>1, <2>2, <2>3 DEF InEffect
<1>4. ASSUME NEW m \in ins'[q], NEW s \in StmtsOf(m) PROVE InEffect(q, s)'
  <2>1. m \in ins[q] /\ m \in Migration  BY <1>0 DEF TypeOK
  <2>2. s \in Stmts  BY <2>1, StmtsOfSubset
  <2>3. InEffect(q, s)  BY <1>0, <2>1 DEF ExecutedInEffect
  <2> QED  BY <1>1, <2>2, <2>3
<1> QED  BY <1>2, <1>3, <1>4 DEF ExecutedInEffect

LEMMA StepsInEffectStep ==
    TypeInv /\ TxnInv /\ UncommittedRows /\ StepsInEffect /\ [Next]_vars
      => StepsInEffect'
<1> SUFFICES ASSUME TypeInv, TxnInv, UncommittedRows, StepsInEffect, [Next]_vars
             PROVE  StepsInEffect'
  OBVIOUS
<1> USE DEF Goto
<1>0. TypeOK  BY DEF TypeInv
<1>1. ASSUME NEW p \in Runner,
             \/ CreateVersionTable(p) \/ AlterVersionTable(p)
             \/ Begin(p) \/ ReadMax(p) \/ ReadIds(p) \/ Start(p)
      PROVE  StepsInEffect'
  <2> USE DEF CreateVersionTable, AlterVersionTable, Begin, ReadMax, ReadIds,
              Start
  <2>1. pc[p] \notin {"loop", "exec", "commit"}
    BY <1>0, <1>1 DEF Running, TypeOK
  <2>2. ins[p] = {}  BY <2>1 DEF UncommittedRows
  <2>3. UNCHANGED <<times, ran, ins>>  BY <1>1
  <2>4. \A q \in Runner \ {p} :
           /\ pc'[q] = pc[q] /\ step'[q] = step[q] /\ build'[q] = build[q]
           /\ at'[q] = at[q] /\ open'[q] = open[q]
    BY <1>0, <1>1 DEF TypeOK
  <2>5. /\ pc'[p] # "exec" /\ (pc'[p] = "loop" => step'[p] = 1)
        /\ open[p] => open'[p]
    BY <1>0, <1>1 DEF TypeOK
  <2>6. ExecutedInEffect(p)'
    BY <2>2, <2>3, <2>5 DEF StepsInEffect, ExecutedInEffect
  <2>7. \A q \in Runner \ {p} : ExecutedInEffect(q)'
    BY <2>3, <2>4, OthersInEffect
  <2> QED  BY <2>6, <2>7 DEF StepsInEffect
<1>2. ASSUME NEW p \in Runner,
             LoopEnds(p) \/ SkipMigration(p) \/ EnterMigration(p)
      PROVE  StepsInEffect'
  <2> USE DEF LoopEnds, SkipMigration, EnterMigration
  <2>1. UNCHANGED <<times, ran, ins, step, open>>  BY <1>2
  <2>2. step[p] = 1  BY <1>2 DEF StepsInEffect, ExecutedInEffect
  <2>3. \A q \in Runner \ {p} :
           pc'[q] = pc[q] /\ build'[q] = build[q] /\ at'[q] = at[q]
    BY <1>0, <1>2 DEF TypeOK
  <2>4. \A k \in 1..SizeOf[Current(p)'] : ~(k < step'[p])  BY <2>1, <2>2
  <2>5. ASSUME NEW m \in ins'[p], NEW s \in StmtsOf(m) PROVE InEffect(p, s)'
    <3>1. InEffect(p, s)  BY <2>1 DEF StepsInEffect, ExecutedInEffect
    <3> QED  BY <2>1, <3>1 DEF InEffect
  <2>6. ExecutedInEffect(p)'
    BY <2>1, <2>2, <2>4, <2>5 DEF StepsInEffect, ExecutedInEffect
  <2>7. \A q \in Runner \ {p} : ExecutedInEffect(q)'
    BY <2>1, <2>3, OthersInEffect
  <2> QED  BY <2>6, <2>7 DEF StepsInEffect
<1>3. ASSUME NEW p \in Runner, ExecStmt(p) \/ ExecAutocommit(p)
      PROVE  StepsInEffect'
  <2> USE DEF ExecStmt, ExecAutocommit
  <2>1. /\ Current(p) \in Migration /\ SizeOf[Current(p)] \in Nat
        /\ CurrentStmt(p) \in Stmts /\ step[p] \in Nat \ {0}
    BY <1>0, <1>3, CurrentMigration DEF TypeOK
  <2> PICK c \in Stmts : c = <<Current(p), step[p]>>
    BY <2>1 DEF CurrentStmt
  <2>2. UNCHANGED <<pc, build, at>> /\ step' = [step EXCEPT ![p] = @ + 1]
    BY <1>3
  <2>3. Current(p)' = Current(p) /\ step'[p] = step[p] + 1 /\ pc[p] = "exec"
    BY <1>0, <1>3, <2>2 DEF TypeOK, Current
  <2>4. \/ /\ times' = times /\ ran'[p] = ran[p] \cup {c}
           /\ ins' = ins
        \/ /\ times' = Effects(ran[p] \cup {c}) /\ ins'[p] = {}
    BY <1>0, <1>3 DEF TypeOK, CurrentStmt
  <2>5. \A q \in Runner \ {p} : /\ step'[q] = step[q] /\ ran'[q] = ran[q]
                                /\ ins'[q] = ins[q] /\ open'[q] = open[q]
    BY <1>0, <1>3 DEF TypeOK
  <2>6. InEffect(p, c)'
    <3>1. CASE ran'[p] = ran[p] \cup {c}  BY <3>1 DEF InEffect
    <3>2. CASE times' = Effects(ran[p] \cup {c})
      <4>1. times'[c] = times[c] + 1  BY <1>0, <2>1, <3>2, EffectsCount
      <4>2. times[c] \in Nat  BY <1>0, <2>1 DEF TypeOK
      <4> QED  BY <4>1, <4>2 DEF InEffect
    <3> QED  BY <2>4, <3>1, <3>2
  <2>7. ASSUME NEW s \in Stmts, InEffect(p, s) PROVE InEffect(p, s)'
    BY <2>4, <2>7, EffectKept
  <2>8. ASSUME NEW k \in 1..SizeOf[Current(p)], k < step[p] + 1
        PROVE  InEffect(p, <<Current(p), k>>)'
    <3>1. <<Current(p), k>> \in Stmts  BY <2>1, StmtsOfInStmts
    <3>2. CASE k < step[p]
      <4>1. InEffect(p, <<Current(p), k>>)
        BY <2>3, <3>2 DEF StepsInEffect, ExecutedInEffect
      <4> QED  BY <2>3, <2>7, <3>1, <4>1 DEF InEffect
    <3>3. CASE k = step[p]
      BY <2>3, <2>6, <3>3 DEF InEffect
    <3> QED  BY <2>1, <2>8, <3>2, <3>3
  <2>9. ASSUME NEW m \in ins'[p], NEW s \in StmtsOf(m) PROVE InEffect(p, s)'
    <3>1. m \in ins[p] /\ m \in Migration  BY <1>0, <2>4 DEF TypeOK
    <3>2. InEffect(p, s) /\ s \in Stmts
      BY <3>1, StmtsOfSubset DEF StepsInEffect, ExecutedInEffect
    <3> QED  BY <2>7, <3>2
  <2>12. ~open'[p] => ran'[p] = {}
    <3>1. CASE ExecStmt(p)
      BY <3>1 DEF TxnInv, OpenTxn, TxnStates, CommitsAtOnce
    <3>2. CASE ExecAutocommit(p)  BY <1>0, <3>2 DEF TypeOK
    <3> QED  BY <1>3, <3>1, <3>2
  <2>10. ExecutedInEffect(p)'
    BY <2>2, <2>3, <2>8, <2>9, <2>12 DEF ExecutedInEffect
  <2>11. \A q \in Runner \ {p} : ExecutedInEffect(q)'
    BY <2>2, <2>4, <2>5, OthersInEffect
  <2> QED  BY <2>10, <2>11 DEF StepsInEffect
<1>4. ASSUME NEW p \in Runner, InsertVersion(p) \/ InsertAutocommit(p)
      PROVE  StepsInEffect'
  <2> USE DEF InsertVersion, InsertAutocommit
  <2>1. /\ Current(p) \in Migration /\ SizeOf[Current(p)] \in Nat
        /\ step[p] \in Nat \ {0}
    BY <1>0, <1>4, CurrentMigration DEF TypeOK
  <2>2. UNCHANGED <<times, ran, build, open>>  BY <1>4
  <2>3. /\ pc'[p] = "loop" /\ step'[p] = 1
        /\ ins'[p] \subseteq ins[p] \cup {Current(p)}
        /\ \A q \in Runner \ {p} :
              /\ pc'[q] = pc[q] /\ step'[q] = step[q] /\ at'[q] = at[q]
              /\ ins'[q] = ins[q]
    BY <1>0, <1>4 DEF TypeOK
  <2>4. ASSUME NEW s \in StmtsOf(Current(p)) PROVE InEffect(p, s)
    <3>1. PICK k \in 1..SizeOf[Current(p)] : s = <<Current(p), k>>
      BY <2>1, StmtsOfMember
    <3>2. k < step[p]  BY <1>4, <2>1 DEF StatementsDone
    <3> QED  BY <1>4, <3>1, <3>2 DEF StepsInEffect, ExecutedInEffect
  <2>5. ASSUME NEW m \in ins'[p], NEW s \in StmtsOf(m) PROVE InEffect(p, s)'
    <3>1. InEffect(p, s)  BY <2>3, <2>4 DEF StepsInEffect, ExecutedInEffect
    <3> QED  BY <2>2, <3>1 DEF InEffect
  <2>6. ExecutedInEffect(p)'
    BY <2>2, <2>3, <2>5 DEF StepsInEffect, ExecutedInEffect
  <2>7. \A q \in Runner \ {p} : ExecutedInEffect(q)'
    BY <2>2, <2>3, OthersInEffect
  <2> QED  BY <2>6, <2>7 DEF StepsInEffect
<1>5. ASSUME NEW p \in Runner,
             \/ ReportMismatch(p) \/ RejectStmt(p) \/ RejectVersion(p) \/ Fail(p)
             \/ Commit(p) \/ CommitUnacknowledged(p)
      PROVE  StepsInEffect'
  <2>1. /\ pc'[p] \in {"done", "failed"} /\ ins'[p] = {} /\ ran'[p] = {}
        /\ UNCHANGED <<build, at, step>>
        /\ \A q \in Runner \ {p} :
              /\ pc'[q] = pc[q] /\ ins'[q] = ins[q] /\ ran'[q] = ran[q]
              /\ open'[q] = open[q]
        /\ times' = times \/ \E S : times' = Effects(S)
    BY <1>0, <1>5
    DEF ReportMismatch, RejectStmt, RejectVersion, Fail, Drop, Commit,
        CommitUnacknowledged, DbCommit, TypeOK
  <2>2. ExecutedInEffect(p)'  BY <2>1 DEF ExecutedInEffect
  <2>3. \A q \in Runner \ {p} : ExecutedInEffect(q)'
    BY <2>1, OthersInEffect
  <2> QED  BY <2>2, <2>3 DEF StepsInEffect
<1>6. ASSUME UNCHANGED vars PROVE StepsInEffect'
  BY <1>6, OthersInEffect DEF vars, StepsInEffect
<1> QED
  BY <1>1, <1>2, <1>3, <1>4, <1>5, <1>6 DEF Next, RunnerStep
\* Rows become visible with the statements of their migrations.
LEMMA RecordedIsAppliedStep ==
    TypeInv /\ StepsInEffect /\ RecordedIsApplied /\ [Next]_vars
      => RecordedIsApplied'
<1> SUFFICES ASSUME TypeInv, StepsInEffect, RecordedIsApplied, [Next]_vars,
                    NEW m \in Migration, Recorded(m)', NEW s \in StmtsOf(m)
             PROVE  times'[s] >= 1
  BY DEF RecordedIsApplied
<1>0. TypeOK /\ VersionOf[m] \in Versions  BY DEF TypeInv, Versions
<1>1. s \in Stmts /\ times[s] \in Nat
  BY <1>0, StmtsOfSubset DEF TypeOK
<1>2. ASSUME times[s] >= 1, times' = times \/ \E S : times' = Effects(S)
      PROVE  times'[s] >= 1
  BY <1>0, <1>1, <1>2, EffectsCount
<1>3. ASSUME rows' = rows, times' = times \/ \E S : times' = Effects(S)
      PROVE  times'[s] >= 1
  BY <1>2, <1>3 DEF RecordedIsApplied, Recorded
<1>4. ASSUME NEW p \in Runner, rows' = Stored(ins[p]),
             NEW S, times' = Effects(S), ran[p] \subseteq S
      PROVE  times'[s] >= 1
  <2>1. ins[p] \in SUBSET Migration  BY <1>0 DEF TypeOK
  <2>2. Recorded(m) \/ m \in ins[p]
    BY <1>0, <1>4, <2>1, StoredRow DEF Recorded
  <2>3. CASE Recorded(m)  BY <1>2, <1>4, <2>3 DEF RecordedIsApplied
  <2>4. CASE m \in ins[p]
    <3>1. InEffect(p, s)  BY <2>4 DEF StepsInEffect, ExecutedInEffect
    <3>2. times'[s] = IF s \in S THEN times[s] + 1 ELSE times[s]
      BY <1>0, <1>1, <1>4, EffectsCount
    <3> QED  BY <1>1, <1>4, <3>1, <3>2 DEF InEffect
  <2> QED  BY <2>2, <2>3, <2>4
<1>5. ASSUME NEW p \in Runner, InsertAutocommit(p) PROVE times'[s] >= 1
  <2>1. /\ Current(p) \in Migration /\ SizeOf[Current(p)] \in Nat
        /\ step[p] \in Nat \ {0}
    BY <1>0, <1>5, CurrentMigration DEF InsertAutocommit, TypeOK
  <2>2. times' = times /\ rows' = Stored({Current(p)})
    BY <1>5 DEF InsertAutocommit
  <2>3. Recorded(m) \/ m = Current(p)
    BY <1>0, <2>1, <2>2, StoredRow DEF Recorded
  <2>4. CASE Recorded(m)  BY <2>2, <2>4 DEF RecordedIsApplied
  <2>5. CASE m = Current(p)
    <3>1. PICK k \in 1..SizeOf[m] : s = <<m, k>>  BY StmtsOfMember
    <3>2. k < step[p]
      BY <1>5, <2>1, <2>5, <3>1 DEF InsertAutocommit, StatementsDone
    <3>3. InEffect(p, s)
      BY <1>5, <2>5, <3>1, <3>2
      DEF InsertAutocommit, StepsInEffect, ExecutedInEffect
    <3>4. ran[p] = {}
      BY <1>5 DEF InsertAutocommit, StepsInEffect, ExecutedInEffect
    <3> QED  BY <2>2, <3>3, <3>4 DEF InEffect
  <2> QED  BY <2>3, <2>4, <2>5
<1>6. ASSUME NEW p \in Runner, ExecAutocommit(p) PROVE times'[s] >= 1
  <2>1. /\ rows' = Stored(ins[p])
        /\ times' = Effects(ran[p] \cup {CurrentStmt(p)})
    BY <1>6 DEF ExecAutocommit
  <2> QED  BY <1>4, <2>1
<1>7. ASSUME NEW p \in Runner, Commit(p) \/ CommitUnacknowledged(p)
      PROVE  times'[s] >= 1
  <2>1. rows' = Stored(ins[p]) /\ times' = Effects(ran[p])
    BY <1>7 DEF Commit, CommitUnacknowledged, DbCommit
  <2> QED  BY <1>4, <2>1
<1>8. \/ UNCHANGED <<rows, times>>
      \/ \E p \in Runner :
            \/ ExecAutocommit(p) \/ InsertAutocommit(p)
            \/ Commit(p) \/ CommitUnacknowledged(p)
  BY DEF Next, RunnerStep, vars, Start, CreateVersionTable, AlterVersionTable,
         Begin, ReadMax, ReadIds, LoopEnds, SkipMigration, EnterMigration,
         ReportMismatch, ExecStmt, RejectStmt, InsertVersion, RejectVersion,
         Fail, Drop
<1> QED  BY <1>3, <1>5, <1>6, <1>7, <1>8

\* On every backend, MySQL's implicit commits included, no version row is
\* visible before all the statements of its migration have taken effect, for
\* any processes that race, fail between two statements and start again.
THEOREM RecordedMeansApplied == Spec => []RecordedIsApplied
<1> DEFINE Inv == /\ TypeInv /\ TxnInv /\ UncommittedRows
                  /\ StepsInEffect /\ RecordedIsApplied
<1>1. Init => Inv
  BY TypeInvInit, TxnInvInit, UncommittedRowsInit, AppliedInit
<1>2. Inv /\ [Next]_vars => Inv'
  BY TypeInvStep, TxnInvStep, UncommittedRowsStep, StepsInEffectStep,
     RecordedIsAppliedStep
<1> QED  BY <1>1, <1>2, PTL DEF Spec
----------------------------------------------------------------------------
(* The history is complete.                                                *)

\* In one history a plan of one build that is not newer than a plan of
\* another build comes at the same place, or earlier, in that build.
LEMMA OneHistory ==
    ASSUME Linear, NEW b \in Builds, NEW c \in Builds,
           NEW i \in 1..Len(b), NEW j \in 1..Len(c),
           VersionOf[b[i]] <= VersionOf[c[j]]
    PROVE  i <= j /\ i \in 1..Len(c) /\ b[i] = c[i]
<1>1. b \in Seq(Migration) /\ c \in Seq(Migration)  BY BuildAssumption
<1>2. /\ Len(b) \in Nat /\ Len(c) \in Nat
      /\ \A k \in 1..Len(b) : VersionOf[b[k]] \in Nat
      /\ \A k \in 1..Len(c) : VersionOf[c[k]] \in Nat
  <2>1. ASSUME NEW d \in Seq(Migration), NEW k \in 1..Len(d)
        PROVE  VersionOf[d[k]] \in Nat
    <3>1. d[k] \in Migration  OBVIOUS
    <3> QED  BY <3>1, BuildAssumption
  <2> QED  BY <1>1, <2>1
<1>3. CASE Len(b) <= Len(c)
  <2>1. b[i] = c[i] /\ i \in 1..Len(c)  BY <1>2, <1>3 DEF Linear
  <2>2. ~(j < i)
    <3>1. j < i => VersionOf[c[j]] < VersionOf[c[i]]  BY <2>1, BuildAssumption
    <3> QED  BY <1>2, <2>1, <3>1
  <2> QED  BY <1>2, <2>1, <2>2
<1>4. CASE Len(c) < Len(b)
  <2>1. c[j] = b[j] /\ j \in 1..Len(b)  BY <1>2, <1>4 DEF Linear
  <2>2. ~(j < i)
    <3>1. j < i => VersionOf[b[j]] < VersionOf[b[i]]  BY <2>1, BuildAssumption
    <3> QED  BY <1>2, <2>1, <3>1
  <2>3. i <= j /\ i \in 1..Len(c)  BY <1>2, <2>2
  <2> QED  BY <1>2, <1>4, <2>3 DEF Linear
<1> QED  BY <1>2, <1>3, <1>4

\* A process that has something left of its build, or behind it, has a build.
LEMMA BuildType ==
    ASSUME TypeOK, NEW p \in Runner, NEW i \in 1..Len(build[p])
    PROVE  /\ build[p] \in Builds /\ build[p] \in Seq(Migration)
           /\ build[p][i] \in Migration
           /\ VersionOf[build[p][i]] \in Versions
           /\ VersionOf[build[p][i]] \in Nat \ {0}
<1>1. build[p] \in Builds
  <2>1. build[p] \in Builds \cup {<<>>}  BY DEF TypeOK
  <2>2. build[p] # <<>>  OBVIOUS
  <2> QED  BY <2>1, <2>2
<1>2. build[p] \in Seq(Migration)  BY <1>1, BuildAssumption
<1>3. build[p][i] \in Migration  BY <1>2
<1> QED  BY <1>1, <1>2, <1>3, BuildAssumption DEF Versions

\* Committing ins[p] records each of its migrations.
LEMMA StoredIsRecorded ==
    ASSUME TypeOK, InsBehind, NEW p \in Runner, rows' = Stored(ins[p]),
           NEW m \in ins[p]
    PROVE  Recorded(m)'
<1>1. m \in Migration /\ ins[p] \in SUBSET Migration  BY DEF TypeOK
<1>2. VersionOf[m] \in Versions  BY <1>1 DEF Versions
<1> DEFINE n == Stored(ins[p])[VersionOf[m]]
<1>3. n \in ins[p] /\ VersionOf[n] = VersionOf[m]
  BY <1>1, <1>2, StoredRow
<1>4. PICK i \in 1..Len(build[p]) : build[p][i] = m  BY DEF InsBehind
<1>5. PICK j \in 1..Len(build[p]) : build[p][j] = n  BY <1>3 DEF InsBehind
<1>6. build[p] \in Builds /\ VersionOf[m] \in Nat
  BY <1>4, BuildType
<1>7. i = j
  <2>1. i < j => VersionOf[build[p][i]] < VersionOf[build[p][j]]
    BY <1>6, BuildAssumption
  <2>2. j < i => VersionOf[build[p][j]] < VersionOf[build[p][i]]
    BY <1>6, BuildAssumption
  <2>3. ~(VersionOf[m] < VersionOf[m])  BY <1>6
  <2> HIDE DEF n
  <2> QED  BY <1>3, <1>4, <1>5, <2>1, <2>2, <2>3
<1>8. n = m  BY <1>4, <1>5, <1>7
<1> QED  BY <1>8 DEF Recorded

\* What is recorded stays recorded.
LEMMA RecordedStays ==
    ASSUME TypeInv, UncommittedRows, [Next]_vars,
           NEW m \in Migration, Recorded(m)
    PROVE  Recorded(m)'
<1>1. VersionOf[m] \in Versions  BY DEF Versions
<1>2. rows[VersionOf[m]] # None  BY ConstantAssumption DEF Recorded
<1> QED  BY <1>1, <1>2, RowsKept DEF Recorded

\* What SELECT MAX(version) lets the loop skip is recorded.
LEMMA SkippedIsRecorded ==
    ASSUME TypeOK, Linear, NoGaps, RowsFromBuilds,
           NEW p \in Runner, NEW i \in 1..Len(build[p]),
           VersionOf[build[p][i]] <= MaxRecorded
    PROVE  Recorded(build[p][i])
<1> DEFINE R == {v \in Versions : rows[v] # None}
           Decodes(v) == v <= I32Max /\ \A w \in R : w <= v
<1>1. /\ build[p] \in Builds /\ VersionOf[build[p][i]] \in Nat \ {0}
  BY BuildType
<1>2. MaxRecorded \in R
  <2>1. MaxRecorded # 0  BY <1>1
  <2>2. CASE \E v \in R : Decodes(v)  BY <2>2 DEF MaxRecorded
  <2>3. CASE ~\E v \in R : Decodes(v)  BY <2>1, <2>3 DEF MaxRecorded
  <2> QED  BY <2>2, <2>3
<1>3. PICK b \in Builds : \E j \in 1..Len(b) :
         b[j] = rows[MaxRecorded] /\ VersionOf[b[j]] = MaxRecorded
  BY <1>2 DEF RowsFromBuilds
<1>4. PICK j \in 1..Len(b) :
         b[j] = rows[MaxRecorded] /\ VersionOf[b[j]] = MaxRecorded
  BY <1>3
<1>5. i <= j /\ i \in 1..Len(b) /\ build[p][i] = b[i]
  BY <1>1, <1>4, OneHistory
<1>6. Recorded(b[j])  BY <1>4 DEF Recorded
<1>7. CASE i = j  BY <1>5, <1>6, <1>7
<1>8. CASE i # j
  <2>1. i < j  BY <1>5, <1>8
  <2> QED  BY <1>5, <1>6, <2>1 DEF NoGaps
<1> QED  BY <1>7, <1>8
LEMMA HistoryInit ==
    Init => InsBehind /\ LoopPassed /\ RowsFromBuilds /\ HistoryIsComplete
<1> SUFFICES ASSUME Init
             PROVE  InsBehind /\ LoopPassed /\ RowsFromBuilds
                    /\ HistoryIsComplete
  OBVIOUS
<1>1. InsBehind  BY DEF Init, InsBehind
<1>2. LoopPassed  BY DEF Init, LoopPassed, PassedRecorded
<1>3. RowsFromBuilds  BY DEF Init, RowsFromBuilds
<1>4. DoneIsUpToDate  BY DEF Init, DoneIsUpToDate
<1>5. NoGaps
  <2> SUFFICES ASSUME NEW b \in Builds, NEW j \in 1..Len(b), Recorded(b[j])
               PROVE  FALSE
    BY DEF NoGaps
  <2>1. b \in Seq(Migration)  BY BuildAssumption
  <2>2. b[j] \in Migration  BY <2>1
  <2>3. VersionOf[b[j]] \in Versions  BY <2>2 DEF Versions
  <2> QED  BY <2>2, <2>3, ConstantAssumption DEF Init, Recorded
<1> QED  BY <1>1, <1>2, <1>3, <1>4, <1>5 DEF HistoryIsComplete

\* The uncommitted rows of every process lie behind its loop, on MySQL too.
LEMMA InsBehindStep ==
    TypeInv /\ UncommittedRows /\ InsBehind /\ [Next]_vars => InsBehind'
<1> SUFFICES ASSUME TypeInv, UncommittedRows, InsBehind, [Next]_vars
             PROVE  InsBehind'
  OBVIOUS
<1> USE DEF Goto
<1>0. TypeOK  BY DEF TypeInv
<1>1. ASSUME NEW p \in Runner, ins'[p] = {},
             \A q \in Runner \ {p} :
                ins'[q] = ins[q] /\ build'[q] = build[q] /\ at'[q] = at[q]
      PROVE  InsBehind'
  BY <1>1 DEF InsBehind
<1>2. ASSUME NEW p \in Runner,
             \/ CreateVersionTable(p) \/ AlterVersionTable(p)
             \/ Begin(p) \/ ReadMax(p) \/ ReadIds(p) \/ Start(p)
      PROVE  InsBehind'
  <2> USE DEF CreateVersionTable, AlterVersionTable, Begin, ReadMax, ReadIds,
              Start
  <2>1. pc[p] \notin {"loop", "exec", "commit"}
    BY <1>0, <1>2 DEF Running, TypeOK
  <2>2. ins'[p] = {}  BY <1>2, <2>1 DEF UncommittedRows
  <2>3. \A q \in Runner \ {p} :
           ins'[q] = ins[q] /\ build'[q] = build[q] /\ at'[q] = at[q]
    BY <1>0, <1>2 DEF TypeOK
  <2> QED  BY <1>1, <2>2, <2>3
<1>3. ASSUME NEW p \in Runner,
             LoopEnds(p) \/ EnterMigration(p) \/ ExecStmt(p)
      PROVE  InsBehind'
  BY <1>3 DEF LoopEnds, EnterMigration, ExecStmt, InsBehind
<1>4. ASSUME NEW p \in Runner, SkipMigration(p) \/ InsertVersion(p)
      PROVE  InsBehind'
  <2> USE DEF SkipMigration, InsertVersion
  <2>1. /\ UNCHANGED build /\ at[p] \in Nat \ {0} /\ at'[p] = at[p] + 1
        /\ \A q \in Runner \ {p} : ins'[q] = ins[q] /\ at'[q] = at[q]
    BY <1>0, <1>4 DEF TypeOK
  <2>2. \A m \in ins'[p] :
           m \in ins[p] \/ (InsertVersion(p) /\ m = Current(p))
    BY <1>0, <1>4 DEF TypeOK
  <2> SUFFICES ASSUME NEW q \in Runner, NEW m \in ins'[q]
               PROVE  \E i \in 1..Len(build[q]) :
                         i < at'[q] /\ build[q][i] = m
    BY <2>1 DEF InsBehind
  <2>3. CASE m \in ins[q]
    <3>1. PICK i \in 1..Len(build[q]) : i < at[q] /\ build[q][i] = m
      BY <2>3 DEF InsBehind
    <3>2. at[q] \in Nat /\ (at'[q] = at[q] \/ at'[q] = at[q] + 1)
      BY <1>0, <2>1 DEF TypeOK
    <3>3. i < at'[q]  BY <3>1, <3>2
    <3> QED  BY <3>1, <3>3
  <2>4. CASE q = p /\ InsertVersion(p) /\ m = Current(p)
    <3>1. at[p] \in 1..Len(build[p])  BY <2>4, CurrentMigration
    <3>2. at[p] < at'[p]  BY <2>1
    <3> QED  BY <2>4, <3>1, <3>2 DEF Current
  <2> QED  BY <2>1, <2>2, <2>3, <2>4
<1>5. ASSUME NEW p \in Runner,
             \/ ExecAutocommit(p) \/ InsertAutocommit(p)
             \/ Commit(p) \/ CommitUnacknowledged(p)
             \/ ReportMismatch(p) \/ RejectStmt(p) \/ RejectVersion(p) \/ Fail(p)
      PROVE  InsBehind'
  <2> USE DEF ExecAutocommit, InsertAutocommit, Commit, CommitUnacknowledged,
              DbCommit, ReportMismatch, RejectStmt, RejectVersion, Fail, Drop
  <2>1. ins'[p] = {}
    <3>1. CASE InsertAutocommit(p)  BY <3>1 DEF UncommittedRows
    <3>2. CASE ~InsertAutocommit(p)  BY <1>0, <1>5, <3>2 DEF TypeOK
    <3> QED  BY <3>1, <3>2
  <2>2. \A q \in Runner \ {p} :
           ins'[q] = ins[q] /\ build'[q] = build[q] /\ at'[q] = at[q]
    BY <1>0, <1>5 DEF TypeOK
  <2> QED  BY <1>1, <2>1, <2>2
<1>6. ASSUME UNCHANGED vars PROVE InsBehind'  BY <1>6 DEF vars, InsBehind
<1> QED
  BY <1>2, <1>3, <1>4, <1>5, <1>6 DEF Next, RunnerStep

\* The rows a step may store: none, those of an open transaction, or the one
\* of the current migration.
LEMMA RowsStep ==
    ASSUME [Next]_vars
    PROVE  \/ rows' = rows
           \/ \E p \in Runner : rows' = Stored(ins[p])
           \/ \E p \in Runner : InsertAutocommit(p)
  BY DEF Next, RunnerStep, vars, Start, CreateVersionTable, AlterVersionTable,
         Begin, ReadMax, ReadIds, LoopEnds, SkipMigration, EnterMigration,
         ReportMismatch, ExecStmt, ExecAutocommit, RejectStmt, InsertVersion,
         RejectVersion, Commit, CommitUnacknowledged, DbCommit, Fail, Drop

\* A newly recorded migration belongs to a build of which everything before
\* it is recorded as well.
LEMMA NewlyRecorded ==
    ASSUME TypeInv, UncommittedRows, InsBehind, LoopPassed, [Next]_vars,
           NEW m \in Migration, Recorded(m)', ~Recorded(m)
    PROVE  \E b \in Builds : \E j \in 1..Len(b) :
              b[j] = m /\ \A i \in 1..Len(b) : i < j => Recorded(b[i])'
<1>0. TypeOK /\ VersionOf[m] \in Versions  BY DEF TypeInv, Versions
<1>1. ASSUME NEW p \in Runner, NEW j \in 1..Len(build[p]), build[p][j] = m,
             j <= at[p], pc[p] \in {"loop", "exec", "commit"},
             \A n \in ins[p] : Recorded(n)'
      PROVE  \E b \in Builds : \E k \in 1..Len(b) :
                b[k] = m /\ \A i \in 1..Len(b) : i < k => Recorded(b[i])'
  <2>1. build[p] \in Builds  BY <1>0, BuildType
  <2> PICK b \in Builds : b = build[p]  BY <2>1
  <2>2. ASSUME NEW i \in 1..Len(b), i < j PROVE Recorded(b[i])'
    <3>1. i < at[p]  BY <1>0, <1>1, <2>2 DEF TypeOK
    <3>2. Recorded(b[i]) \/ b[i] \in ins[p]
      BY <1>1, <3>1 DEF LoopPassed, PassedRecorded
    <3>3. b[i] \in Migration  BY <1>0, BuildType
    <3> QED  BY <1>1, <3>2, <3>3, RecordedStays
  <2> QED  BY <1>1, <2>2
<1>2. CASE rows' = rows  BY <1>2 DEF Recorded
<1>3. ASSUME NEW p \in Runner, rows' = Stored(ins[p])
      PROVE  \E b \in Builds : \E j \in 1..Len(b) :
                b[j] = m /\ \A i \in 1..Len(b) : i < j => Recorded(b[i])'
  <2>1. ins[p] \in SUBSET Migration  BY <1>0 DEF TypeOK
  <2>2. m \in ins[p]  BY <1>0, <1>3, <2>1, StoredRow DEF Recorded
  <2>3. PICK j \in 1..Len(build[p]) : j < at[p] /\ build[p][j] = m
    BY <2>2 DEF InsBehind
  <2>4. pc[p] \in {"loop", "exec", "commit"}  BY <2>2 DEF UncommittedRows
  <2>5. \A n \in ins[p] : Recorded(n)'  BY <1>0, <1>3, StoredIsRecorded
  <2>6. j <= at[p]  BY <1>0, <2>3 DEF TypeOK
  <2> QED  BY <1>1, <2>3, <2>4, <2>5, <2>6
<1>4. ASSUME NEW p \in Runner, InsertAutocommit(p)
      PROVE  \E b \in Builds : \E j \in 1..Len(b) :
                b[j] = m /\ \A i \in 1..Len(b) : i < j => Recorded(b[i])'
  <2>1. /\ at[p] \in 1..Len(build[p]) /\ Current(p) \in Migration
        /\ rows' = Stored({Current(p)}) /\ ins[p] = {} /\ pc[p] = "exec"
    BY <1>4, CurrentMigration DEF InsertAutocommit, UncommittedRows
  <2>2. m = build[p][at[p]]  BY <1>0, <2>1, StoredRow DEF Recorded, Current
  <2>3. at[p] <= at[p]  BY <2>1
  <2> QED  BY <1>1, <2>1, <2>2, <2>3
<1> QED  BY <1>2, <1>3, <1>4, RowsStep
LEMMA RowsFromBuildsStep ==
    ASSUME TypeInv, UncommittedRows, InsBehind, LoopPassed, RowsFromBuilds,
           [Next]_vars
    PROVE  RowsFromBuilds'
<1>0. TypeOK /\ TypeOK'  BY TypeInvStep DEF TypeInv
<1> SUFFICES ASSUME NEW v \in Versions, rows'[v] # None
             PROVE  \E b \in Builds : \E i \in 1..Len(b) :
                       b[i] = rows'[v] /\ VersionOf[b[i]] = v
  BY DEF RowsFromBuilds
<1>1. CASE rows[v] # None
  <2>1. rows'[v] = rows[v]  BY <1>1, RowsKept
  <2> QED  BY <1>1, <2>1 DEF RowsFromBuilds
<1>2. CASE rows[v] = None
  <2> PICK m \in Migration : m = rows'[v]  BY <1>0 DEF TypeOK
  <2>1. VersionOf[m] = v
    <3>1. CASE rows' = rows  BY <1>2, <3>1
    <3>2. ASSUME NEW p \in Runner, rows' = Stored(ins[p])
          PROVE  VersionOf[m] = v
      <4>1. ins[p] \in SUBSET Migration  BY <1>0 DEF TypeOK
      <4> QED  BY <1>2, <3>2, <4>1, StoredRow
    <3>3. ASSUME NEW p \in Runner, InsertAutocommit(p)
          PROVE  VersionOf[m] = v
      <4>1. Current(p) \in Migration /\ rows' = Stored({Current(p)})
        BY <3>3, CurrentMigration DEF InsertAutocommit
      <4> QED  BY <1>2, <4>1, StoredRow
    <3> QED  BY <3>1, <3>2, <3>3, RowsStep
  <2>2. Recorded(m)' /\ ~Recorded(m)
    BY <1>2, <2>1, ConstantAssumption DEF Recorded
  <2>3. PICK b \in Builds : \E j \in 1..Len(b) : b[j] = m
    BY <2>2, NewlyRecorded
  <2> QED  BY <2>1, <2>3
<1> QED  BY <1>1, <1>2

LEMMA NoGapsStep ==
    ASSUME TypeInv, UncommittedRows, Linear, InsBehind, LoopPassed, NoGaps,
           [Next]_vars
    PROVE  NoGaps'
<1> SUFFICES ASSUME NEW b \in Builds, NEW i \in 1..Len(b), NEW j \in 1..Len(b),
                    i < j, Recorded(b[j])'
             PROVE  Recorded(b[i])'
  BY DEF NoGaps
<1>0. b \in Seq(Migration)  BY BuildAssumption
<1>1. b[i] \in Migration /\ b[j] \in Migration  BY <1>0
<1>2. CASE Recorded(b[j])
  <2>1. Recorded(b[i])  BY <1>2 DEF NoGaps
  <2> QED  BY <1>1, <2>1, RecordedStays
<1>3. CASE ~Recorded(b[j])
  <2>1. PICK c \in Builds : \E k \in 1..Len(c) :
           c[k] = b[j] /\ \A l \in 1..Len(c) : l < k => Recorded(c[l])'
    BY <1>1, <1>3, NewlyRecorded
  <2>2. PICK k \in 1..Len(c) :
           c[k] = b[j] /\ \A l \in 1..Len(c) : l < k => Recorded(c[l])'
    BY <2>1
  <2>3. VersionOf[b[i]] \in Nat /\ VersionOf[b[j]] \in Nat
    BY <1>1, BuildAssumption
  <2>4. j <= k
    <3>1. VersionOf[b[j]] <= VersionOf[c[k]]  BY <2>2, <2>3
    <3> QED  BY <3>1, OneHistory
  <2>5. VersionOf[b[i]] <= VersionOf[c[k]]
    <3>1. VersionOf[b[i]] < VersionOf[b[j]]  BY BuildAssumption
    <3> QED  BY <2>2, <2>3, <3>1
  <2>6. i \in 1..Len(c) /\ b[i] = c[i]  BY <2>5, OneHistory
  <2>7. i < k  BY <2>4
  <2> QED  BY <2>2, <2>6, <2>7
<1> QED  BY <1>2, <1>3

\* A process that another one's step does not move keeps what it passed.
LEMMA OthersPassed ==
    ASSUME TypeInv, UncommittedRows, LoopPassed, [Next]_vars,
           NEW q \in Runner,
           /\ pc'[q] = pc[q] /\ build'[q] = build[q] /\ at'[q] = at[q]
           /\ seen'[q] = seen[q] /\ ins'[q] = ins[q]
    PROVE  PassedRecorded(q)'
<1>0. TypeOK /\ PassedRecorded(q)  BY DEF TypeInv, LoopPassed
<1>1. ASSUME NEW i \in 1..Len(build[q]), Recorded(build[q][i])
      PROVE  Recorded(build[q][i])'
  <2> PICK m \in Migration : m = build[q][i]  BY <1>0, BuildType
  <2>1. Recorded(m)'  BY <1>1, RecordedStays
  <2> QED  BY <2>1
<1> QED  BY <1>0, <1>1 DEF PassedRecorded
LEMMA LoopPassedStep ==
    ASSUME TypeInv, UncommittedRows, Linear, InsBehind, LoopPassed,
           RowsFromBuilds, NoGaps, [Next]_vars
    PROVE  LoopPassed'
<1> USE DEF Goto
<1>0. TypeOK  BY DEF TypeInv
<1>1. ASSUME NEW p \in Runner, PassedRecorded(p)',
             \A q \in Runner \ {p} :
                /\ pc'[q] = pc[q] /\ build'[q] = build[q] /\ at'[q] = at[q]
                /\ seen'[q] = seen[q] /\ ins'[q] = ins[q]
      PROVE  LoopPassed'
  <2>1. \A q \in Runner \ {p} : PassedRecorded(q)'  BY <1>1, OthersPassed
  <2> QED  BY <1>1, <2>1 DEF LoopPassed
<1>2. \A m \in Migration : Recorded(m) => Recorded(m)'  BY RecordedStays
<1>3. ASSUME NEW p \in Runner,
             CreateVersionTable(p) \/ AlterVersionTable(p) \/ Begin(p) \/ Start(p)
      PROVE  LoopPassed'
  <2> USE DEF CreateVersionTable, AlterVersionTable, Begin, Start
  <2>1. pc'[p] \in {"create", "alter", "begin", "max"}
    BY <1>0, <1>3 DEF TypeOK
  <2>2. PassedRecorded(p)'  BY <2>1 DEF PassedRecorded
  <2> QED  BY <1>0, <1>1, <1>3, <2>2 DEF TypeOK
<1>4. ASSUME NEW p \in Runner, ReadMax(p) PROVE LoopPassed'
  <2> USE DEF ReadMax
  <2>1. /\ pc'[p] = "ids" /\ seen'[p] = MaxRecorded
        /\ UNCHANGED <<rows, build>>
    BY <1>0, <1>4 DEF TypeOK
  <2>2. \A i \in 1..Len(build[p]) :
           VersionOf[build[p][i]] <= MaxRecorded => Recorded(build[p][i])
    BY <1>0, SkippedIsRecorded
  <2>3. PassedRecorded(p)'  BY <2>1, <2>2 DEF PassedRecorded, Recorded
  <2> QED  BY <1>0, <1>1, <1>4, <2>3 DEF TypeOK
<1>5. ASSUME NEW p \in Runner, ReadIds(p) PROVE LoopPassed'
  <2> USE DEF ReadIds
  <2>1. /\ pc[p] = "ids" /\ pc'[p] = "loop" /\ at'[p] = 1
        /\ UNCHANGED <<rows, build, seen>>
    BY <1>0, <1>5 DEF TypeOK
  <2>2. PassedRecorded(p)'
    BY <2>1 DEF LoopPassed, PassedRecorded, Recorded
  <2> QED  BY <1>0, <1>1, <1>5, <2>2 DEF TypeOK
<1>6. ASSUME NEW p \in Runner, LoopEnds(p) \/ EnterMigration(p) \/ ExecStmt(p)
      PROVE  LoopPassed'
  <2> USE DEF LoopEnds, EnterMigration, ExecStmt
  <2>1. /\ pc[p] \in {"loop", "exec"} /\ pc'[p] \in {"exec", "commit"}
        /\ pc'[p] = "commit" => at[p] > Len(build[p])
        /\ UNCHANGED <<rows, build, seen, at, ins>>
        /\ \A q \in Runner \ {p} : pc'[q] = pc[q]
    BY <1>0, <1>6 DEF TypeOK
  <2>2. PassedRecorded(p)'
    BY <2>1 DEF LoopPassed, PassedRecorded, Recorded
  <2> QED  BY <1>1, <2>1, <2>2
<1>7. ASSUME NEW p \in Runner,
             SkipMigration(p) \/ InsertVersion(p) \/ InsertAutocommit(p)
      PROVE  LoopPassed'
  <2> USE DEF SkipMigration, InsertVersion, InsertAutocommit
  <2>1. /\ pc[p] \in {"loop", "exec"} /\ pc'[p] = "loop"
        /\ at[p] \in Nat \ {0} /\ at'[p] = at[p] + 1
        /\ UNCHANGED <<build, seen>> /\ ins[p] \subseteq ins'[p]
        /\ \A q \in Runner \ {p} :
              pc'[q] = pc[q] /\ at'[q] = at[q] /\ ins'[q] = ins[q]
    BY <1>0, <1>7 DEF TypeOK
  <2>2. /\ at[p] \in 1..Len(build[p])
    <3>1. at[p] <= Len(build[p])  BY <1>7 DEF TypeInv, LoopInBounds
    <3>2. build[p] \in Builds \cup {<<>>}  BY <1>0 DEF TypeOK
    <3>3. Len(build[p]) \in Nat  BY <3>2, BuildAssumption
    <3> QED  BY <2>1, <3>1, <3>3
  <2> PICK c \in Migration : c = build[p][at[p]]  BY <1>0, <2>2, BuildType
  <2>3. Recorded(c)' \/ c \in ins'[p]
    <3>1. CASE SkipMigration(p)
      <4>1. VersionOf[c] <= seen[p]
        BY <1>0, <2>2, <3>1, BuildType DEF Skips, Current, TypeOK
      <4>2. Recorded(c)
        BY <2>1, <2>2, <4>1 DEF LoopPassed, PassedRecorded
      <4> QED  BY <1>2, <4>2
    <3>2. CASE InsertVersion(p)  BY <1>0, <3>2 DEF TypeOK, Current
    <3>3. CASE InsertAutocommit(p)
      <4>1. rows' = Stored({c}) /\ VersionOf[c] \in Versions
        BY <3>3 DEF Current, Versions
      <4>2. {c} \in SUBSET Migration  OBVIOUS
      <4>3. Stored({c})[VersionOf[c]] \in {c}  BY <4>1, <4>2, StoredRow
      <4> QED  BY <4>1, <4>3 DEF Recorded
    <3> QED  BY <1>7, <3>1, <3>2, <3>3
  <2>4. ASSUME NEW i \in 1..Len(build[p]), i < at[p] + 1
        PROVE  Recorded(build[p][i])' \/ build[p][i] \in ins'[p]
    <3>1. CASE i = at[p]
      BY <2>1, <2>3, <3>1 DEF Recorded
    <3>2. CASE i < at[p]
      <4> PICK m \in Migration : m = build[p][i]  BY <1>0, BuildType
      <4>1. Recorded(m) \/ m \in ins[p]
        BY <2>1, <3>2 DEF LoopPassed, PassedRecorded
      <4>2. Recorded(m)' \/ m \in ins'[p]  BY <1>2, <2>1, <4>1
      <4> QED  BY <2>1, <4>2 DEF Recorded
    <3> QED  BY <2>1, <2>4, <3>1, <3>2
  <2>5. ASSUME NEW i \in 1..Len(build[p]), VersionOf[build[p][i]] <= seen[p]
        PROVE  Recorded(build[p][i])'
    <3> PICK m \in Migration : m = build[p][i]  BY <1>0, BuildType
    <3>1. Recorded(m)  BY <2>1, <2>5 DEF LoopPassed, PassedRecorded
    <3>2. Recorded(m)'  BY <1>2, <3>1
    <3> QED  BY <2>1, <3>2 DEF Recorded
  <2>6. PassedRecorded(p)'
    BY <2>1, <2>4, <2>5 DEF PassedRecorded, Recorded
  <2> QED  BY <1>1, <2>1, <2>6
<1>8. ASSUME NEW p \in Runner, ExecAutocommit(p) PROVE LoopPassed'
  <2> USE DEF ExecAutocommit
  <2>1. /\ pc[p] = "exec" /\ UNCHANGED <<pc, build, seen, at>>
        /\ rows' = Stored(ins[p])
        /\ \A q \in Runner \ {p} : ins'[q] = ins[q]
    BY <1>0, <1>8 DEF TypeOK
  <2>2. ASSUME NEW i \in 1..Len(build[p]),
               Recorded(build[p][i]) \/ build[p][i] \in ins[p]
        PROVE  Recorded(build[p][i])'
    <3> PICK m \in Migration : m = build[p][i]  BY <1>0, BuildType
    <3>1. Recorded(m)'  BY <1>0, <1>2, <2>1, <2>2, StoredIsRecorded
    <3> QED  BY <2>1, <3>1 DEF Recorded
  <2>3. PassedRecorded(p)'
    BY <2>1, <2>2 DEF LoopPassed, PassedRecorded, Recorded
  <2> QED  BY <1>1, <2>1, <2>3
<1>9. ASSUME NEW p \in Runner,
             \/ ReportMismatch(p) \/ RejectStmt(p) \/ RejectVersion(p) \/ Fail(p)
             \/ Commit(p) \/ CommitUnacknowledged(p)
      PROVE  LoopPassed'
  <2>1. /\ pc'[p] \in {"done", "failed"} /\ UNCHANGED <<build, seen, at>>
        /\ \A q \in Runner \ {p} : pc'[q] = pc[q] /\ ins'[q] = ins[q]
    BY <1>0, <1>9
    DEF ReportMismatch, RejectStmt, RejectVersion, Fail, Drop, Commit,
        CommitUnacknowledged, DbCommit, TypeOK
  <2>2. PassedRecorded(p)'  BY <2>1 DEF PassedRecorded
  <2> QED  BY <1>1, <2>1, <2>2
<1>10. ASSUME UNCHANGED vars PROVE LoopPassed'
  BY <1>10, OthersPassed DEF vars, LoopPassed
<1> QED
  BY <1>3, <1>4, <1>5, <1>6, <1>7, <1>8, <1>9, <1>10 DEF Next, RunnerStep

\* A run that ends with Ok has passed all of its build.
LEMMA DoneStep ==
    ASSUME TypeInv, UncommittedRows, InsBehind, LoopPassed, DoneIsUpToDate,
           [Next]_vars
    PROVE  DoneIsUpToDate'
<1> USE DEF Goto
<1>0. TypeOK  BY DEF TypeInv
<1> SUFFICES ASSUME NEW q \in Runner, pc'[q] = "done",
                    NEW i \in 1..Len(build'[q])
             PROVE  Recorded(build[q][i])'
  BY DEF DoneIsUpToDate
<1>1. CASE pc[q] = "done" /\ build'[q] = build[q]
  <2> PICK m \in Migration : m = build[q][i]  BY <1>0, <1>1, BuildType
  <2>1. Recorded(m)  BY <1>1 DEF DoneIsUpToDate
  <2>2. Recorded(m)'  BY <2>1, RecordedStays
  <2> QED  BY <1>1, <2>2 DEF Recorded
<1>2. CASE Commit(q)
  <2>1. /\ pc[q] = "commit" /\ build' = build /\ rows' = Stored(ins[q])
    BY <1>2 DEF Commit, DbCommit
  <2> PICK m \in Migration : m = build[q][i]  BY <1>0, <2>1, BuildType
  <2>2. i < at[q]
    <3>1. at[q] > Len(build[q])  BY <2>1 DEF LoopPassed, PassedRecorded
    <3>2. at[q] \in Nat /\ build[q] \in Seq(Migration)
      BY <1>0, <2>1, BuildType DEF TypeOK
    <3> QED  BY <2>1, <3>1, <3>2
  <2>3. Recorded(m) \/ m \in ins[q]
    BY <2>1, <2>2 DEF LoopPassed, PassedRecorded
  <2>4. Recorded(m)'  BY <1>0, <2>1, <2>3, RecordedStays, StoredIsRecorded
  <2> QED  BY <2>1, <2>4 DEF Recorded
<1>3. (pc[q] = "done" /\ build'[q] = build[q]) \/ Commit(q)
  <2>1. ASSUME NEW p \in Runner, RunnerStep(p) \/ Start(p)
               \/ CommitUnacknowledged(p) \/ Fail(p)
        PROVE  (pc[q] = "done" /\ build'[q] = build[q]) \/ Commit(q)
    <3>1. CASE q # p
      BY <1>0, <2>1, <3>1
      DEF TypeOK, RunnerStep, Start, CreateVersionTable,
          AlterVersionTable, Begin, ReadMax, ReadIds, LoopEnds, SkipMigration,
          EnterMigration, ReportMismatch, ExecStmt, ExecAutocommit, RejectStmt,
          InsertVersion, InsertAutocommit, RejectVersion, Commit,
          CommitUnacknowledged, Fail, Drop
    <3>2. CASE q = p
      BY <1>0, <2>1, <3>2
      DEF TypeOK, RunnerStep, Start, CreateVersionTable,
          AlterVersionTable, Begin, ReadMax, ReadIds, LoopEnds, SkipMigration,
          EnterMigration, ReportMismatch, ExecStmt, ExecAutocommit, RejectStmt,
          InsertVersion, InsertAutocommit, RejectVersion,
          CommitUnacknowledged, Fail, Drop
    <3> QED  BY <3>1, <3>2
  <2>2. CASE UNCHANGED vars  BY <2>2 DEF vars
  <2> QED  BY <2>1, <2>2 DEF Next
<1> QED  BY <1>1, <1>2, <1>3

LEMMA HistoryInvStep ==
    TypeInv /\ UncommittedRows /\ HistoryInv /\ [Next]_vars => HistoryInv'
<1> SUFFICES ASSUME TypeInv, UncommittedRows, HistoryInv, [Next]_vars, Linear
             PROVE  /\ InsBehind' /\ LoopPassed' /\ RowsFromBuilds'
                    /\ HistoryIsComplete'
  BY DEF HistoryInv
<1>1. /\ InsBehind /\ LoopPassed /\ RowsFromBuilds /\ DoneIsUpToDate /\ NoGaps
  BY DEF HistoryInv, HistoryIsComplete
<1>2. InsBehind'  BY <1>1, InsBehindStep
<1>3. LoopPassed'  BY <1>1, LoopPassedStep
<1>4. RowsFromBuilds'  BY <1>1, RowsFromBuildsStep
<1>5. DoneIsUpToDate'  BY <1>1, DoneStep
<1>6. NoGaps'  BY <1>1, NoGapsStep
<1> QED  BY <1>2, <1>3, <1>4, <1>5, <1>6 DEF HistoryIsComplete

\* On every backend, when the builds are releases of one history, a run that
\* returns Ok has brought the database up to its build, and no interleaving
\* of runs, failure or restart leaves a version recorded without the ones
\* before it; whatever the i32 decoder of MAX(version) makes of the versions.
THEOREM HistoryStaysComplete == Spec => [](Linear => HistoryIsComplete)
<1>1. HistoryInv => (Linear => HistoryIsComplete)  BY DEF HistoryInv
<1>2. Init => TypeInv /\ UncommittedRows /\ HistoryInv
  BY TypeInvInit, UncommittedRowsInit, HistoryInit DEF HistoryInv
<1>3. TypeInv /\ UncommittedRows /\ HistoryInv /\ [Next]_vars
        => (TypeInv /\ UncommittedRows /\ HistoryInv)'
  BY TypeInvStep, UncommittedRowsStep, HistoryInvStep
<1> QED  BY <1>1, <1>2, <1>3, PTL DEF Spec
----------------------------------------------------------------------------
(* On a transactional backend the runner implements MigrationLedger.       *)

\* What a transaction commits is exactly what the ledger calls pending: no
\* other process can have recorded anything newer in the meantime.
LEMMA CommitsPending ==
    ASSUME TypeInv, UncommittedRows, HistoryInv, Linear,
           NEW p \in Runner, pc[p] = "commit"
    PROVE  ins[p] = Ledger!Pending(build[p])
<1>0. /\ TypeOK /\ InsBehind /\ LoopPassed /\ RowsFromBuilds /\ NoGaps
  BY DEF TypeInv, HistoryInv, HistoryIsComplete
<1>1. ASSUME NEW m \in ins[p] PROVE m \in Ledger!Pending(build[p])
  <2>1. PICK i \in 1..Len(build[p]) : build[p][i] = m  BY <1>0 DEF InsBehind
  <2>2. build[p] \in Builds /\ m \in Migration /\ VersionOf[m] \in Nat
    BY <1>0, <2>1, BuildType
  <2>3. ASSUME NEW v \in Versions, rows[v] # None PROVE v < VersionOf[m]
    <3>1. PICK c \in Builds : \E j \in 1..Len(c) :
             c[j] = rows[v] /\ VersionOf[c[j]] = v
      BY <1>0, <2>3 DEF RowsFromBuilds
    <3>2. PICK j \in 1..Len(c) : c[j] = rows[v] /\ VersionOf[c[j]] = v
      BY <3>1
    <3>3. v \in Nat  BY BuildAssumption DEF Versions
    <3>4. ASSUME VersionOf[m] <= v PROVE FALSE
      <4>1. i <= j /\ i \in 1..Len(c) /\ c[i] = m
        BY <2>1, <2>2, <3>2, <3>4, OneHistory
      <4>2. Recorded(c[j])  BY <3>2 DEF Recorded
      <4>3. Recorded(m)
        <5>1. CASE i = j  BY <4>1, <4>2, <5>1
        <5>2. CASE i < j  BY <1>0, <4>1, <4>2, <5>2 DEF NoGaps
        <5> QED  BY <4>1, <5>1, <5>2
      <4>4. rows[VersionOf[m]] = None  BY DEF UncommittedRows
      <4> QED  BY <2>2, <4>3, <4>4, ConstantAssumption DEF Recorded
    <3> QED  BY <2>2, <3>3, <3>4
  <2>4. \A v \in Ledger!Versions : rows[v] # None => v < VersionOf[m]
    BY <2>3 DEF Versions, Ledger!Versions
  <2> QED  BY <2>1, <2>4 DEF Ledger!Pending
<1>2. ASSUME NEW m \in Ledger!Pending(build[p]) PROVE m \in ins[p]
  <2>1. PICK i \in 1..Len(build[p]) : m = build[p][i]
    BY DEF Ledger!Pending
  <2>2. /\ m \in Migration /\ VersionOf[m] \in Versions
        /\ VersionOf[m] \in Nat /\ build[p] \in Seq(Migration)
    BY <1>0, <2>1, BuildType
  <2>3. i < at[p]
    <3>1. at[p] > Len(build[p]) /\ at[p] \in Nat
      BY <1>0 DEF LoopPassed, PassedRecorded, TypeOK
    <3> QED  BY <2>1, <2>2, <3>1
  <2>4. Recorded(m) \/ m \in ins[p]
    BY <1>0, <2>1, <2>3 DEF LoopPassed, PassedRecorded
  <2>5. ~Recorded(m)
    <3>1. rows[VersionOf[m]] # None => VersionOf[m] < VersionOf[m]
      BY <2>2 DEF Ledger!Pending, Ledger!Versions, Versions
    <3> QED  BY <2>2, <3>1, ConstantAssumption DEF Recorded
  <2> QED  BY <2>4, <2>5
<1> QED  BY <1>1, <1>2

\* Every step of the runner is an upgrade of the ledger or leaves it alone.
LEMMA LedgerStep ==
    ASSUME TypeInv, TxnInv, UncommittedRows, HistoryInv, Linear,
           Backend # "mysql", [Next]_vars
    PROVE  [Ledger!Next]_(Ledger!ledgerVars)
<1>0. TypeOK /\ OpenTxn /\ RanMatchesIns  BY DEF TypeInv, TxnInv
<1>1. CASE UNCHANGED <<rows, times>>  BY <1>1 DEF Ledger!ledgerVars
<1>2. ASSUME NEW p \in Runner, Commit(p) \/ CommitUnacknowledged(p)
      PROVE  [Ledger!Next]_(Ledger!ledgerVars)
  <2>1. /\ pc[p] = "commit"
        /\ rows' = Stored(ins[p]) /\ times' = Effects(ran[p])
    BY <1>2 DEF Commit, CommitUnacknowledged, DbCommit
  <2>2. ins[p] = Ledger!Pending(build[p])  BY <2>1, CommitsPending
  <2>3. ASSUME NEW s \in Stmts PROVE s \in ran[p] <=> s[1] \in ins[p]
    <3>1. PICK m \in Migration : s \in StmtsOf(m)  BY DEF Stmts
    <3>2. PICK k \in 1..SizeOf[m] : s = <<m, k>>  BY <3>1, StmtsOfMember
    <3> QED  BY <1>0, <2>1, <3>2 DEF RanMatchesIns
  <2>4. CASE ins[p] = {}
    <3>1. rows' = rows
      <4>1. rows = [v \in Versions |-> rows[v]]  BY <1>0 DEF TypeOK
      <4> QED  BY <2>1, <2>4, <4>1 DEF Stored
    <3>2. times' = times
      <4>1. times = [s \in Stmts |-> times[s]]  BY <1>0 DEF TypeOK
      <4>2. \A s \in Stmts : s \notin ran[p]  BY <2>3, <2>4
      <4> QED  BY <2>1, <4>1, <4>2 DEF Effects
    <3> QED  BY <3>1, <3>2 DEF Ledger!ledgerVars
  <2>5. CASE ins[p] # {}
    <3>1. build[p] \in Builds
      <4>1. PICK m \in ins[p] : TRUE  BY <2>5
      <4>2. PICK i \in 1..Len(build[p]) : build[p][i] = m
        BY DEF HistoryInv, InsBehind
      <4> QED  BY <1>0, <4>2, BuildType
    <3>2. /\ Ledger!Versions = Versions /\ Ledger!Stmts = Stmts
      BY DEF Ledger!Versions, Versions, Ledger!Stmts, Stmts, Ledger!StmtsOf,
             StmtsOf
    <3>3. times' = [s \in Stmts |->
                      IF s[1] \in ins[p] THEN times[s] + 1 ELSE times[s]]
      BY <2>1, <2>3 DEF Effects
    <3>4. Ledger!Upgrade(build[p])
      BY <2>1, <2>2, <2>5, <3>2, <3>3 DEF Ledger!Upgrade, Stored
    <3> QED  BY <3>1, <3>4 DEF Ledger!Next
  <2> QED  BY <2>4, <2>5
<1>3. ASSUME NEW p \in Runner, ExecAutocommit(p) \/ InsertAutocommit(p)
      PROVE  FALSE
  BY <1>0, <1>3
  DEF ExecAutocommit, InsertAutocommit, CommitsAtOnce, OpenTxn, TxnStates
<1>4. \/ UNCHANGED <<rows, times>>
      \/ \E p \in Runner :
            \/ ExecAutocommit(p) \/ InsertAutocommit(p)
            \/ Commit(p) \/ CommitUnacknowledged(p)
  BY DEF Next, RunnerStep, vars, Start, CreateVersionTable, AlterVersionTable,
         Begin, ReadMax, ReadIds, LoopEnds, SkipMigration, EnterMigration,
         ReportMismatch, ExecStmt, RejectStmt, InsertVersion, RejectVersion,
         Fail, Drop
<1> QED  BY <1>1, <1>2, <1>3, <1>4

\* On PostgreSQL and SQLite, when the builds are releases of one history, the
\* runner implements MigrationLedger: to the application every run looks like
\* one indivisible upgrade of everything above the newest recorded version.
THEOREM RunnerImplementsLedger ==
    ASSUME Linear, Backend # "mysql" PROVE Spec => ImplementsLedger
<1> DEFINE Inv == TypeInv /\ TxnInv /\ UncommittedRows /\ HistoryInv
<1>1. Init => Ledger!Init
  BY DEF Init, Ledger!Init, Ledger!Versions, Versions, Ledger!Stmts, Stmts,
         Ledger!StmtsOf, StmtsOf
<1>2. Init => Inv
  BY TypeInvInit, TxnInvInit, UncommittedRowsInit, HistoryInit DEF HistoryInv
<1>3. Inv /\ [Next]_vars => Inv'
  BY TypeInvStep, TxnInvStep, UncommittedRowsStep, HistoryInvStep
<1>4. Inv /\ [Next]_vars => [Ledger!Next]_(Ledger!ledgerVars)
  BY LedgerStep
<1> QED
  BY <1>1, <1>2, <1>3, <1>4, PTL DEF Spec, ImplementsLedger, Ledger!Spec
=============================================================================
