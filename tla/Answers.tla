------------------------------ MODULE Answers -------------------------------
(***************************************************************************)
(* What the `vespertide revision` command makes of a plan before it writes *)
(* it: tables that are recreated, and the answers to its questions about   *)
(* strategies, key types and fill values: crates/vespertide-cli/src/       *)
(* commands/revision.                                                      *)
(***************************************************************************)
EXTENDS Validate, DropResolution

----------------------------------------------------------------------------
(* Tables that cannot take a foreign key on a NOT NULL column without a    *)
(* default: after a confirmation they are deleted and created anew.        *)

FindRecreate(actions, schema) ==
    LET TakesForeignKey(t, c) == c \in ColumnNames(schema[t]) =>
            LET col == ColumnOf(schema[t], c)
            IN  col.nullable \/ col.default # Absent
        Needs(a) == /\ a.op = "AddConstraint" /\ a.con.kind = "fk"
                    /\ \E c \in ToSet(a.con.cols) : ~TakesForeignKey(a.table, c)
    IN  {actions[i].table : i \in {j \in DOMAIN actions : Needs(actions[j])}}

\* Mutant: the recreated tables are not deleted first.
CreateOverExisting(actions, schema) ==
    LET tables == FindRecreate(actions, schema)
    IN  IF tables = {} THEN actions
        ELSE ForEach(InOrder(tables), LAMBDA t : <<CreateTable(t, schema[t])>>)

RewriteForRecreation(actions, schema) ==
    LET tables == FindRecreate(actions, schema)
        Stays(a) == \/ a.table \notin tables
                    \/ a.op \in {"CreateTable", "DeleteTable",
                                 "RemapEnumValues"}
    IN  IF tables = {} THEN actions
        ELSE SelectSeq(actions, Stays)
             \o ForEach(InOrder(tables), LAMBDA t :
                    <<DeleteTable(t), CreateTable(t, schema[t])>>)

----------------------------------------------------------------------------
(* Answers that change the plan.                                           *)

\* Strategies for rows that a new constraint would reject, on a table and
\* columns of the baseline.  "other" stands for any but the default one; on
\* NOT NULL columns of a foreign key only that one is offered.
AsksStrategy(a, baseline) ==
    /\ a.op = "AddConstraint" /\ a.table \in DOMAIN baseline
    /\ ToSet(a.con.cols) \subseteq ColumnNames(baseline[a.table])

PrimaryKeyColumns(table) ==
    LET pks == SelectSeq(table.cons, LAMBDA c : c.kind = "pk")
        inline == SelectSeq(table.cols, LAMBDA col : col.pk # "no")
    IN  IF pks # <<>> THEN pks[1].cols
        ELSE [i \in DOMAIN inline |-> inline[i].name]

MayStamp(a, baseline) ==
    /\ AsksStrategy(a, baseline)
    /\ LET key == PrimaryKeyColumns(baseline[a.table])
       IN  \/ a.con.kind \in {"fk", "ck"}
           \/ a.con.kind = "uq" /\ Len(key) = 1
              /\ ~Contains(a.con.cols, key[1])

MustStamp(a, baseline) ==
    /\ AsksStrategy(a, baseline) /\ a.con.kind = "fk"
    /\ Some(a.con.cols, LAMBDA c :
          ~ColumnOf(baseline[a.table], c).nullable)

Stamp(actions, at) ==
    [i \in DOMAIN actions |->
        IF i \in at THEN [actions[i] EXCEPT !.con.strat = "other"]
        ELSE actions[i]]

\* find_sequence_exhaustion_risks: integers that may run out, as
\* [at, column, kind] with the index of the action.
Rank(type) == IF type.kind # "simple" THEN 0
              ELSE SelectInSeq(IntegerLabels, LAMBDA l : l = type.label)
Risky(type) == Rank(type) \in {1, 2}
KeyType(table) ==
    LET key == PrimaryKeyColumns(table)
    IN  IF Len(key) = 1 THEN ColumnOf(table, key[1]).type ELSE SimpleType("")

\* pk_type_map: the plan's tables, then those of the baseline.
ParentRank(actions, baseline, t) ==
    LET new == SelectSeq(actions, LAMBDA a : a.op = "CreateTable" /\ a.table = t
                                             /\ Rank(KeyType(a.def)) # 0)
    IN  IF new # <<>> THEN Rank(KeyType(new[Len(new)].def))
        ELSE IF t \in DOMAIN baseline THEN Rank(KeyType(baseline[t]))
        ELSE 0

IsSinglePkColumn(table, c) == PrimaryKeyColumns(table) = <<c>>
\* Of table-level keys alone.
SinglePkWithAutoIncrement(table, c) ==
    Some(table.cons, LAMBDA con :
        con.kind = "pk" /\ con.opt = "auto" /\ con.cols = <<c>>)

\* What a new table exposes: a serial key, and columns that are narrower than
\* the key they refer to.
InNewTable(actions, baseline, table, col) ==
    LET serial == SinglePkWithAutoIncrement(table, col.name)
        narrow == /\ col.fk # Absent
                  /\ Rank(col.type) < ParentRank(actions, baseline, col.fk[1].ref)
    IN  IF ~Risky(col.type) THEN {}
        ELSE (IF serial THEN {"primary"} ELSE {}) \cup (IF narrow THEN {"mismatch"} ELSE {})

\* What a new key exposes, of a column of the baseline.
InNewConstraint(actions, baseline, a) ==
    LET col == ColumnOf(baseline[a.table], a.con.cols[1])
        same == PrimaryKeyColumns(baseline[a.table]) = a.con.cols
    IN  IF ~(AsksStrategy(a, baseline) /\ Len(a.con.cols) = 1 /\ Risky(col.type)) THEN {}
        ELSE IF a.con.kind = "pk" /\ a.con.opt = "auto" /\ ~same THEN {"primary"}
        ELSE IF a.con.kind = "fk"
                /\ Rank(col.type) < ParentRank(actions, baseline, a.con.ref[1])
        THEN {"mismatch"}
        ELSE {}

NarrowsKey(baseline, a) ==
    /\ a.op = "ModifyColumn" /\ a.change[1] = "type"
    /\ HasColumn(baseline, a.table, a.column)
    /\ Rank(ColumnOf(baseline[a.table], a.column).type) = 3
    /\ Risky(a.change[2])
    /\ IsSinglePkColumn(baseline[a.table], a.column)

FindSequenceExhaustionRisks(actions, baseline) ==
    LET Risks(i, column, kinds) ==
            {[at |-> i, column |-> column, kind |-> k] : k \in kinds}
        Of(i) ==
            LET a == actions[i]
            IN  CASE a.op = "CreateTable" ->
                        UNION {Risks(i, c, InNewTable(actions, baseline, a.def,
                                                      ColumnOf(a.def, c)))
                                  : c \in ColumnNames(a.def)}
                  [] a.op = "AddConstraint" /\ a.con.cols # <<>> ->
                        Risks(i, a.con.cols[1], InNewConstraint(actions, baseline, a))
                  [] NarrowsKey(baseline, a) -> Risks(i, a.column, {"narrowing"})
                  [] OTHER -> {}
    IN  UNION {Of(i) : i \in DOMAIN actions}

\* warning_is_mutable: the columns that the prompt offers to make big_int, as
\* <<action index, column>>.
WidenOffers(actions, baseline) ==
    {<<r.at, r.column>> : r \in {q \in FindSequenceExhaustionRisks(actions, baseline) :
                                    q.kind \in {"primary", "narrowing"}}}

Widen(actions, at) ==
    LET BigInt == SimpleType("big_int")
        WidenTable(i, table) == [table EXCEPT !.cols = [k \in DOMAIN @ |->
            IF <<i, @[k].name>> \in at THEN [@[k] EXCEPT !.type = BigInt]
            ELSE @[k]]]
    IN  [i \in DOMAIN actions |->
            CASE actions[i].op = "CreateTable" ->
                    [actions[i] EXCEPT !.def = WidenTable(i, @)]
              [] actions[i].op = "ModifyColumn"
                 /\ <<i, actions[i].column>> \in at ->
                    [actions[i] EXCEPT !.change = <<"type", BigInt>>]
              [] OTHER -> actions[i]]

\* fill_with and delete_null_rows: fill says that one of them is set.
Fillable(a) ==
    \/ a.op = "AddColumn"
    \/ a.op = "ModifyColumn" /\ a.change[1] = "nullable"

\* apply_fill_with_to_plan and apply_delete_null_rows_to_plan for the columns
\* that the command line names, then the prompts for what is missing.  What
\* deleting names is taken off the missing (handle_delete_null_rows), an
\* AddColumn too, which has no flag for it and stays as it is.
Fill(actions, baseline, given, deleting) ==
    LET Filled(plan, at) == [i \in DOMAIN plan |->
            IF i \in at THEN [plan[i] EXCEPT !.fill = TRUE] ELSE plan[i]]
        named == Filled(Filled(actions, given),
                        {i \in deleting : SetsNotNull(actions[i])})
    IN  Filled(named, MissingFillWith(named, baseline) \ deleting)

\* find_missing_enum_fill_with: the values that a string enum loses.
RemovedValues(a, baseline) ==
    IF a.op = "ModifyColumn" /\ a.change[1] = "type"
       /\ HasColumn(baseline, a.table, a.column)
    THEN LET old == ColumnOf(baseline[a.table], a.column).type
         IN  IF old.kind = "senum" /\ a.change[2].kind = "senum"
             THEN ToSet(old.vals) \ ToSet(a.change[2].vals) ELSE {}
    ELSE {}

\* collect_enum_fill_with_values: each of them is replaced by a value of the
\* new type.
EnumMappings(a, baseline) ==
    {{<<v, f[v]>> : v \in DOMAIN f} :
        f \in [RemovedValues(a, baseline) -> ToSet(a.change[2].vals)]}

\* The plans, one for each choice.
EnumFills(actions, baseline) ==
    LET losing == {i \in DOMAIN actions : RemovedValues(actions[i], baseline) # {}}
        choices == {f \in [losing -> UNION {EnumMappings(actions[i], baseline) :
                                               i \in losing}] :
                       \A i \in losing : f[i] \in EnumMappings(actions[i], baseline)}
    IN  {[i \in DOMAIN actions |->
            IF i \in losing THEN [actions[i] EXCEPT !.mapping = f[i]]
            ELSE actions[i]] : f \in choices}

\* PlannerError: what is wrong with a plan that no answer can mend.
PlanFaults(actions, baseline) ==
    LET found == [DanglingForeignKeyAfterDrop |-> DanglingFkDrops(actions, baseline),
                  ConstraintTypeChanged |-> ConstraintTypeChanges(actions),
                  PrimaryKeyRemovedWithoutReplacement |-> PrimaryKeyRemovals(actions),
                  AddColumnWithFkRequiresNullable |->
                      AddColumnFkNullableViolations(actions)]
    IN  {fault \in DOMAIN found : found[fault]}

\* The hard errors of the command.
Refused(actions, baseline) == PlanFaults(actions, baseline) # {}
=============================================================================
