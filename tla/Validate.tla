------------------------------ MODULE Validate ------------------------------
(***************************************************************************)
(* What the planner refuses: crates/vespertide-planner/src/validate.       *)
(* Schemas are checked when the models are loaded, plans while a revision  *)
(* is being written and again when a migration file is loaded.             *)
(***************************************************************************)
EXTENDS Diff

Some(seq, P(_)) == \E i \in DOMAIN seq : P(seq[i])
Every(seq, P(_)) == \A i \in DOMAIN seq : P(seq[i])

----------------------------------------------------------------------------
(* Schemas, after normalisation.  The expression checks of CHECK           *)
(* constraints, NUMERIC scales and the i32 range of enum values are left   *)
(* out.                                                                    *)

IntegerLabels == <<"small_int", "integer", "big_int">>
SupportsAutoIncrement(type) ==
    type.kind = "simple" /\ Contains(IntegerLabels, type.label)

\* contains_value; a default of an integer enum is given by variant name here.
EnumContains(type, text) == Some(type.vals, LAMBDA v : v[1] = text)

ValidColumn(col) ==
    IsEnum(col.type) =>
        /\ \A i, j \in DOMAIN col.type.vals : i # j =>
              /\ col.type.vals[i][1] # col.type.vals[j][1]
              /\ col.type.kind = "ienum" =>
                    col.type.vals[i][2] # col.type.vals[j][2]
        /\ Every(col.default, LAMBDA d : EnumContains(col.type, d.text))

ValidForeignKey(schema, c) ==
    /\ c.refCols # <<>>
    /\ c.ref[1] \in DOMAIN schema
    /\ ToSet(c.refCols) \subseteq ColumnNames(schema[c.ref[1]])
    /\ Len(c.cols) = Len(c.refCols)

ValidConstraint(schema, table, c) ==
    c.kind # "ck" =>
        /\ c.cols # <<>>
        /\ ToSet(c.cols) \subseteq ColumnNames(table)
        /\ c.kind = "fk" => ValidForeignKey(schema, c)

ValidTable(schema, table) ==
    LET pks == SelectSeq(table.cons, LAMBDA c : c.kind = "pk")
        InKey(col) == col.pk # "no"
                      \/ Some(pks, LAMBDA c : Contains(c.cols, col.name))
        Auto(col) == col.pk = "auto"
                     \/ Some(pks, LAMBDA c : c.opt = "auto"
                                             /\ Contains(c.cols, col.name))
    IN  /\ Cardinality(ColumnNames(table)) = Len(table.cols)
        /\ pks # <<>> \/ Some(table.cols, LAMBDA col : col.pk # "no")
        /\ Every(table.cols, LAMBDA col :
              /\ InKey(col) => ~col.nullable
              /\ Auto(col) => SupportsAutoIncrement(col.type)
              /\ ValidColumn(col))
        /\ Every(table.cons, LAMBDA c : ValidConstraint(schema, table, c))

ValidSchema(schema) ==
    \A t \in DOMAIN schema : ValidTable(schema, schema[t])

----------------------------------------------------------------------------
(* A migration file, as load_migration_file checks it.                     *)

SetsNotNull(a) == a.op = "ModifyColumn" /\ a.change = <<"nullable", FALSE>>

ValidAction(a) ==
    /\ a.op = "AddColumn" =>
          /\ a.def.nullable \/ a.def.default # Absent \/ a.fill
          /\ ValidColumn(a.def)
    /\ SetsNotNull(a) => a.fill

ValidMigrationPlan(actions) == Every(actions, ValidAction)

\* Mutant: only columns of the baseline are asked about.
AskForKnownColumns(actions, baseline) ==
    {i \in DOMAIN actions :
        /\ SetsNotNull(actions[i]) /\ ~actions[i].fill
        /\ HasColumn(baseline, actions[i].table, actions[i].column)
        /\ ColumnOf(baseline[actions[i].table],
                    actions[i].column).default = Absent}

\* find_missing_fill_with: the actions for which the user is asked for a
\* value.  A column that has a default in the baseline is not asked about.
MissingFillWith(actions, baseline) ==
    {i \in DOMAIN actions :
        LET a == actions[i]
        IN  /\ a.op \in {"AddColumn", "ModifyColumn"} /\ ~a.fill
            /\ \/ a.op = "AddColumn" /\ ~a.def.nullable
                  /\ a.def.default = Absent
               \/ /\ SetsNotNull(a)
                  /\ HasColumn(baseline, a.table, a.column) =>
                        ColumnOf(baseline[a.table], a.column).default = Absent}

----------------------------------------------------------------------------
(* Plans that a revision refuses.                                          *)

\* What a plan takes away: collect_drop_set, collect_explicitly_removed_fks.
DeletesTable(actions, t) ==
    Some(actions, LAMBDA a : a.op = "DeleteTable" /\ a.table = t)
DeletesColumn(actions, t, c) ==
    Some(actions, LAMBDA a : a.op = "DeleteColumn" /\ a.table = t /\ a.column = c)
RemovesForeignKey(actions, t, fk) ==
    Some(actions, LAMBDA a :
        /\ a.op \in {"RemoveConstraint", "ReplaceConstraint"}
        /\ a.table = t /\ a.con.kind = "fk"
        /\ a.con.name = fk.name /\ a.con.cols = fk.cols /\ a.con.ref = fk.ref)

\* find_dangling_fk_drops: a foreign key that survives the plan and points
\* to a table or a column that the plan deletes.
DanglingFkDrops(actions, baseline) ==
    LET Dangles(fk) == fk.kind = "fk" /\ Some(fk.refCols, LAMBDA c :
            DeletesTable(actions, fk.ref[1]) \/ DeletesColumn(actions, fk.ref[1], c))
        Survives(t, fk) ==
            /\ ~RemovesForeignKey(actions, t, fk)
            /\ ~Some(fk.cols, LAMBDA c : DeletesColumn(actions, t, c))
    IN  \/ \E t \in DOMAIN baseline :
              /\ ~DeletesTable(actions, t)
              /\ Some(baseline[t].cons, LAMBDA fk : Dangles(fk) /\ Survives(t, fk))
        \/ Some(actions, LAMBDA a :
              /\ a.op \in {"CreateTable", "AddConstraint"}
              /\ ~DeletesTable(actions, a.table)
              /\ IF a.op = "CreateTable" THEN Some(a.def.cons, Dangles)
                 ELSE Dangles(a.con))

\* find_constraint_type_changes: a key that becomes a unique constraint on
\* the same columns, or the reverse.  Of several removals (or additions) on
\* one set of columns the last counts.
ConstraintTypeChanges(actions) ==
    LET Keyed(a) == /\ a.op \in {"RemoveConstraint", "AddConstraint"}
                    /\ a.con.kind \in {"pk", "uq"}
        SameColumns(a, b) == /\ a.table = b.table
                             /\ ToSet(a.con.cols) = ToSet(b.con.cols)
        Latest(i) ==
            /\ Keyed(actions[i])
            /\ \A k \in DOMAIN actions : k > i =>
                  ~(/\ Keyed(actions[k])
                    /\ actions[k].op = actions[i].op
                    /\ SameColumns(actions[k], actions[i]))
    IN  \E i, j \in DOMAIN actions :
            /\ Latest(i) /\ Latest(j)
            /\ actions[i].op # actions[j].op
            /\ SameColumns(actions[i], actions[j])
            /\ actions[i].con.kind # actions[j].con.kind

\* find_primary_key_removals
PrimaryKeyRemovals(actions) ==
    Some(actions, LAMBDA a :
        /\ a.op = "RemoveConstraint" /\ a.con.kind = "pk"
        /\ ~Some(actions, LAMBDA b :
              /\ b.table = a.table
              /\ \/ b.op = "DeleteTable"
                 \/ b.op = "AddConstraint" /\ b.con.kind = "pk"
                 \/ b.op = "CreateTable"
                    /\ Some(b.def.cons, LAMBDA c : c.kind = "pk")))

AddsForeignKeyOn(actions, t, c) ==
    Some(actions, LAMBDA a :
        /\ a.op = "AddConstraint" /\ a.table = t
        /\ a.con.kind = "fk" /\ Contains(a.con.cols, c))

\* find_addcolumn_fk_nullable_violations
AddColumnFkNullableViolations(actions) ==
    Some(actions, LAMBDA a :
        /\ a.op = "AddColumn" /\ ~a.def.nullable
        /\ a.def.default # Absent \/ a.fill
        /\ a.def.fk # Absent
           \/ AddsForeignKeyOn(actions, a.table, a.def.name))
=============================================================================
