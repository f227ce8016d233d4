------------------------------- MODULE Apply -------------------------------
(***************************************************************************)
(* Replaying migration actions on a schema: crates/vespertide-planner/src/ *)
(* apply.  An operation that the planner rejects yields Err.               *)
(***************************************************************************)
EXTENDS Schema

CONSTANT Err

WithoutKey(f, k) == [x \in DOMAIN f \ {k} |-> f[x]]
WithKey(f, k, v) == [x \in DOMAIN f \cup {k} |-> IF x = k THEN v ELSE f[x]]

----------------------------------------------------------------------------
(* Actions, one constructor per MigrationAction the planner emits.         *)

Action(op, table) == [op |-> op, table |-> table]
CreateTable(t, def) == [op |-> "CreateTable", table |-> t, def |-> def]
DeleteTable(t) == Action("DeleteTable", t)
RenameTable(t, to) == [op |-> "RenameTable", table |-> t, to |-> to]
\* fill: a fill_with value is given (for a nullability change: or the rows
\* that hold NULL are deleted).
AddColumn(t, col) ==
    [op |-> "AddColumn", table |-> t, def |-> col, fill |-> FALSE]
DeleteColumn(t, c) == [op |-> "DeleteColumn", table |-> t, column |-> c]
RenameColumn(t, c, to) ==
    [op |-> "RenameColumn", table |-> t, column |-> c, to |-> to]
\* Type, nullability, default and comment changes: a field and its new value.
\* mapping is the fill_with of a type change: <<removed, replacement>> pairs.
ModifyColumn(t, c, field, value) ==
    [op |-> "ModifyColumn", table |-> t, column |-> c,
     change |-> <<field, value>>, fill |-> FALSE, mapping |-> {}]
RemapEnumValues(t, c, mapping) ==
    [op |-> "RemapEnumValues", table |-> t, column |-> c, mapping |-> mapping]
AddConstraint(t, con) == [op |-> "AddConstraint", table |-> t, con |-> con]
RemoveConstraint(t, con) ==
    [op |-> "RemoveConstraint", table |-> t, con |-> con]
ReplaceConstraint(t, from, to) ==
    [op |-> "ReplaceConstraint", table |-> t, con |-> from, to |-> to]
\* RawSql and DataMigration leave the schema snapshot alone.
OpaqueSql == Action("RawSql", "")

----------------------------------------------------------------------------
(* Tables.                                                                 *)

ApplyCreateTable(schema, a) ==
    IF a.table \in DOMAIN schema \/ NormalizeFails(a.def) THEN Err
    ELSE WithKey(schema, a.table, Normalize(a.def))

ApplyDeleteTable(schema, a) ==
    IF a.table \notin DOMAIN schema THEN Err ELSE WithoutKey(schema, a.table)

\* Table-level foreign keys follow the rename; inline ones keep the old name.
ApplyRenameTable(schema, a) ==
    IF a.to \in DOMAIN schema \/ a.table \notin DOMAIN schema THEN Err
    ELSE LET moved == WithKey(WithoutKey(schema, a.table), a.to,
                              schema[a.table])
             Retarget(c) == IF References(c, a.table)
                            THEN [c EXCEPT !.ref = <<a.to>>] ELSE c
         IN  [t \in DOMAIN moved |->
                [moved[t] EXCEPT !.cons =
                    [i \in DOMAIN @ |-> Retarget(@[i])]]]

----------------------------------------------------------------------------
(* Columns.                                                                *)

ApplyAddColumn(schema, a) ==
    IF a.table \notin DOMAIN schema THEN Err
    ELSE LET grown == [schema[a.table] EXCEPT !.cols = Append(@, a.def)]
         IN  IF a.def.name \in ColumnNames(schema[a.table])
                \/ NormalizeFails(grown)
             THEN Err
             ELSE [schema EXCEPT ![a.table] = Normalize(grown)]

HasColumn(schema, t, c) ==
    t \in DOMAIN schema /\ c \in ColumnNames(schema[t])

\* Constraints lose the column, and disappear with their last one; the
\* referenced columns of a foreign key stay.
DropColumnFromConstraints(cons, column) ==
    LET shrunk == [i \in DOMAIN cons |->
                      [cons[i] EXCEPT !.cols =
                          SelectSeq(@, LAMBDA c : c # column)]]
    IN  SelectSeq(shrunk, LAMBDA c : c.kind = "ck" \/ c.cols # <<>>)

ApplyDeleteColumn(schema, a) ==
    IF ~HasColumn(schema, a.table, a.column) THEN Err
    ELSE [schema EXCEPT
            ![a.table].cols = SelectSeq(@, LAMBDA c : c.name # a.column),
            ![a.table].cons = DropColumnFromConstraints(@, a.column)]

\* rename_column_in_constraints: within the table only, but there in
\* ref_columns too, whichever table they belong to.
RenameInConstraints(cons, from, to) ==
    LET Renamed(names) == ReplaceAll(names, from, to)
    IN  [i \in DOMAIN cons |->
            IF cons[i].kind = "ck" THEN cons[i]
            ELSE [cons[i] EXCEPT !.cols = Renamed(@), !.refCols = Renamed(@)]]

ApplyRenameColumn(schema, a) ==
    IF ~HasColumn(schema, a.table, a.column) THEN Err
    ELSE [schema EXCEPT
            ![a.table].cols = [i \in DOMAIN @ |->
                IF @[i].name = a.column
                THEN [@[i] EXCEPT !.name = a.to] ELSE @[i]],
            ![a.table].cons = RenameInConstraints(@, a.column, a.to)]

\* Mutant: ModifyColumnDefault is a no-op.
IgnoreDefaultChange(schema, a) ==
    IF ~HasColumn(schema, a.table, a.column) THEN Err
    ELSE [schema EXCEPT ![a.table].cols = [i \in DOMAIN @ |->
            IF @[i].name # a.column THEN @[i]
            ELSE [f \in DOMAIN @[i] |->
                    IF f = a.change[1] /\ f # "default" THEN a.change[2]
                    ELSE @[i][f]]]]

\* The new value of one field of a column.
ApplyModifyColumn(schema, a) ==
    IF ~HasColumn(schema, a.table, a.column) THEN Err
    ELSE [schema EXCEPT ![a.table].cols = [i \in DOMAIN @ |->
            IF @[i].name # a.column THEN @[i]
            ELSE [f \in DOMAIN @[i] |->
                    IF f = a.change[1] THEN a.change[2] ELSE @[i][f]]]]

\* mapping is a set of <<old, new>> values, one pair for each old value.
NewValue(mapping, v) ==
    IF \E p \in mapping : p[1] = v
    THEN (CHOOSE p \in mapping : p[1] = v)[2] ELSE v

RemappedValue(mapping, v) == NewValue(mapping, v)

ApplyRemapEnumValues(schema, a) ==
    IF ~HasColumn(schema, a.table, a.column) THEN Err
    ELSE LET Remapped(type) ==
                IF type.kind # "ienum" THEN type
                ELSE [type EXCEPT !.vals = [i \in DOMAIN @ |->
                                              <<@[i][1],
                                                RemappedValue(a.mapping, @[i][2])>>]]
         IN  [schema EXCEPT ![a.table].cols = [i \in DOMAIN @ |->
                IF @[i].name # a.column THEN @[i]
                ELSE [@[i] EXCEPT !.type = Remapped(@)]]]

----------------------------------------------------------------------------
(* Constraints.                                                            *)

\* build_index_name for an unnamed index on one column: the one name that is
\* made of three parts here.
AutoIndexName(t, c) == <<"ix", t, c>>

\* clear_inline_constraint_fields: forget the inline form of a constraint, or
\* the next normalisation would bring it back.
ClearUnique(col, con) ==
    IF con.name = Absent
    THEN IF con.cols = <<col.name>> THEN <<>> ELSE col.uq
    ELSE SelectSeq(col.uq, LAMBDA g : g # con.name)

ClearIndex(t, col, con) ==
    IF con.name = Absent
    THEN IF con.cols = <<col.name>> THEN <<>> ELSE col.ix
    ELSE IF con.name = AutoIndexName(t, col.name) THEN <<>>
    ELSE SelectSeq(col.ix, LAMBDA g : g # con.name)

ClearInline(t, table, con) ==
    LET Clear(col) ==
            CASE con.kind = "uq" -> [col EXCEPT !.uq = ClearUnique(col, con)]
              [] con.kind = "ix" -> [col EXCEPT !.ix = ClearIndex(t, col, con)]
              [] con.kind = "pk" /\ Contains(con.cols, col.name) ->
                    [col EXCEPT !.pk = "no"]
              [] con.kind = "fk" /\ Contains(con.cols, col.name) ->
                    [col EXCEPT !.fk = Absent]
              [] OTHER -> col
    IN  [table EXCEPT !.cols = [i \in DOMAIN @ |-> Clear(@[i])]]

ApplyAddConstraint(schema, a) ==
    IF a.table \notin DOMAIN schema THEN Err
    ELSE [schema EXCEPT ![a.table].cons =
            IF Contains(@, a.con) THEN @ ELSE Append(@, a.con)]

ApplyRemoveConstraint(schema, a) ==
    IF a.table \notin DOMAIN schema THEN Err
    ELSE LET kept == [schema[a.table] EXCEPT !.cons =
                         SelectSeq(@, LAMBDA c : c # a.con)]
         IN  [schema EXCEPT ![a.table] = ClearInline(a.table, kept, a.con)]

\* The first equal constraint is replaced where it stands.
ApplyReplaceConstraint(schema, a) ==
    IF a.table \notin DOMAIN schema THEN Err
    ELSE IF ~Contains(schema[a.table].cons, a.con) THEN Err
    ELSE LET at == SelectInSeq(schema[a.table].cons, LAMBDA c : c = a.con)
             swapped == [schema[a.table] EXCEPT !.cons[at] = a.to]
         IN  [schema EXCEPT ![a.table] = ClearInline(a.table, swapped, a.con)]

----------------------------------------------------------------------------
\* apply_action
Apply(schema, a) ==
    CASE a.op = "CreateTable" -> ApplyCreateTable(schema, a)
      [] a.op = "DeleteTable" -> ApplyDeleteTable(schema, a)
      [] a.op = "RenameTable" -> ApplyRenameTable(schema, a)
      [] a.op = "AddColumn" -> ApplyAddColumn(schema, a)
      [] a.op = "DeleteColumn" -> ApplyDeleteColumn(schema, a)
      [] a.op = "RenameColumn" -> ApplyRenameColumn(schema, a)
      [] a.op = "ModifyColumn" -> ApplyModifyColumn(schema, a)
      [] a.op = "RemapEnumValues" -> ApplyRemapEnumValues(schema, a)
      [] a.op = "AddConstraint" -> ApplyAddConstraint(schema, a)
      [] a.op = "RemoveConstraint" -> ApplyRemoveConstraint(schema, a)
      [] a.op = "ReplaceConstraint" -> ApplyReplaceConstraint(schema, a)
      [] OTHER -> schema

\* schema_from_plans stops at the first action that does not apply.
Replay(schema, actions) ==
    FoldLeft(LAMBDA s, a : IF s = Err THEN Err ELSE Apply(s, a),
             schema, actions)
=============================================================================
