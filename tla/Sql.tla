-------------------------------- MODULE Sql ---------------------------------
(***************************************************************************)
(* The SQL of a migration plan: crates/vespertide-query/src.  Every action *)
(* becomes a sequence of statements for each backend, built against the    *)
(* schema that the actions before it leave.  A statement that a backend    *)
(* has no use for (RawSql::postgres_only) is not in its sequence.          *)
(***************************************************************************)
EXTENDS Answers, Database

CONSTANTS ExprColumns,  \* ExprColumns[e]: the columns a CHECK refers to
          ExprText      \* ExprText[e]: the columns whose name is in its text

ASSUME ExprAssumption ==
    /\ DOMAIN ExprColumns = DOMAIN ExprText
    /\ \A e \in DOMAIN ExprText : ExprColumns[e] \subseteq ExprText[e]

----------------------------------------------------------------------------
(* Names.  A name is the sequence of its parts.                            *)

\* build_index_name, build_unique_constraint_name, build_foreign_key_name:
\* a prefix, the table, and the given key or the sorted columns.
ConstraintName(prefix, t, con) ==
    <<prefix, t>> \o
    (IF con.name = Absent THEN InOrder(ToSet(con.cols)) ELSE con.name)
EnumTypeName(t, type) == <<"enum", t, type.label>>
TempTable(t) == t \o "_temp"
\* The name PostgreSQL gives to a primary key.
PrimaryKeyName(t) == <<"pkey", t>>

----------------------------------------------------------------------------
(* Types, columns and tables.                                              *)

\* apply_column_type_with_table.  Integer enums are integers everywhere.
SqlType(backend, t, type) ==
    CASE type.kind = "simple" -> <<type.label>>
      [] type.kind = "ienum" -> <<"integer">>
      [] backend = "postgres" -> EnumTypeName(t, type)
      [] backend = "mysql" ->
            <<"enum">> \o [i \in DOMAIN type.vals |-> type.vals[i][1]]
      [] backend = "sqlite" -> <<"text">>

\* build_sea_column_def_with_table
SqlColumn(backend, t, col) ==
    DbColumn(SqlType(backend, t, col.type), ~col.nullable,
             DefaultSql(col.default), FALSE)

ExplicitCheck(con) ==
    [name |-> con.name, expr |-> <<con.opt>>, cols |-> ExprColumns[con.opt]]
\* What a row holds for a variant of an enum: its name, or its number.
StoredValue(type, v) == IF type.kind = "senum" THEN v ELSE <<"", v[2]>>
\* build_sqlite_enum_check_clause
EnumCheck(t, col) ==
    [name |-> <<"chk", t, col.name>>,
     expr |-> <<"in", {StoredValue(col.type, v) : v \in ToSet(col.type.vals)}>>,
     cols |-> {col.name}]

OfKind(cons, kind) == SelectSeq(cons, LAMBDA c : c.kind = kind)
\* collect_sqlite_enum_check_clauses, extract_check_clauses
EnumChecks(t, cols) ==
    {EnumCheck(t, col) : col \in {c \in ToSet(cols) : IsEnum(c.type)}}
ExplicitChecks(cons) == {ExplicitCheck(c) : c \in ToSet(OfKind(cons, "ck"))}

SqlForeignKey(t, con) ==
    [name |-> ConstraintName("fk", t, con), cols |-> con.cols,
     ref |-> con.ref[1], refCols |-> con.refCols, opt |-> con.opt]
SqlIndex(t, con) ==
    [name |-> ConstraintName(con.kind, t, con), table |-> t,
     cols |-> con.cols, unique |-> con.kind = "uq"]

\* build_create_table_for_backend.  An auto_increment column of SQLite is its
\* key by itself; the clause for the whole key is left out when every column
\* of it is of that kind.
TableStatement(backend, t, cols, cons, checks) ==
    LET pks == OfKind(cons, "pk")
        inline == SelectSeq(cols, LAMBDA c : c.pk # "no" /\ pks = <<>>)
        auto == UNION {ToSet(pks[i].cols) :
                          i \in {j \in DOMAIN pks : pks[j].opt = "auto"}}
        IsAuto(col) == col.name \in auto /\ SupportsAutoIncrement(col.type)
        serial == {c \in ToSet(cols) : IsAuto(c)}
        Skipped(pk) == /\ backend = "sqlite" /\ pk.opt = "auto"
                       /\ ToSet(pk.cols) \subseteq {c.name : c \in serial}
        clauses == SelectSeq(pks, LAMBDA pk : ~Skipped(pk))
    IN  [do |-> "create table", table |-> t, indexes |->
            IF backend # "mysql" THEN {}
            ELSE {SqlIndex(t, c) : c \in ToSet(OfKind(cons, "uq"))},
         keys |-> Len(clauses) + Len(inline)
                  + (IF backend = "sqlite" THEN Cardinality(serial) ELSE 0),
         def |-> DbTable(
            [n \in {c.name : c \in ToSet(cols)} |->
                LET col == ColumnOf([cols |-> cols], n)
                IN  [SqlColumn(backend, t, col) EXCEPT !.auto = IsAuto(col)]],
            IF pks # <<>> THEN pks[1].cols
            ELSE [i \in DOMAIN inline |-> inline[i].name],
            PrimaryKeyName(t),
            {SqlForeignKey(t, c) : c \in ToSet(OfKind(cons, "fk"))},
            checks)]

CreateIndex(t, con) == [do |-> "create index", index |-> SqlIndex(t, con)]
DropIndex(t, con) ==
    [do |-> "drop index", table |-> t, name |-> ConstraintName(con.kind, t, con)]
DropTable(t) == [do |-> "drop table", table |-> t]

\* build_create_enum_type_sql: nothing for an integer enum.
CreateEnumType(backend, t, type) ==
    When(backend = "postgres" /\ type.kind = "senum",
         [do |-> "create type", name |-> EnumTypeName(t, type),
          vals |-> type.vals])
\* build_drop_enum_type_sql does not tell the two kinds of enum apart.
DropEnumType(backend, t, type) ==
    When(backend = "postgres" /\ IsEnum(type),
         [do |-> "drop type", name |-> EnumTypeName(t, type)])

\* The CHECKs among the constraints are not part of the statement.
CreateNormalized(backend, a, table) ==
    LET enums == SelectSeq(table.cols, LAMBDA c : c.type.kind = "senum")
        first == SelectSeq([i \in DOMAIN enums |-> i], LAMBDA i :
                    \A j \in 1..(i - 1) :
                        enums[j].type.label # enums[i].type.label)
        checks == IF backend = "sqlite" THEN EnumChecks(a.table, table.cols)
                  ELSE {}
        uniques == IF backend = "mysql" THEN <<>> ELSE OfKind(table.cons, "uq")
    IN  ForEach(first, LAMBDA i : CreateEnumType(backend, a.table, enums[i].type))
        \o <<TableStatement(backend, a.table, table.cols, table.cons, checks)>>
        \o ForEach(uniques \o OfKind(table.cons, "ix"),
                   LAMBDA c : <<CreateIndex(a.table, c)>>)

BuildCreateTable(backend, a) == CreateNormalized(backend, a, Normalize(a.def))

----------------------------------------------------------------------------
(* The rebuild of a SQLite table.                                          *)

\* Mutant: the indexes of the old table are gone.
RecreateNone(t, cons, pending) == <<>>

\* recreate_indexes_after_rebuild
RecreateIndexes(t, cons, pending) ==
    ForEach(SelectSeq(cons, LAMBDA c : c.kind \in {"uq", "ix"}
                                       /\ c \notin pending),
            LAMBDA c : <<CreateIndex(t, c)>>)

\* build_sqlite_temp_table_create: here the CHECKs are part of the statement.
TempTableStatement(t, cols, cons) ==
    TableStatement("sqlite", TempTable(t), cols, cons,
                   EnumChecks(t, cols) \cup ExplicitChecks(cons))

Copy(t, cols, fill) ==
    [do |-> "copy", table |-> t, to |-> TempTable(t), fill |-> fill,
     cols |-> {c.name : c \in ToSet(cols)}]

Swap(t) ==
    <<DropTable(t), [do |-> "rename table", table |-> TempTable(t), to |-> t]>>

\* Mutant: the rows are not copied.
RebuildEmpty(t, cols, cons, copied, recreate, pending) ==
    <<TempTableStatement(t, cols, cons)>> \o Swap(t)
    \o RecreateIndexes(t, recreate, pending)

\* build_sqlite_table_rebuild
Rebuild(t, cols, cons, copied, recreate, pending) ==
    <<TempTableStatement(t, cols, cons), Copy(t, copied, <<>>)>> \o Swap(t)
    \o RecreateIndexes(t, recreate, pending)

----------------------------------------------------------------------------
(* Columns.                                                                *)

BuildAddColumn(backend, a, schema, pending) ==
    LET col == a.def
        t == a.table
        def == SqlColumn(backend, t, col)
        Add(d) == [do |-> "add column", table |-> t, column |-> col.name,
                   def |-> d]
        notNull == IF backend = "postgres"
                   THEN [do |-> "alter type", table |-> t, column |-> col.name,
                         type |-> def.type, using |-> FALSE, notNull |-> TRUE]
                   ELSE [do |-> "modify column", table |-> t,
                         column |-> col.name, def |-> def]
    IN  IF backend = "sqlite" /\ (~col.nullable \/ IsEnum(col.type))
        THEN LET old == schema[t]
                 isNull == ~a.fill /\ col.default = Absent
             IN  <<TempTableStatement(t, Append(old.cols, col), old.cons),
                   Copy(t, old.cols, <<col.name, isNull>>)>> \o Swap(t)
                 \o RecreateIndexes(t, old.cons, pending)
        ELSE CreateEnumType(backend, t, col.type)
             \o IF ~col.nullable /\ col.default = Absent /\ a.fill
                THEN <<Add([def EXCEPT !.notNull = FALSE]),
                       [do |-> "fill nulls", table |-> t, column |-> col.name],
                       notNull>>
                ELSE <<Add(def)>>

\* build_direct_delete_column
DirectDeleteColumn(backend, t, column, type) ==
    <<[do |-> "drop column", table |-> t, column |-> column]>>
    \o DropEnumType(backend, t, type)

\* build_delete_column_sqlite_temp_table: what mentions the column goes too.
DeleteColumnByRebuild(t, column, table, pending) ==
    LET cols == SelectSeq(table.cols, LAMBDA c : c.name # column)
        cons == SelectSeq(table.cons, LAMBDA c :
                    IF c.kind = "ck" THEN column \notin ExprText[c.opt]
                    ELSE ~Contains(c.cols, column))
    IN  Rebuild(t, cols, cons, cols, cons, pending)

\* sqlite_constraint_handling
NeedsRebuildToDelete(table, column) ==
    \/ IsEnum(ColumnOf(table, column).type)
    \/ \E con \in ToSet(table.cons) :
          \/ con.kind = "ck" /\ column \in ExprText[con.opt]
          \/ con.kind \in {"fk", "pk"} /\ Contains(con.cols, column)

BuildDeleteColumn(backend, a, schema, pending) ==
    LET table == schema[a.table]
        type == ColumnOf(table, a.column).type
        onIt == SelectSeq(table.cons, LAMBDA c : c.kind \in {"uq", "ix"}
                                                 /\ Contains(c.cols, a.column))
    IN  IF backend # "sqlite"
        THEN DirectDeleteColumn(backend, a.table, a.column, type)
        ELSE IF NeedsRebuildToDelete(table, a.column)
        THEN DeleteColumnByRebuild(a.table, a.column, table, pending)
        ELSE ForEach(onIt, LAMBDA c : <<DropIndex(a.table, c)>>)
             \o DirectDeleteColumn(backend, a.table, a.column, type)

\* One column of a table with a changed field.
Changed(cols, column, field, value) ==
    [i \in DOMAIN cols |->
        IF cols[i].name # column THEN cols[i]
        ELSE [f \in DOMAIN cols[i] |->
                IF f = field THEN value ELSE cols[i][f]]]

\* build_sqlite_modify_column_with
RebuildWithColumn(a, schema, pending) ==
    LET table == schema[a.table]
    IN  Rebuild(a.table,
                Changed(table.cols, a.column, a.change[1], a.change[2]),
                table.cons, table.cols, table.cons, pending)

\* build_mysql_modify_column_with: not null and default are repeated,
\* auto_increment and the comment are not.
MysqlModify(a, schema) ==
    LET cols == Changed(schema[a.table].cols, a.column, a.change[1], a.change[2])
    IN  <<[do |-> "modify column", table |-> a.table, column |-> a.column,
           def |-> SqlColumn("mysql", a.table,
                             ColumnOf([cols |-> cols], a.column))]>>

PgAlter(a, do, field, value) ==
    [f \in {"do", "table", "column", field} |->
        CASE f = "do" -> do [] f = "table" -> a.table
          [] f = "column" -> a.column [] OTHER -> value]

AlterTypeStatement(a, type, using) ==
    [do |-> "alter type", table |-> a.table, column |-> a.column,
     type |-> type, using |-> using, notNull |-> FALSE]

\* build_postgres_enum_migration
EnumMigration(a, old, new, default) ==
    LET name == EnumTypeName(a.table, old)
        target == IF old.label = new.label THEN Append(name, "new")
                  ELSE EnumTypeName(a.table, new)
        SetTo(d) == When(default # <<>>,
                         PgAlter(a, "set default", "default", d))
    IN  <<[do |-> "create type", name |-> target, vals |-> new.vals]>>
        \o SetTo(<<>>)
        \o <<AlterTypeStatement(a, target, TRUE),
             [do |-> "drop type", name |-> name]>>
        \o When(old.label = new.label,
                [do |-> "rename type", name |-> target, to |-> name])
        \o SetTo(default)

\* build_standard_type_modification
StandardTypeModification(backend, a, schema, old, new) ==
    LET sameLabel == IsEnum(old) /\ IsEnum(new) /\ old.label = new.label
    IN  (IF sameLabel THEN <<>> ELSE CreateEnumType(backend, a.table, new))
        \o (IF backend = "mysql" THEN MysqlModify(a, schema)
            ELSE <<AlterTypeStatement(a, SqlType(backend, a.table, new), FALSE)>>)
        \o (IF sameLabel THEN <<>> ELSE DropEnumType(backend, a.table, old))

\* build_fill_with_updates: before the type changes.
FillWithUpdates(a) ==
    [i \in 1..Cardinality(a.mapping) |->
        [do |-> "update", table |-> a.table, column |-> a.column,
         mapping |-> {SetToSeq(a.mapping)[i]}]]

BuildModifyType(backend, a, schema, pending) ==
    LET col == ColumnOf(schema[a.table], a.column)
        old == col.type
        new == a.change[2]
    IN  FillWithUpdates(a) \o
        IF backend = "sqlite" THEN RebuildWithColumn(a, schema, pending)
        ELSE IF backend = "postgres" /\ IsEnum(old) /\ IsEnum(new)
                /\ <<old.label, old.kind, old.vals>>
                   # <<new.label, new.kind, new.vals>>
        THEN EnumMigration(a, old, new, DefaultSql(col.default))
        ELSE StandardTypeModification(backend, a, schema, old, new)

\* build_modify_column_nullable: the rows first, then the column.
BuildModifyNullable(backend, a, schema, pending) ==
    When(~a.change[2] /\ a.fill,
         [do |-> "fill nulls", table |-> a.table, column |-> a.column])
    \o CASE backend = "postgres" ->
                <<PgAlter(a, "set not null", "notNull", ~a.change[2])>>
         [] backend = "mysql" -> MysqlModify(a, schema)
         [] backend = "sqlite" -> RebuildWithColumn(a, schema, pending)

BuildModifyDefault(backend, a, schema, pending) ==
    CASE backend = "postgres" ->
            <<PgAlter(a, "set default", "default", DefaultSql(a.change[2]))>>
      [] backend = "mysql" -> MysqlModify(a, schema)
      [] backend = "sqlite" -> RebuildWithColumn(a, schema, pending)

\* SQLite has no comments.
BuildModifyComment(backend, a, schema) ==
    CASE backend = "postgres" -> <<PgAlter(a, "comment", "to", a.change[2])>>
      [] backend = "mysql" -> MysqlModify(a, schema)
      [] backend = "sqlite" -> <<>>

BuildModifyColumn(backend, a, schema, pending) ==
    CASE a.change[1] = "type" -> BuildModifyType(backend, a, schema, pending)
      [] a.change[1] = "nullable" ->
            BuildModifyNullable(backend, a, schema, pending)
      [] a.change[1] = "default" ->
            BuildModifyDefault(backend, a, schema, pending)
      [] a.change[1] = "comment" -> BuildModifyComment(backend, a, schema)

BuildRemapEnumValues(a) ==
    When(a.mapping # {},
         [do |-> "update", table |-> a.table, column |-> a.column,
          mapping |-> {<<<<"", p[1]>>, <<"", p[2]>>>> : p \in a.mapping}])

----------------------------------------------------------------------------
(* Constraints.                                                            *)

\* try_resolve_single_pk_column: a key that can tell duplicates apart.
UsableKey(t, schema, cols) ==
    LET key == PrimaryKeyColumns(schema[t])
    IN  Len(key) = 1 /\ ~Contains(cols, key[1])

\* build_pre_cleanup_delete, build_pk_pre_cleanup
DeleteDuplicates(t, schema, cols) ==
    When(UsableKey(t, schema, cols),
         [do |-> "repair", table |-> t, fact |-> Distinct(cols)])

\* merge_constraint: an overlapping constraint is replaced where it stands.
Overlap(c, d) ==
    /\ c.kind = d.kind
    /\ \/ c.kind \in {"fk", "pk"} /\ c.cols = d.cols
       \/ c.kind = "ck" /\ c.name = d.name /\ c.opt = d.opt
MergeConstraint(cons, con) ==
    LET at == {i \in DOMAIN cons : Overlap(cons[i], con)}
        Merged(i) == IF i \notin at THEN <<cons[i]>>
                     ELSE IF i = Min(at) THEN <<con>> ELSE <<>>
    IN  FlattenSeq([i \in DOMAIN cons |-> Merged(i)])
        \o (IF at = {} THEN <<con>> ELSE <<>>)

\* rebuild_sqlite_table_with_added_constraint
RebuildWithAdded(a, con, schema, pending) ==
    LET table == schema[a.table]
    IN  Rebuild(a.table, table.cols, MergeConstraint(table.cons, con),
                table.cols, table.cons, pending)

\* NOT VALID and VALIDATE on PostgreSQL, one statement on MySQL.
AddAndValidate(backend, add, fact) ==
    IF backend = "postgres"
    THEN <<[add EXCEPT !.valid = FALSE],
           [do |-> "validate", table |-> add.table, fact |-> fact]>>
    ELSE <<add>>

\* Mutant: the rows that the constraint rejects stay.
NoCleanup(t, schema, con) == <<>>

\* The rows that a new constraint would reject are deleted or updated first.
Cleanup(t, schema, con) ==
    LET Repairs(fact) == <<[do |-> "repair", table |-> t, fact |-> fact]>>
    IN  CASE con.kind = "ix" -> <<>>
          [] con.kind \in {"uq", "pk"} -> DeleteDuplicates(t, schema, con.cols)
          [] con.kind = "fk" -> Repairs(NoOrphans(SqlForeignKey(t, con)))
          [] con.kind = "ck" -> Repairs(Satisfies(ExplicitCheck(con).expr))

BuildAddConstraint(backend, a, con, schema, pending) ==
    LET t == a.table
        addPk == [do |-> "add pk", table |-> t, cols |-> con.cols,
                  name |-> PrimaryKeyName(t)]
        fk == SqlForeignKey(t, con)
        addFk == [do |-> "add fk", table |-> t, valid |-> TRUE, fk |-> fk]
        check == ExplicitCheck(con)
        addCheck == [do |-> "add check", table |-> t, valid |-> TRUE,
                     check |-> check]
    IN  Cleanup(t, schema, con) \o
        CASE con.kind \in {"ix", "uq"} -> <<CreateIndex(t, con)>>
          [] backend = "sqlite" -> RebuildWithAdded(a, con, schema, pending)
          [] con.kind = "pk" -> <<addPk>>
          [] con.kind = "fk" -> AddAndValidate(backend, addFk, NoOrphans(fk))
          [] con.kind = "ck" ->
                AddAndValidate(backend, addCheck, Satisfies(check.expr))

\* same_constraint of the SQLite rebuild.
SameConstraint(c, removed) ==
    /\ c.kind = removed.kind
    /\ \/ c.kind = "pk"
       \/ c.kind = "ck" /\ c.name = removed.name
       \/ /\ c.kind \in {"uq", "fk"}
          /\ IF c.name # Absent /\ removed.name # Absent
             THEN c.name = removed.name ELSE c.cols = removed.cols

RemoveByRebuild(a, con, schema, pending) ==
    LET table == schema[a.table]
        cons == SelectSeq(table.cons, LAMBDA c : ~SameConstraint(c, con))
    IN  Rebuild(a.table, table.cols, cons, table.cols,
                IF con.kind = "uq" THEN cons ELSE table.cons, pending)

\* The statement of PostgreSQL and, in other words, of MySQL.
DropStatement(t, con) ==
    CASE con.kind \in {"uq", "ix"} -> DropIndex(t, con)
      [] con.kind = "pk" ->
            [do |-> "drop pk", table |-> t, name |-> PrimaryKeyName(t)]
      [] con.kind = "fk" ->
            [do |-> "drop fk", table |-> t, name |-> ConstraintName("fk", t, con)]
      [] con.kind = "ck" ->
            [do |-> "drop check", table |-> t, name |-> con.name]

BuildRemoveConstraint(backend, a, con, schema, pending) ==
    IF backend = "sqlite" /\ con.kind # "ix"
    THEN RemoveByRebuild(a, con, schema, pending)
    ELSE <<DropStatement(a.table, con)>>

\* build_sqlite_constraint_replace: the indexes are those of the old
\* constraints.
ReplaceByRebuild(a, schema, pending) ==
    LET table == schema[a.table]
        cons == [i \in DOMAIN table.cons |->
                    IF table.cons[i] = a.con THEN a.to ELSE table.cons[i]]
    IN  Rebuild(a.table, table.cols, cons, table.cols, table.cons, pending)

\* build_replace_constraint: a foreign key is exchanged without a look at the
\* rows; anything else is removed and added, to a schema that has the new
\* constraint already.
BuildReplaceConstraint(backend, a, schema, pending) ==
    LET cons == schema[a.table].cons
        replaced == [schema EXCEPT ![a.table].cons =
            Append(SelectSeq(cons, LAMBDA c : c # a.con), a.to)]
    IN  IF backend = "sqlite" THEN ReplaceByRebuild(a, schema, pending)
        ELSE IF a.con.kind = "fk"
        THEN <<[do |-> "drop fk", table |-> a.table,
                name |-> ConstraintName("fk", a.table, a.con)],
               [do |-> "add fk", table |-> a.table, valid |-> TRUE,
                fk |-> SqlForeignKey(a.table, a.to)]>>
        ELSE BuildRemoveConstraint(backend, a, a.con, schema, pending)
             \o BuildAddConstraint(backend, a, a.to, replaced, pending)

----------------------------------------------------------------------------
(* Plans.                                                                  *)

\* build_action_queries_with_pending
BuildActionQueries(backend, a, schema, pending) ==
    CASE a.op = "CreateTable" -> BuildCreateTable(backend, a)
      [] a.op = "DeleteTable" -> <<DropTable(a.table)>>
      [] a.op = "RenameTable" ->
            <<[do |-> "rename table", table |-> a.table, to |-> a.to]>>
      [] a.op = "AddColumn" -> BuildAddColumn(backend, a, schema, pending)
      [] a.op = "DeleteColumn" -> BuildDeleteColumn(backend, a, schema, pending)
      [] a.op = "RenameColumn" ->
            <<[do |-> "rename column", table |-> a.table, column |-> a.column,
               to |-> a.to]>>
      [] a.op = "ModifyColumn" ->
            BuildModifyColumn(backend, a, schema, pending)
      [] a.op = "RemapEnumValues" -> BuildRemapEnumValues(a)
      [] a.op = "AddConstraint" ->
            BuildAddConstraint(backend, a, a.con, schema, pending)
      [] a.op = "RemoveConstraint" ->
            BuildRemoveConstraint(backend, a, a.con, schema, pending)
      [] a.op = "ReplaceConstraint" ->
            BuildReplaceConstraint(backend, a, schema, pending)
      [] OTHER -> <<[do |-> "raw"]>>

\* pending_constraints_for_action: the indexes that later actions of the plan
\* add to the same table.
PendingConstraints(actions, i) ==
    IF actions[i].op \in {"RenameTable", "RawSql"} THEN {}
    ELSE {actions[j].con : j \in {k \in (i + 1)..Len(actions) :
            /\ actions[k].op = "AddConstraint"
            /\ actions[k].table = actions[i].table
            /\ actions[k].con.kind \in {"uq", "ix"}}}

\* The schema an action leaves; one that does not apply is ignored.
Evolve(schema, a) ==
    LET Unless(next) == IF next = Err THEN schema ELSE next
    IN  Unless(Apply(schema, a))

\* prepare_actions: what each action is built from.
PrepareActions(actions, schema) ==
    [i \in DOMAIN actions |->
        [action |-> actions[i],
         schema |-> FoldLeft(Evolve, schema, SubSeq(actions, 1, i - 1)),
         pending |-> PendingConstraints(actions, i)]]

\* build_plan_queries
BuildPlanQueries(backend, actions, schema) ==
    LET Query(p) == BuildActionQueries(backend, p.action, p.schema, p.pending)
        Queries(prepared) == [i \in DOMAIN prepared |-> Query(prepared[i])]
    IN  Queries(PrepareActions(actions, schema))

----------------------------------------------------------------------------
(* The table prefix of the configuration: crates/vespertide-core/src/      *)
(* action/prefix.rs.                                                       *)

PrefixTable(prefix, t) == prefix \o t
PrefixConstraint(prefix, c) ==
    [c EXCEPT !.ref = [i \in DOMAIN @ |-> PrefixTable(prefix, @[i])]]
PrefixConstraints(prefix, cons) ==
    [i \in DOMAIN cons |-> PrefixConstraint(prefix, cons[i])]

\* prefix_migration_action: the columns of a new table stay as they are, and
\* so does an action that none of the three functions names.
PrefixAction(prefix, a) ==
    CASE a.op \in {"RawSql", "RemapEnumValues"} -> a
      [] a.op = "CreateTable" ->
            [a EXCEPT !.table = PrefixTable(prefix, @),
                      !.def.cons = PrefixConstraints(prefix, @)]
      [] a.op = "RenameTable" ->
            [a EXCEPT !.table = PrefixTable(prefix, @),
                      !.to = PrefixTable(prefix, @)]
      [] a.op \in {"AddConstraint", "RemoveConstraint"} ->
            [a EXCEPT !.table = PrefixTable(prefix, @),
                      !.con = PrefixConstraint(prefix, @)]
      [] a.op = "ReplaceConstraint" ->
            [a EXCEPT !.table = PrefixTable(prefix, @),
                      !.con = PrefixConstraint(prefix, @),
                      !.to = PrefixConstraint(prefix, @)]
      [] OTHER -> [a EXCEPT !.table = PrefixTable(prefix, @)]

\* MigrationPlan::with_prefix
PrefixPlan(prefix, actions) ==
    [i \in DOMAIN actions |-> PrefixAction(prefix, actions[i])]
=============================================================================
