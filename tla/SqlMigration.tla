---------------------------- MODULE SqlMigration ----------------------------
(***************************************************************************)
(* A series of migrations, from the plan to the database: each plan is     *)
(* what a revision writes for a new version of the models, its SQL is      *)
(* generated against the replayed schema, and one backend executes it      *)
(* statement by statement, on tables that have filled with rows since the  *)
(* last migration.                                                         *)
(***************************************************************************)
EXTENDS Sql

CONSTANTS Catalogues,     \* the schemas that the models may declare, by name
          Renaming,       \* the catalogues in which answers may rename
          TablePrefixes,       \* the prefixes that may be configured
          MaxMigrations   \* bound on the migrations of a behaviour

ASSUME MigrationsAssumption ==
    Renaming \subseteq DOMAIN Catalogues /\ MaxMigrations \in Nat

VARIABLES backend,
          prefix,     \* of the names of tables in the database
          catalogue,
          schema,     \* the schema that the migrations replay to
          baseline,   \* the schema that the macro follows, with the prefix
          db,         \* the database
          job,        \* the migration that is being executed
          done,       \* the number of migrations that have been executed
          renamed,    \* tables that had another name, or a column of which had
          gaps        \* what the generator is known not to handle, as far as
                      \* it has occurred

vars == <<backend, prefix, catalogue, schema, baseline, db, job, done, renamed,
          gaps>>
setting == <<backend, prefix, catalogue>>

NoJob == [todo |-> <<>>]

Init == /\ backend \in {"postgres", "mysql", "sqlite"}
        /\ prefix \in TablePrefixes
        /\ catalogue \in DOMAIN Catalogues
        /\ schema = NoTables
        /\ baseline = NoTables
        /\ db = EmptyDatabase
        /\ job = NoJob
        /\ done = 0
        /\ renamed = {}
        /\ gaps = {}

----------------------------------------------------------------------------
(* The plans of the revision command (see Revision), with its default      *)
(* answers, and renames where the catalogue has them.                      *)

WrittenPlans(target) ==
    LET Chosen(plan) == {f \in DropChoices(plan) :
                           \/ catalogue \in Renaming
                           \/ \A i \in DOMAIN f : f[i] = DropIt}
        Resolved(plan) == {ResolveDrops(plan, schema, f) : f \in Chosen(plan)}
        Good(plans) == {p \in plans \ {Err} : ~Refused(p, schema)}
        Stamped(p) == Stamp(p, {i \in DOMAIN p : MustStamp(p[i], schema)})
        plan == RewriteForRecreation(DiffSchemas(schema, target), target)
    IN  UNION {EnumFills(Fill(Stamped(p), schema, {}, {}), schema) :
                  p \in Good(Resolved(plan))}

----------------------------------------------------------------------------
(* What the generator does not handle.  An action that meets one of these  *)
(* may be rejected, or leave a database that is not what the migrations    *)
(* say.                                                                    *)

UsesNames(a) ==
    \/ a.op \in {"RemoveConstraint", "ReplaceConstraint", "DeleteColumn",
                 "CreateTable"}
    \/ a.op = "AddColumn" /\ IsEnum(a.def.type)
    \/ a.op = "ModifyColumn" /\ a.change[1] = "type"

\* before: the schema that the action meets; was: the tables renamed so far.
Gaps(a, before, was) ==
    LET pg == backend = "postgres"
        sqlite == backend = "sqlite"
        table == before[a.table]
        col == ColumnOf(table, a.column)
        isType == a.op = "ModifyColumn" /\ a.change[1] = "type"
        Touching == {c \in ToSet(table.cons) :
                        IF c.kind = "ck" THEN a.column \in ExprColumns[c.opt]
                        ELSE Contains(c.cols, a.column)}
        SharesType(label, but) ==
            \E i \in DOMAIN table.cols :
                /\ table.cols[i].name # but
                /\ table.cols[i].type.kind = "senum"
                /\ table.cols[i].type.label = label
        Gap(name, cond) == IF cond THEN {name} ELSE {}
    IN  CASE a.op = "CreateTable" ->
                Gap("CHECK of a new table", OfKind(a.def.cons, "ck") # <<>>)
                \cup Gap("inline reference without prefix",
                         prefix # "" /\ Some(a.def.cols, LAMBDA c : c.fk # Absent))
                \cup Gap("name in use", a.table \in was)
          [] a.op = "DeleteTable" ->
                Gap("dropped before its references",
                    ~sqlite /\ \E t \in DOMAIN before \ {a.table} :
                        Some(before[t].cons, LAMBDA c : References(c, a.table)))
                \cup Gap("enum type left",
                         pg /\ Some(table.cols, LAMBDA c : c.type.kind = "senum"))
          [] a.op = "AddColumn" ->
                Gap("shared enum type",
                    pg /\ a.def.type.kind = "senum"
                    /\ SharesType(a.def.type.label, ""))
                \cup Gap("name in use", a.table \in was /\ UsesNames(a))
          [] a.op = "DeleteColumn" ->
                Gap("integer enum type", pg /\ col.type.kind = "ienum")
                \cup Gap("shared enum type", pg /\ col.type.kind = "senum"
                                             /\ SharesType(col.type.label, a.column))
                \cup Gap("part of a constraint",
                         \E c \in Touching : Len(c.cols) > 1)
                \cup Gap("CHECK on a deleted column",
                         \E c \in Touching : c.kind = "ck")
                \cup Gap("foreign key of MySQL",
                         backend = "mysql" /\ \E c \in Touching : c.kind = "fk")
                \cup Gap("name in use", a.table \in was)
          [] isType ->
                Gap("integer enum type", pg /\ col.type.kind = "ienum")
                \cup Gap("shared enum type", pg /\ col.type.kind = "senum"
                                             /\ SharesType(col.type.label, a.column))
                \cup Gap("values that do not fit",
                         IsEnum(a.change[2])
                         /\ {col.type.kind, a.change[2].kind} # {"senum"})
                \cup Gap("new replacement",
                         \E p \in a.mapping : p[2] \notin ToSet(col.type.vals))
                \cup Gap("no cast",
                         pg /\ ~(IsEnum(col.type) /\ IsEnum(a.change[2]))
                         /\ ~Castable(SqlType(backend, a.table, col.type),
                                      SqlType(backend, a.table, a.change[2])))
                \cup Gap("name in use", a.table \in was)
                \cup Gap("AUTO_INCREMENT of MySQL",
                         backend = "mysql" /\ \E c \in Touching : c.opt = "auto")
          [] a.op = "ModifyColumn" /\ ~isType ->
                Gap("NULLs of a column with a default",
                    a.change = <<"nullable", FALSE>> /\ ~a.fill)
                \cup Gap("AUTO_INCREMENT of MySQL",
                         backend = "mysql" /\ \E c \in Touching : c.opt = "auto")
          [] a.op = "RemapEnumValues" ->
                Gap("CHECK of an enum", sqlite)
                \cup Gap("enum without prefix", prefix # "")
          [] a.op = "AddConstraint" ->
                Gap("no key to tell duplicates apart",
                    a.con.kind = "uq" /\ ~UsableKey(a.table, before, a.con.cols))
          [] a.op = "RemoveConstraint" -> Gap("name in use", a.table \in was)
          [] a.op = "ReplaceConstraint" ->
                Gap("replaced without a look at the rows",
                    a.con.kind \in (IF sqlite THEN {"pk", "ck"} ELSE {"pk", "fk"}))
                \cup Gap("replaced index of SQLite",
                         sqlite /\ a.con.kind \in {"uq", "ix"})
                \cup Gap("name in use", a.table \in was)
          [] OTHER -> {}

\* Ghost: the gaps and the renamed tables after each action of a plan.
Track(actions, state) ==
    FoldLeft(LAMBDA st, a :
                [schema |-> Evolve(st.schema, a),
                 gaps |-> st.gaps \cup Gaps(a, st.schema, st.renamed),
                 renamed |-> st.renamed \cup
                     CASE a.op = "RenameTable" -> {a.table, a.to}
                       [] a.op = "RenameColumn" -> {a.table}
                       [] OTHER -> {}],
             state, actions)

----------------------------------------------------------------------------
\* A revision is written; the macro puts the prefix on it and generates its
\* SQL against its own baseline.  Then the migration starts.
Begin(target, actions) ==
    LET ghost == Track(actions, [schema |-> schema, gaps |-> gaps,
                                 renamed |-> renamed])
        queries == BuildPlanQueries(backend, PrefixPlan(prefix, actions), baseline)
    IN  /\ job = NoJob
        /\ done < MaxMigrations
        /\ actions # <<>>
        /\ db' = Populate(backend, db)
        /\ job' = [todo |-> FlattenSeq(queries), actions |-> actions,
                   start |-> db']
        /\ gaps' = ghost.gaps
        /\ renamed' = ghost.renamed
        /\ UNCHANGED <<setting, schema, baseline, done>>

\* One statement is executed.
Statement ==
    /\ job # NoJob /\ job.todo # <<>>
    /\ Execute(backend, db, Head(job.todo)) # Err
    /\ db' = Execute(backend, db, Head(job.todo))
    /\ job' = [job EXCEPT !.todo = Tail(@)]
    /\ UNCHANGED <<setting, schema, baseline, done, renamed, gaps>>

Finish ==
    /\ job # NoJob /\ job.todo = <<>>
    /\ schema' = FoldLeft(Evolve, schema, job.actions)
    /\ baseline' = FoldLeft(Evolve, baseline, PrefixPlan(prefix, job.actions))
    /\ done' = done + 1
    /\ job' = NoJob
    /\ UNCHANGED <<setting, db, renamed, gaps>>

Next == \/ \E target \in Catalogues[catalogue] : \E actions \in WrittenPlans(target) :
              Begin(target, actions)
        \/ Statement
        \/ Finish

Spec == Init /\ [][Next]_vars

----------------------------------------------------------------------------
\* The next statement of the migration is rejected.
Rejected == /\ job # NoJob /\ job.todo # <<>>
            /\ Execute(backend, db, Head(job.todo)) = Err

\* The catalogue that a schema stands for.  Indexes and foreign keys keep the
\* names they were created with; SQLite has no use for those of foreign keys.
Prefixed(t) == PrefixTable(prefix, t)
Renamed(t) == t \in {Prefixed(r) : r \in renamed}
NameOf(t, name) == IF Renamed(t) THEN <<>> ELSE name
CatalogueOf(tables, indexes) ==
    [tables |-> [t \in DOMAIN tables |->
        [cols |-> [c \in DOMAIN tables[t].cols |->
                     [f \in {"type", "notNull", "default", "auto"} |->
                         IF f = "type" /\ Renamed(t) THEN <<>>
                         ELSE tables[t].cols[c][f]]],
         pk |-> tables[t].pk,
         fks |-> {[fk EXCEPT !.name = IF backend = "sqlite" THEN <<>>
                                      ELSE NameOf(t, @)] : fk \in tables[t].fks},
         checks |-> {[expr |-> ck.expr, cols |-> ck.cols] :
                        ck \in tables[t].checks}]],
     indexes |-> {[ix EXCEPT !.name = NameOf(ix.table, @)] : ix \in indexes}]

ExpectedCatalogue ==
    LET Wanted(t) == PrefixConstraints(prefix, schema[t].cons)
        Expected(t) ==
            TableStatement(backend, Prefixed(t), schema[t].cols, Wanted(t),
                ExplicitChecks(Wanted(t)) \cup
                (IF backend = "sqlite" THEN EnumChecks(t, schema[t].cols)
                 ELSE {})).def
        IndexesIn(t) == {SqlIndex(Prefixed(t), c) :
                            c \in {d \in ToSet(Wanted(t)) : d.kind \in {"uq", "ix"}}}
        tables == {Prefixed(t) : t \in DOMAIN schema}
    IN  CatalogueOf([p \in tables |->
                        Expected(CHOOSE t \in DOMAIN schema : Prefixed(t) = p)],
                    UNION {IndexesIn(t) : t \in DOMAIN schema})

\* Outside the gaps every statement is accepted: the SQL is in an order, and
\* repairs the rows in a way, that the backend takes.
Accepted == gaps = {} => ~Rejected

\* Outside the gaps the migrations leave the catalogue that they replay to:
\* tables, columns, keys, CHECKs, indexes and enum types, and no temporary
\* table.
CatalogueFollows ==
    gaps = {} /\ job = NoJob =>
        /\ CatalogueOf(db.tables, db.indexes) = ExpectedCatalogue
        /\ backend = "postgres" /\ renamed = {} =>
              DOMAIN db.types =
                  UNION {{EnumTypeName(Prefixed(t), c.type) :
                            c \in {d \in ToSet(schema[t].cols) :
                                     d.type.kind = "senum"}} :
                         t \in DOMAIN schema}

\* Where the rows of a column were before the migration: under the names that
\* the renames of the plan started from.
Origin(actions, t, c) ==
    FoldRight(LAMBDA a, at :
                CASE a.op = "RenameTable" /\ a.to = at[1] -> <<a.table, at[2]>>
                  [] a.op = "RenameColumn" /\ <<a.table, a.to>> = at ->
                        <<at[1], a.column>>
                  [] OTHER -> at,
              actions, <<t, c>>)

\* A migration keeps the rows of every table that it does not create or
\* delete, and the values of every column that it does not add.
RowsSurvive ==
    job # NoJob /\ job.todo = <<>> =>
        \A t \in DOMAIN db.tables :
            LET plan == PrefixPlan(prefix, job.actions)
                Adds(c) == Some(plan, LAMBDA a : /\ a.op = "AddColumn"
                                                 /\ a.table = t
                                                 /\ a.def.name = c)
            IN  \/ Some(plan, LAMBDA a : a.op = "CreateTable" /\ a.table = t)
                \/ /\ db.tables[t].rows
                   /\ \A c \in DOMAIN db.tables[t].cols :
                        Adds(c) \/ db.tables[t].cols[c].source
                                   = Origin(plan, t, c)

\* A migration ends with the catalogue that its plan replays to, and with the
\* rows it started from.
Faithful == CatalogueFollows /\ RowsSurvive
=============================================================================
