------------------------------ MODULE Revision ------------------------------
(***************************************************************************)
(* The `vespertide revision` command: crates/vespertide-cli/src/commands/  *)
(* revision.  A developer edits the model files and runs the command, which *)
(* loads models and migrations, replays the migrations into a baseline,    *)
(* diffs, asks about everything risky, and writes the next migration file. *)
(* Between loading and writing it waits for answers, while the models and  *)
(* the migration directory may change.                                     *)
(***************************************************************************)
EXTENDS Advisories

CONSTANTS Projects,     \* what may be worked on: see ProjectsAssumption
          Message       \* Message[u]: the message u gives to its revisions

\* A project: those who run the command on it, the schemas its model files may
\* declare, what its pattern for file names mentions, the kinds of answer that
\* are more than a yes, and a bound: no plan has a larger version.
ASSUME ProjectsAssumption ==
    \A p \in Projects :
        /\ DOMAIN p = {"users", "models", "pattern", "picks", "maxVersion"}
        /\ p.users \subseteq DOMAIN Message
        /\ p.pattern \subseteq {"version", "message"}
        /\ p.picks \subseteq {"rename", "strategy", "widen", "fill", "delete",
                             "backfill"}
        /\ p.maxVersion \in Nat

VARIABLES project,      \* the one that is worked on
          models,       \* the model files
          migrations,   \* migration files by name: [version, actions]
          cmd,          \* cmd[u]: the command u is running
          written       \* ghost: the session that wrote the newest file

vars == <<project, models, migrations, cmd, written>>

Users == project.users
Models == project.models
Pattern == project.pattern
Picks == project.picks
MaxVersion == project.maxVersion

Idle == [pc |-> "idle"]

----------------------------------------------------------------------------
(* Loading.                                                                *)

\* load_migrations sorts by version; the order of equal versions is that of
\* the directory.
LoadOrders(files) ==
    {order \in SetToSeqs(DOMAIN files) :
        \A i, j \in DOMAIN order :
            i < j => files[order[i]].version <= files[order[j]].version}

SchemaFromPlans(files, order) ==
    Replay(NoTables, ForEach(order, LAMBDA f : files[f].actions))

LoadableModels(schema) ==
    /\ \A t \in DOMAIN schema : ~NormalizeFails(schema[t])
    /\ ValidSchema(NormalizeSchema(schema))

LoadableMigrations(files) ==
    \A f \in DOMAIN files : ValidMigrationPlan(files[f].actions)

VersionsOf(files) == {files[f].version : f \in DOMAIN files}

\* Mutant: the version of the last plan is used again.
LastVersion(files) == Max(VersionsOf(files) \cup {0})

NextVersion(files) == Max(VersionsOf(files) \cup {0}) + 1

\* migration_filename_with_format_and_pattern: a pattern may mention the
\* version and the message, in which only letters, digits and _ are kept; a
\* name that comes out empty is the version.
FileName(pattern, version, message) ==
    IF pattern = {} THEN <<version, "">>
    ELSE <<IF "version" \in pattern THEN version ELSE 0,
           IF "message" \in pattern THEN message ELSE "">>

----------------------------------------------------------------------------
Init == /\ project \in Projects
        /\ models \in Models
        /\ migrations = [f \in {} |-> <<>>]
        /\ cmd = [u \in Users |-> Idle]
        /\ written = Err

\* Bound: no edits once the last version is planned.
EditModels(schema) ==
    /\ NextVersion(migrations) <= MaxVersion
    /\ \A u \in Users : cmd[u] # Idle => cmd[u].version < MaxVersion
    /\ schema # models
    /\ models' = schema
    /\ UNCHANGED <<migrations, cmd, written>>

\* cmd_revision_core up to the first question: load, plan, and decide which
\* tables are recreated.  It stops on an error and when nothing has changed.
Plan(u, order) ==
    LET baseline == SchemaFromPlans(migrations, order)
        actions == DiffSchemas(baseline, models)
        plan == RewriteForRecreation(actions, models)
    IN  /\ cmd[u].pc = "idle"
        /\ LoadableModels(models)
        /\ LoadableMigrations(migrations)
        /\ baseline # Err
        /\ actions # Err
        /\ plan # <<>>
        /\ NextVersion(migrations) <= MaxVersion
        /\ cmd' = [cmd EXCEPT ![u] =
              [pc |-> "asking", actions |-> plan, baseline |-> baseline,
               target |-> models, version |-> NextVersion(migrations)]]
        /\ UNCHANGED <<models, migrations, written>>

\* write_migration_file: a file of the same name is overwritten.
Write(u, session, deleting) ==
    /\ migrations' = WithKey(migrations, FileName(Pattern, cmd[u].version, Message[u]),
                             [version |-> cmd[u].version, actions |-> session.plan])
    /\ written' = [target |-> cmd[u].target, baseline |-> cmd[u].baseline,
                   plan |-> session.plan, asked |-> session.asked,
                   deleting |-> deleting]
    /\ cmd' = [cmd EXCEPT ![u] = Idle]
    /\ UNCHANGED models

\* The answers, in the order in which they are asked, and the file.
Answer(u) ==
    /\ cmd[u].pc = "asking"
    /\ \E drops \in DropChoices(cmd[u].actions) :
        LET baseline == cmd[u].baseline
            resolved == ResolveDrops(cmd[u].actions, baseline, drops)
        IN  /\ "rename" \in Picks \/ \A i \in DOMAIN drops : drops[i] = DropIt
            /\ resolved # Err
            /\ ~Refused(resolved, baseline)
            /\ \E deleting \in DeleteOptions(resolved, Picks) :
                \E session \in Sessions(cmd[u].actions, resolved, baseline, Picks,
                                        deleting) :
                  Write(u, session, deleting)

\* A declined question, or a plan that is refused: nothing is written.
Cancel(u) ==
    /\ cmd[u].pc = "asking"
    /\ cmd' = [cmd EXCEPT ![u] = Idle]
    /\ UNCHANGED <<models, migrations, written>>

Next == /\ UNCHANGED project
        /\ \/ \E schema \in Models : EditModels(schema)
           \/ \E u \in Users :
                 \/ \E order \in LoadOrders(migrations) : Plan(u, order)
                 \/ Answer(u)
                 \/ Cancel(u)

Spec == Init /\ [][Next]_vars

----------------------------------------------------------------------------
Baselines ==
    {SchemaFromPlans(migrations, order) : order \in LoadOrders(migrations)}

\* load_migrations accepts every file that a revision wrote, whatever the
\* command line names.  It does not: a NOT NULL column that --delete-null-rows
\* names is added without a value for its rows (handle_delete_null_rows).
EveryFileLoads == LoadableMigrations(migrations)

\* Named gap: such a column, which is not asked about either.
NamedForDeletion(i) == i \in written.deleting /\ written.plan[i].op = "AddColumn"

\* The checks at load time ask for nothing else that the command did not ask
\* the user for.  Each file has its turn when it is the newest.
Loadable ==
    written # Err => \A i \in DOMAIN written.plan :
        NamedForDeletion(i) \/ ValidAction(written.plan[i])

\* One user at a time: two that plan on the same baseline write files that
\* may contradict each other.
Alone == Cardinality(Users) = 1

\* The migration files of one user replay from the empty schema without an
\* error, so that the next command has a baseline to plan from.
Replayable == Alone => Err \notin Baselines

\* What cmd_revision wrote, load_migrations and schema_from_plans can read:
\* every file loads, outside of the named gap, and those of one user replay.
Reloads == Loadable /\ Replayable

KnowsEnums(baseline, schema) ==
    \A t \in DOMAIN schema :
        Every(schema[t].cols, LAMBDA col :
            IsEnum(col.type) =>
                ToSet(ColumnOf(baseline[t], col.name).type.vals)
                    = ToSet(col.type.vals))

\* A column that the author may have chosen to make big_int.
Widened(a) ==
    /\ Changes(a, "type")
    /\ Question("sequence", a.table, {a.column}) \in written.asked

\* A revision captures the models it was planned for: replayed on its
\* baseline, it leaves nothing for the next diff to report, but for columns
\* that were widened and that the models still declare as they were; and it
\* knows every variant of every enum, so that a later change of a value, which
\* the diff only sees for variants it knows, is noticed.
Converges ==
    Alone /\ written # Err =>
        \A baseline \in Baselines \ {Err} :
            /\ Every(DiffSchemas(baseline, written.target), Widened)
            /\ KnowsEnums(baseline, written.target)

\* The execution of the newest migration, action by action: the file and the
\* schema before and after each action.  The older files had their turn when
\* they were the newest.
Steps(order) ==
    IF order = <<>> THEN <<>>
    ELSE LET file == Last(order)
             Run(acc, a) ==
                 Append(acc, [file |-> file, action |-> a,
                              before |-> Last(acc).after,
                              after |-> IF Last(acc).after = Err THEN Err
                                        ELSE Apply(Last(acc).after, a)])
             start == <<[after |-> SchemaFromPlans(migrations, Front(order))]>>
         IN  Tail(FoldLeft(Run, start, migrations[file].actions))

EveryStep(P(_)) ==
    \A order \in LoadOrders(migrations) :
        Every(Steps(order), LAMBDA s : s.after # Err => P(s))

ReferencingTables(schema, table) ==
    {t \in DOMAIN schema \ {table} :
        Some(schema[t].cons, LAMBDA c : References(c, table))}

CreatesInOrder(s) ==
    s.action.op \in {"CreateTable", "AddConstraint"} =>
        Every(s.after[s.action.table].cons, LAMBDA c :
            c.kind = "fk" => c.ref[1] \in DOMAIN s.after)

DropsInOrder(s) ==
    s.action.op = "DeleteTable" =>
        \A t \in ReferencingTables(s.before, s.action.table) :
            ~Some(migrations[s.file].actions, LAMBDA a : a = DeleteTable(t))

EnumDefaultSurvives(s) ==
    s.action.op = "ModifyColumn" /\ s.action.change[1] = "type" =>
        LET old == ColumnOf(s.before[s.action.table], s.action.column)
            new == s.action.change[2]
        IN  old.type.kind = "senum" /\ new.kind = "senum" =>
                Every(old.default, LAMBDA d : EnumContains(new, d.text))

\* The four reorderings of diff_schemas put every action where the database
\* can execute it: CREATE TABLE and ADD FOREIGN KEY only mention tables that
\* exist by then; of two deleted tables the referencing one goes first; and
\* when a string enum loses values, its default is none of them by then.
ActionsInOrder ==
    EveryStep(LAMBDA s :
        CreatesInOrder(s) /\ DropsInOrder(s) /\ EnumDefaultSurvives(s))

\* Every user's file names tell its versions apart, and its files from those
\* of the others: Message stands for what is left of the messages in names.
NamesAreOwn ==
    /\ "version" \in Pattern
    /\ \A u, v \in Users :
          u # v => "message" \in Pattern /\ Message[u] # Message[v]

\* A migration file is never rewritten: even when commands overlap and pick
\* the same version, a user whose message is not used by another one does
\* not overwrite a file.
FilesAreFinal ==
    [][NamesAreOwn =>
          \A f \in DOMAIN migrations :
              f \in DOMAIN migrations' /\ migrations'[f] = migrations[f]]_migrations

\* A table that only changes its name can be renamed: resolving its drop to
\* the table that declares the same columns and constraints is not refused.
ExactRenamesAccepted ==
    \A u \in Users : cmd[u].pc = "asking" =>
        LET actions == cmd[u].actions
            baseline == cmd[u].baseline
            Exact(old, new) ==
                NormalizeSchema(baseline)[old] = NormalizeSchema(cmd[u].target)[new]
            renames == {f \in DropChoices(actions) :
                          \A i \in DOMAIN f :
                              /\ actions[i].op = "DeleteTable" /\ f[i] # DropIt
                              /\ Exact(actions[i].table, f[i][1])}
        IN  \A f \in renames :
                LET plan == ResolveDrops(actions, baseline, f)
                IN  plan # Err /\ ~Refused(plan, baseline)

\* The grades of the candidates of a drop tell what the rename would take: a
\* column's is exact just when no field of it changes, and a table that needs
\* nothing but its new name is graded exact.
GradesFit ==
    \A u \in Users : cmd[u].pc = "asking" =>
        LET actions == cmd[u].actions
            baseline == cmd[u].baseline
            Pairs(drop, add) == {p \in (DOMAIN actions) \X (DOMAIN actions) :
                                   actions[p[1]].op = drop /\ actions[p[2]].op = add}
            Quality(p) == MatchQuality(actions, baseline, p[1], p[2])
            Fields(p) == FieldChanges("", "", ColumnOf(baseline[actions[p[1]].table],
                                                       actions[p[1]].column),
                                      actions[p[2]].def)
            TableChanges(p) == RenamedTableChanges("", baseline[actions[p[1]].table],
                                               actions[p[2]].def)
        IN  /\ \A p \in Pairs("DeleteColumn", "AddColumn") :
                  actions[p[1]].table = actions[p[2]].table =>
                      (Quality(p) = "Exact" <=> Fields(p) = <<>>)
            /\ \A p \in Pairs("DeleteTable", "CreateTable") :
                  TableChanges(p) = <<>> => Quality(p) = "Exact"

----------------------------------------------------------------------------
(* What the newest file does to the rows that are there, told from the     *)
(* schemas before and after it: the questions its author should have seen. *)

OldSchema == NormalizeSchema(written.baseline)
NewSchema == NormalizeSchema(Replay(written.baseline, written.plan))

Renamed(t, c) ==
    Some(written.plan, LAMBDA a :
        \/ a.op = "RenameTable" /\ t \in {a.table, a.to}
        \/ a.op = "RenameColumn" /\ a.table = t /\ c \in {a.column, a.to})
Emptied(t) == Contains(written.plan, DeleteTable(t))

LostTables == {t \in DOMAIN OldSchema : Emptied(t) \/ t \notin DOMAIN NewSchema}
LostColumns(t) == ColumnNames(OldSchema[t]) \ ColumnNames(NewSchema[t])
KeptTables ==
    {t \in DOMAIN OldSchema \cap DOMAIN NewSchema : ~Renamed(t, "") /\ ~Emptied(t)}
KeptColumns(t) ==
    {c \in ColumnNames(OldSchema[t]) \cap ColumnNames(NewSchema[t]) : ~Renamed(t, c)}

Narrower == {<<"big_int", "integer">>, <<"big_int", "small_int">>,
             <<"integer", "small_int">>, <<"double_precision", "real">>,
             <<"timestamptz", "timestamp">>}

\* A default that changes together with the type is left to the questions
\* about the type.
ColumnRisks(old, new) ==
    LET labels == <<old.type.label, new.type.label>>
        moved == \E v \in ToSet(old.type.vals), w \in ToSet(new.type.vals) :
                    v[1] = w[1] /\ v[2] # w[2]
    IN  {q \in {"narrowing", "timezone", "default", "remap"} :
           \/ q = "narrowing" /\ labels \in Narrower
           \/ q = "timezone" /\ labels = <<"timestamp", "timestamptz">>
           \/ q = "default" /\ old.type = new.type
                /\ DefaultSql(old.default) # DefaultSql(new.default)
           \/ q = "remap" /\ old.type.kind = new.type.kind /\ moved}

ConstraintRisks(cons, c) ==
    LET twins == SelectSeq(cons, LAMBDA d :
                    /\ c.kind = d.kind /\ ToSet(c.cols) = ToSet(d.cols)
                    /\ c.ref = d.ref /\ c.refCols = d.refCols)
    IN  {q \in {"unique", "orphan", "policy"} :
           \/ q = "unique" /\ c.kind = "uq" /\ twins = <<>>
           \/ q = "orphan" /\ c.kind = "fk" /\ twins = <<>>
           \/ q = "policy" /\ c.kind = "fk" /\ twins # <<>>
                /\ Every(twins, LAMBDA d : Policy(d) # Policy(c))}

\* Serial keys of new tables, where they are declared at table level.
SerialKeys(t) ==
    {c \in ColumnNames(NewSchema[t]) :
        /\ Risky(ColumnOf(NewSchema[t], c).type)
        /\ Contains(written.target[t].cons, PrimaryKey(<<c>>, "auto"))}

Risks ==
    {Question("drop", t, {}) : t \in LostTables}
    \cup {Question("drop", p[1], {p[2]}) :
             p \in UNION {{t} \X LostColumns(t) : t \in KeptTables}}
    \cup UNION {{Question(q, p[1], {p[2]}) :
                    q \in ColumnRisks(ColumnOf(OldSchema[p[1]], p[2]),
                                      ColumnOf(NewSchema[p[1]], p[2]))} :
                   p \in UNION {{t} \X KeptColumns(t) : t \in KeptTables}}
    \cup UNION {UNION {{Question(q, t, ToSet(c.cols)) :
                           q \in ConstraintRisks(OldSchema[t].cons, c)} :
                          c \in {d \in ToSet(NewSchema[t].cons) :
                                    ToSet(d.cols) \subseteq KeptColumns(t)}} :
                   t \in KeptTables}
    \cup {Question("sequence", p[1], {p[2]}) :
             p \in UNION {{t} \X SerialKeys(t) :
                             t \in DOMAIN NewSchema \ DOMAIN OldSchema}}

\* Constraints of surviving columns that a plan takes away, with none of the
\* same kind on the same columns in their place.
Unguarded(old, new) ==
    LET Lost(t) == {c \in ToSet(old[t].cons) :
            /\ c.kind \in {"uq", "fk"}
            /\ ToSet(c.cols) \subseteq ColumnNames(old[t]) \cap ColumnNames(new[t])
            /\ ~Some(new[t].cons, LAMBDA d :
                  d.kind = c.kind /\ ToSet(d.cols) = ToSet(c.cols))}
    IN  UNION {{Question("unguarded", t, ToSet(c.cols)) : c \in Lost(t)} :
                  t \in DOMAIN old \cap DOMAIN new}

\* `diff` and `status` can be relied on before a revision: status finds a
\* difference only where diff shows one; diff warns of every unique and foreign
\* key that goes away; a revision asks again what diff warned of, and of a key
\* that is narrowed first whether it may run out; and the indexes that diff
\* advises are all that following its advice adds.
ReportsAgree ==
    /\ LoadableModels(models) /\ LoadableMigrations(migrations) => \A baseline \in Baselines \ {Err} :
          LET report == DiffReport(models, baseline)
              schema == NormalizeSchema(models)
              Advised(t) == [schema[t] EXCEPT !.cons = @ \o
                  SetToSeq({Index(Absent, fk.cols) :
                               fk \in MissingFkSupportingIndexes(schema[t])})]
              advised == [t \in DOMAIN models |-> Advised(t)]
          IN  report.actions # Err =>
                /\ report.actions = <<>> =>
                      Status(models, DOMAIN migrations, baseline)
                          \in {"synchronized", "nothing"}
                /\ Unguarded(NormalizeSchema(baseline), schema) \subseteq report.warned
                /\ ModelWarnings(advised) = {}
                /\ Every(DiffSchemas(models, advised), LAMBDA a :
                      a.op = "AddConstraint" /\ a.con.kind = "ix")
    /\ written # Err =>
          \A q \in PlanWarnings(DiffSchemas(written.baseline, written.target))
                    \cup BaselineWarnings(DiffSchemas(written.baseline, written.target),
                                          written.baseline) :
              \/ {q, [q EXCEPT !.about = "sequence"]} \cap written.asked # {}
              \/ q.about = "unguarded" \/ Emptied(q.table)

\* Everything that a file destroys or may fail on has been asked about:
\* tables and columns that go with their rows, values that a new type cannot
\* hold or that need a timezone, defaults and enum values that change under
\* existing rows, constraints that existing rows may violate, foreign keys
\* that act differently, and keys that may run out.  Of renamed tables and
\* columns, which the detectors look up under their new names, nothing is
\* said.  A drop that is only a new name can be answered as such, and the
\* commands that only look say the same as the one that writes.
QuestionsFit ==
    /\ Alone /\ written # Err => Risks \subseteq written.asked
    /\ ExactRenamesAccepted /\ GradesFit
    /\ ReportsAgree
=============================================================================
