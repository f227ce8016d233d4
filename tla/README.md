# Vespertide in TLA+

Vespertide keeps a database schema in declarative model files. A developer edits
the models, with a language server behind the editor; `vespertide revision`
compares them with the replay of all earlier migrations and writes the next
migration file; `vespertide_migration!` compiles the files into the application
as SQL; at start the application's *runner* applies what the database has not
recorded yet; `vespertide export` renders the models for eight ORMs. This
directory models that path from the editor to the database: what a migration
contains, what SQL it becomes, what the SQL does to the rows, and how several
runners apply it at once.

Paths below are relative to the repository.

## Inventory

| Part | State | Operations | Talks to |
|---|---|---|---|
| Runner, `crates/vespertide/src/runtime.rs` | the version table and the database; per run: `version`, `version_ids`, the transaction | `run_embedded_migrations_with_options`, an async function of about ten awaits | the database; other runners only through it |
| Macro, `crates/vespertide-macro` | an evolving schema during expansion | builds the statements of every migration | loader, query builder; its output is the runner's constant input |
| Query builder, `crates/vespertide-query` | an evolving schema per plan | one action to SQL for three backends | planner (`apply_action`); the database |
| Schema and normalisation, `crates/vespertide-core/src/schema` | none | `TableDef::normalize`: inline keys, unique constraints, indexes and references become table constraints | everything |
| Replay, `crates/vespertide-planner/src/apply`, `schema.rs` | the schema being replayed | `apply_action` for every action, `schema_from_plans` | revision, macro, query builder, language server |
| Diff, `crates/vespertide-planner/src/diff` | none | `diff_schemas` and the order of its actions | revision, language server |
| Validation, `crates/vespertide-planner/src/validate` | none | checks of models, of plans being written, of files being loaded; analysis of CHECK expressions, of types that narrow, of cascades | loader, revision |
| Drop resolution, `crates/vespertide-planner/src/drop_resolution.rs` | the plan | turns a drop and an addition into a rename | revision |
| Revision command, `crates/vespertide-cli/src/commands/revision` | model files, migration files, the plan while questions are asked | load, plan, ask, write | all of the above |
| Row repairs, `add_constraint`, `modify_column_type` of the query builder | the rows of the database | statements that make rows fit a new constraint or type, as chosen at a prompt | revision, the database |
| Loader, `crates/vespertide-loader` | none | reads, checks and sorts the files | revision, macro |
| Language server, `crates/vespertide-lsp` | open documents, index of tables, tables on disk, five caches, diagnostics shown | handlers for open, change, save, close, watched files; queries | planner; the editor; the disk |
| Export command, `commands/export/mod.rs` | the export directory | load, sweep, check the marker, write, declare modules | exporter; the user's own files |
| ORM exporter and naming, `crates/vespertide-exporter`, `vespertide-naming` | the names claimed in a scope while a file is rendered | one renderer for each ORM | export |
| Read-only commands, `commands/diff`, `commands/status.rs` | none | show the next plan with warnings; say whether there is one | planner |
| Configuration, other commands, schema generator, editor extensions | none that a later operation reads | text generation and I/O | |

What is hard in it:

* **Runners race without a lock.** Every process that starts reads
  `MAX(version)`, executes what is newer and inserts its rows. Processes may hold
  different releases, fail between any two awaits, or lose the answer to
  `COMMIT`. On MySQL, DDL commits behind the runner's back.
* **A revision is checked only by the next one.** The replay, the diff, the
  validation and the renames are separate interpretations of one set of actions.
  If they disagree about a sequence of revisions, the next command invents
  changes, refuses its own files, or can no longer replay them.
* **The order of the actions of a plan** decides whether the database accepts
  the plan, and is built by four reorderings.
* **SQL is generated without a database.** The builder follows a schema of its
  own through the plan; a statement that depends on what an earlier one left, or
  on the rows, fails only in production.
* **A repair of rows is chosen in one place and executed in another**, and SQL
  has three truth values.
* **Commands wait for a person** between reading the directory and writing to it.
* **The language server** suspends handlers at their awaits, over caches keyed by
  fingerprints and modification times.
* **Features of the language server read one text in many ways**, none of them
  through the definitions that the planner uses, while it is being typed.
* **An export removes before it writes**, and renders the two ends of a relation
  from different tables.

`PROJECT.json` lists these hazards line by line with the properties that cover
them.

## Modules

An arrow points from a module to one that extends it.

```
MigrationLedger <..refines.. Runtime --> RuntimeProofs
                                |
                                +------> MCRuntime

SortDeletes --> MCSortDeletes
    |    \
    |     ..compares with..> Diff
    |
    +--> OrderingProofs

Schema --> Apply --> Diff --> Validate, DropResolution --> Answers
Answers --> Advisories --> Revision --> RevisionProofs
                              |
                              +-------> MCRevision <-- MCModels
Apply --> Database;  Database, Answers --> Sql --> SqlMigration --> MCSql <-- MCModels

Schema --> Entities --> Renderers --> SeaOrm --> Symbols --> Export --> MCExport
                                                               |
                                                               +--> ExportProofs

SequenceFacts --> OrderingProofs, ExportProofs

Schema --> Documents --> Navigation --> Diagnostics --> Assistance --> Editing --> MCEditing
                             |                                           ^
                             +----------> Presentation -----------------+

Checks, Repairs --> Warnings --> MCRepairs
            |
            +--> RepairsProofs

LanguageServer --> LanguageServerProofs
      |
      +--> MCLanguageServer
```

### Runtime and MigrationLedger

`Runtime` is `run_embedded_migrations_with_options`, one action per await, for
any set of processes. The variables `seen`, `ids`, `at` and `step` are the
function's locals (`version`, `version_ids`, and the two loop positions); `rows`
and `times` are the committed database: which migration each version records,
and how often each statement has taken effect. `ran` and `ins` are what an open
transaction has executed and inserted.

The database is external and modelled by what the code relies on.

* A statement that cannot be repeated (`CREATE TABLE`) waits while another
  transaction has executed it, and fails once it has taken effect. A repeatable
  one (an `UPDATE`) always succeeds.
* A version row waits for an uncommitted row with the same key and fails if
  there is a committed one.
* Transactions on PostgreSQL and SQLite are private until commit. PostgreSQL
  reads committed rows statement by statement, so `ReadIds` may see more than
  `ReadMax`; the other backends keep one snapshot.
* On MySQL the first DDL statement commits the open transaction, and every later
  statement commits alone.
* `ALTER TABLE` on the version table waits for the transactions that have read
  it, except on SQLite.

`Fail` is an error from any await, a lost connection or a crash;
`CommitUnacknowledged` is a commit whose answer is lost. `Start` starts a process
again with any build.

`MigrationLedger` is the promise to the application: the version table and the
database change in one indivisible step that brings both up to a build.
`Runtime` refines it with the identity on `rows` and `times`.

### Schema, Apply, Diff, Validate, DropResolution, Answers, Advisories

These are the functions of `vespertide-core`, `vespertide-planner` and of the
revision command's prompts, as operators on values.

* A table is a record of a sequence of columns and a sequence of constraints,
  both in the code's order; a schema is a function from table names. Options are
  sequences of length 0 or 1, as in `Option`.
* Column types are simple types with a label, string enums and integer enums. A
  default keeps the difference between a string and a boolean, which the
  conversion to SQL erases.
* `Normalize` follows `TableDef::normalize` with its deduplication of inline
  forms, groups and named constraints.
* `Apply(schema, action)` is `apply_action`, `Err` where the code returns an
  error; `Replay` folds it.
* `DiffSchemas` is `diff_schemas` with Kahn's order of tables (a fold), the
  reversed order of deletions, and the final reorderings
  `SortCreateBeforeAddConstraint` and `SortEnumDefaultDependencies`. `NameOrder`
  is the alphabetical order of `BTreeMap` keys.
* `Validate` holds the checks that refuse a schema, a file or a plan, and
  `MissingFillWith`, which decides what the user is asked.
* `DropResolution` rewrites the plan for every combination of drops and renames.
* `Answers` is what the answers make of a plan: recreated tables, strategies for
  existing rows, widened keys, fill values. `Fill` follows the command line first:
  what `--delete-null-rows` names is no longer missing, but only a
  `ModifyColumnNullable` takes its flag; the prompt then fills the rest. Both
  `Revision` and `SqlMigration` use it.
* `Advisories` holds the detectors that only ask or warn: unique, foreign and
  primary keys that rows may violate, defaults that change, narrower types, time
  zones, reference policies, integer keys that may run out. Each finds a set of
  places in the plan; `Sessions` runs them in the command's order, each on the plan
  that the answers before it left, and collects what was asked. `DiffReport` and
  `Status` are the commands `vespertide diff` and `vespertide status`.

### Revision

The command as a state machine over the model files (`models`), the migration
files (`migrations`, keyed by what the pattern puts into their names) and, per
user, the command in progress (`cmd`). A behaviour starts by choosing a member of
`Projects`: the users, the models they may write, whether the pattern of file names
mentions the version and the message, the kinds of answers beyond plain
confirmations that are explored (renames, strategies, widened keys, fill values on
the command line, rows to delete, backfills) and a bound on versions. `Plan` is
everything up to
the first question: load, validate, replay, diff, recreate tables. `Answer` is
all questions in their order and the write; `Cancel` is a declined question or a
refused plan; `EditModels` is the developer. `written` is a ghost variable: the
models and the baseline for which the newest file was planned, its plan, what
its author was asked, and what `--delete-null-rows` named in it.

Answers are one step because the plan is local to the command: nothing another
user does between two questions is read before the write.

### SortDeletes

The loops that decide the order of tables, step by step, because their
correctness is about indices: `kahn_ready_order` (`KahnInit`, `Pop`), with a queue
of ready names and an in-degree per name, and `sort_delete_tables`: Kahn's order, the
stable sort of the slots of the `DeleteTable` actions by reversed position, and the
permutation applied in place with two index arrays. Its initial states are all
graphs on the names, cycles included.

### Database, Sql, SqlMigration

`Sql` is the query builder: the statements of every action for PostgreSQL, MySQL
and SQLite, built against the schema that the actions before it leave, as
`build_plan_queries` does; the rebuild of a SQLite table with its indexes and
CHECKs; enum types and their replacement; the statements that repair or fill rows;
the table prefix. A statement is a record with its operands, not a text. The name
of a constraint is the sequence of its parts, so distinct parts give distinct
names: truncation and the collisions that `_` allows are left out.

`Database` is external: what each backend does with such a statement, or that it
rejects it. It keeps a catalogue and a summary of the rows: whether there are any,
where the values of each column come from, which columns hold NULLs, and which
facts about them are known (distinct, no orphans, satisfying a CHECK). A new
table has no rows; `Populate` fills every table with the worst rows that its
constraints allow before a migration starts. SQLite has `foreign_keys` off, as by
default.

`SqlMigration` composes the planner with both. `Begin` writes a revision for any
member of the catalogue (with every answer to the drops, in the catalogues of
`Renaming`), puts the prefix on it and generates the SQL against the macro's own
baseline; `Statement` executes one statement; `Finish` evolves the two schemas.
`gaps` collects the circumstances that the generator is known not to handle as
they occur: `Gaps` names each of them, and the properties hold until the first.
`Faithful` compares the columns with their types, nullability, defaults and
AUTO_INCREMENT, keys, foreign keys, CHECKs, and indexes with their names. It does
not compare the names of the objects of a renamed table or of a table with a
renamed column, since the generator renames neither constraints nor enum types.
Its other half, `RowsSurvive`, says that rows and the values of columns that stay
are the ones from before.

### Checks, Repairs, Warnings

`Checks` is the analysis of CHECK expressions: the recursive-descent parser over
tokens, the type of a comparison, the search for contradictions, the order of
BETWEEN, defaults against a CHECK, and whether one CHECK is stricter than another.
`Repairs` is the sequence: the author writes a change, perhaps with a typing mistake
(`Mistype`); the planner refuses it or warns; a repair is chosen among those that are
offered; a database executes the statements on some rows. What the planner makes of a
CHECK and what a database does with it are parameters of `Repairs` (`ReadCheck`,
`Objections`, `Alarms`, `TargetColumn`, `IsFalse`, `IsIllTyped`), so that it rests on no
recursive operator and the proofs hold for any analysis of CHECKs. `Warnings` defines
what the configuration gives for them: the analysis in `Checks`, and the walk of
`cascade_reach.rs`.

`EditAssumption` says which changes and rows there are: a type changes within a family
(strings, decimals, integers, ...), a decimal has at most six integer digits, a key
identifies the rows, values fit the old type, and a CHECK of one column does not reject
a NULL in it.

The rows are explicit. A string is its length, a decimal a number of hundredths,
an integer type its bounds, and literals in CHECKs are tenths. The table has three columns
and, for foreign keys, a parent. Three-valued logic is explicit (`Holds`). Each
property compares the code with a reference definition over the rows: an
expression is written with `Write` and read back with `Parse`, `RefusalsAreRight`
compares a refusal with the set of rows that the CHECK accepts.

Left out: the repair for an added primary key, because no plan that the diff makes
holds an `AddConstraint` of a primary key with a strategy; and `SetToValue` with a
value that does not fit, since the prompt takes any text.

### LanguageServer

The server's state and its notification handlers. tower-lsp-server is external:
it runs the handlers as futures of one task, at most `MaxHandlers` at a time (four
by default), so that a handler runs alone from one await to the
next, and the only awaits are those of `publish_diagnostics`. Messages to the
client keep their order. The editor (`EditorOpen`, `EditorChange`, ...), other
programs that write model files and migrations, and the file watcher that reports
it later are the environment. At the start any workspace of `Workspaces` may be
on disk; a project may have no configuration, the standard directories or others.

What is computed is represented by what it is computed *from*: the diagnostics of
a document are its text, the tables they were validated against and the drift
entries with the text they were anchored in. A stale cache then shows as an
unequal record, whatever the computation would have found. The caches are those of
the code: the remembered fingerprint of the open documents, the workspace tables
keyed by it, the parsed tables per file and modification time, the drift results
keyed by the newest modification time and the fingerprint, and the symbols. The
entries of the first and of the fourth carry ghosts, the documents and the index
they were computed from, which say whether what is found is what was looked for.

`RingCache` computes without its lock and looks again before it inserts. That
second look is not modelled: with one task a computation is not interrupted, so
it never finds anything.

### Documents, Navigation, Diagnostics, Presentation, Assistance, Editing

The features that the language server offers on a document. Each walks the syntax
tree on its own and finds tables, columns and references by keys, so that one name
is read by a dozen pieces of code, and by serde. `LanguageServer` has the
interleavings and the caches; here every notification is handled before the next
step, and documents have contents.

`Documents` is the tree: a document is the sequence of its scalars, each with the
path of keys and positions above it and the words of its text. Braces, quotes and
white space are left out, and with them the commas that `insert_pair_edit` and
`remove_pair_edit` take care of. A key whose value is an empty array keeps it as a
scalar `[]`. `Parses` and `TableDef` are what serde and `normalize` make of it.
`Navigation` is references, rename and definition; `Diagnostics` the validation of a
workspace and the locator of each fault; `Presentation` outline, symbols,
highlights, hints, hover and semantic tokens with their relative encoding;
`Assistance` completion and code actions.

`Editing` has the user: `DidOpen`, `DidChange` (to one of the drafts), `DidSave`,
`DidClose`, and then a `Rename`, an accepted completion (`AcceptValue`,
`AcceptWord`) or a `CodeAction` at any place of any open document. Of two files with
one table name the listing of the directory decides which is known; it changes only
with the directory.

### Entities, Renderers, SeaOrm, Symbols, Export

A database name is a sequence of words, so that folding (`order-item` and
`order_item` become `OrderItem`) and the appended numbers are what they are in the
code without spelling out strings; the case of an identifier is left out because
each scope uses one. `Entities` holds the claiming of names and the scans of the
constraints that the renderers share. `Renderers` (Prisma, Drizzle, GORM, Django)
and `SeaOrm` render a schema to the *scopes* of the file (names that stand side by
side), its *entities* with columns and relation members, and its *enums*. JPA,
SQLAlchemy and SQLModel claim no names. Comments and the compact form `username` of
SeaORM's field names are left out.

`Symbols` is about all eight ORMs. It has, for each, the table of
types by which the body is rendered and the one by which the imports are collected,
where the code has two, and gives for a file what it imports and what it mentions.
Its second half reduces a rendered model to what it says of its table: the key, which
columns may be NULL, what is unique and indexed, the foreign keys with their action
on a delete, and for a default whether it is a literal, an expression for the
database, a function of the client, a string or nothing. A default is known by its
shape (`Shapes` in `MCExport`), which is all that the renderers look at.

`Export` is the command. `StartExport` loads the models in any order, since
`read_dir` promises none; `RemoveFile`, `CheckMarker`, `WriteFile` and
`DeclareModule` are single file operations (the modules of one file after those of
the other: `NextModel`); `Crash` kills the process between any
two of them and may leave the file being written without its first line or with
nothing after it. The user edits models and writes own files while no command
runs. The check of the marker and the write are separate steps; a file that
appears between them is not modelled. `PathsApart` and `OwnPathsApart` name what the
command does not look after: that each model has a file of its own, whose path is
made of module names for SeaORM, and that no file of the user's has the name of one
of Drizzle's.

## Runs

| Run | Instance | Shows |
|---|---|---|
| `runtime_transactional` | PostgreSQL, 2 processes, builds of length 1 to 3, 3 starts, 1 fault | `TypeOK`, `ExactlyOnce`, `HistoryIsComplete`, and the refinement `ImplementsLedger` |
| `runtime_branches` | MySQL, two branches with one version, decoder limit 2 | `RecordedIsApplied`: the row never precedes the statements, though half-applied migrations occur; `RowsAreFinal` with a divergent history and a version that reads as 0; `RunsEnd` |
| `runtime_divergence` | two branches, no overflow | **violation** of `DivergenceDetected` |
| `revision` | eight projects: a column in eight forms or absent; a table with eleven forms of keys, unique constraints, indexes, CHECKs; schemas of up to three tables with references either way; columns that change their types; foreign keys that change their policies; renames with every combination of answers; file names without the message; two users with every kind of answer | `Reloads` (every file loads, but for an addition named by `--delete-null-rows`, and replays), `Converges`, `ActionsInOrder`, `FilesAreFinal`, and `QuestionsFit`: everything that a file destroys or may fail on has been asked about, an exact rename is accepted and graded as such, `diff` and `status` announce what the revision does |
| `revision_key_column` | a composite key that loses a column | **violation** of `Replayable` |
| `revision_delete_rows` | a column that is added or becomes NOT NULL, and `--delete-null-rows` | **violation** of `EveryFileLoads` |
| `sort_deletes` | all 4096 graphs on four tables | `DependenciesFirst`, `AllPlaced`, `SwapsSort`, `ReferencingFirst`, `Terminates`, and `SameAsDiff`: the loop computes what `Diff` uses |
| `sql` | eleven catalogues, three backends, with and without a prefix, up to three migrations | `Accepted`: no statement is rejected; `Faithful`: the database is what the migrations replay to, and no row is lost |
| `repairs` | five thousand changes on three backends, with every row content of a catalogue | `RefusalsAreFounded`: a CHECK is read as written and refused for what is true of it; `WarningsAreExact`: stricter CHECKs, narrower types and cascades; `RepairSuffices`; `RepairsAreConfined`: innocent rows are spared and the chosen repair is what happens |
| `language_server` | two documents and their files, four events, two handlers | `DiagnosticsSettle`, for open and for closed documents; `DriftSettles`, `IndexFollowsClaim`, `SymbolsCurrent` |
| `editing` | three files in JSON and YAML, seven drafts, two events, saves and one edit anywhere | `NamesAgree`: resolver, search and go to definition; `RenamesAreSafe`: undone by a second rename, no new fault; `FaultsArePlaced`: shown, and in the right column; `ViewsAgree`: previews, hints, hover, outline and symbols against the definitions that serde makes, colours against the names that can be followed; `OffersAreValid`; `ActionsAreSafe` |
| `export` | seven families of schemas in every order of loading for five renderers; a column of 26 types with 11 defaults, and up to two of eight constraints with seven sets of foreign keys over two kinds of primary key, for eight renderers; two exports of eight ORMs with edits, own files and a kill | `NamesAreDistinct`, `RelationsPair`; `SymbolsResolve`: a file imports what it mentions, and Go nothing else; `ModelsStateSchema`: a model says of its table what the schema says; `ExportIsFresh`, `OwnFilesKept` |

`ActionsInOrder` is the conjunction of the orders that a database needs: tables
before the constraints that name them, references before what they refer to, and
an enum's default before its type. `Converges` includes the integer values of
enums that the baseline has to know.

### Bounds

* `MaxStarts = 3`, `MaxFaults = 1` with two processes: both race, one of them
  fails at any await or loses its commit, and is started again with any build
  while the other is still running. `m1` has two statements, one of them a
  repeatable data migration, so a run can stop between two statements; `m3` has
  none, like a plan that only changes comments on SQLite; `m1` has no id, like
  files written before ids existed.
* `I32Max = 2` in `runtime_branches` stands for 2^31-1: version 3 is then a
  version that the decoder rejects. `EarlyBranchBuilds` diverge at a version that
  the decoder accepts, and `BranchIdOf` gives both sides ids.
* Three versions let a revision follow two others, so a baseline is itself the
  result of a change and of a change back. The project with two users has two
  versions: two overlapping commands and one after them. Types and policies have
  two versions too: the questions depend on one plan and its baseline. So has
  `revision_delete_rows`, where the second command loads what the first wrote.
* Four names in `sort_deletes` are the fewest with a diamond of references and
  with a permutation that is not a single cycle. The proofs cover every number.
* `MaxMigrations = 3` in `sql`: a change meets a table that an earlier change has
  made. Each catalogue is small enough for every sequence of its members.
* `MaxCheckExprDepth = 2` stands for the 64 of the code. CHECKs have up to three
  predicates and up to three levels of parentheses, one more than is followed.
  The contents of a table are all sets of up to three rows over a few values for
  constraints, and one row with a value at and next to each boundary for types.
* Four editor events, one write by another program and one waiting notification
  are enough for a document to be opened, changed and closed while a handler that
  listed it is suspended. `Slots = 1` makes every cache evict. `MaxBusy = 0`
  answers requests only between handlers. `Restored` are the older contents that
  version control may bring back, with an older time stamp; `Now` is the time of
  everything written during the run.
* `MaxEvents = 2` and `MaxEdits = 1` in `editing`: a document is opened and another
  opened, or it is changed, and saved or not, before the edit; longer sequences only repeat such
  states, since nothing remembers more than the texts, the index and the tables. The
  drafts have what the features disagree about: an enum type with the name of a
  column, constraints before the columns, the table's name after them, a second
  table of one name, an empty list, a column without a type, the short form of a
  foreign key, a CHECK that is being typed.
* `MaxExports = 2` gives an export that is killed and one after it, for any two of
  the eight ORMs. Names with `-` are in a directory of their own in the naming
  families, since `order-item` and `order_item` are written to one file.

Deadlock is not checked where the system may stop: after `MaxStarts`, after the
last version, migration, event or export, and when a user does nothing more.
`RunsEnd` is the property that would notice a deadlock between processes, and
`Accepted` a migration that cannot go on.

### Fairness

`FairSpec` of `Runtime`, used by `runtime_branches`, is weak fairness of each
process's own steps: the executor keeps polling an async function, and the
database grants a lock that stays free. Starts, faults and lost answers are never
fair. `FairSpec` of `SortDeletes` is weak fairness of `Next`: a function that is
called runs. The other runs check safety; "in the end" in the language server is
the state in which nothing is on its way and no handler is suspended, which every
behaviour of the environment can reach.

## What the code does otherwise than it says

Three runs end in a violation:

* **`runtime_divergence`.** The id of a migration is documented as "used to
  detect history divergence", but ids are compared only for versions above
  `MAX(version)`. A build from another branch returns `Ok` against a database
  that recorded a different plan under the same version.
* **`revision_key_column`.** Deleting a column of a composite primary key emits
  `DeleteColumn` and then `ReplaceConstraint`; the replay of the first has
  already shrunk the key, the second does not find its old form, and every later
  command fails.
* **`revision_delete_rows`.** `handle_delete_null_rows` takes whatever
  `--delete-null-rows` names off the list of missing fill values, also a NOT NULL
  column that the plan adds, and sets its flag on `ModifyColumnNullable` alone
  (`prompts/fill_with.rs:253`). The file is written with neither; the loader then
  refuses it (`validate/plan.rs:74`), and with it every later command. `cli.rs:84`
  promises "Delete rows with NULL values instead of filling."

The instances or the properties of the passing runs name and leave out the
following, which were met while they were built.

Planner and revision:

1. A composite index loses a column and is removed in the same revision: the
   shrunk index stays in the baseline (`apply/column_ops.rs:191`).
2. The strategy that the command stamps on a unique constraint takes part in
   equality, so the next diff reports a `ReplaceConstraint`
   (`commands/revision/mod.rs:302`).
3. A variant added to an integer enum yields no action; the baseline never learns
   its value (`diff/columns.rs:76`).
4. A table that is recreated is also offered as a rename of itself
   (`commands/revision/emit.rs:192`).
5. `DeleteTable` precedes the removal of the column or constraint of a surviving
   table that references it (`diff/mod.rs:55`).
6. A renamed column with a named unique constraint keeps the `AddConstraint` of
   the new form (`drop_resolution.rs:424`).
7. A table with an inline primary key cannot be renamed: the comparison with the
   unnormalised addition reads as a removed key (`drop_resolution.rs:661`).
8. A renamed enum column changes its type before its default
   (`drop_resolution.rs:476`).
9. Overlapping commands write two plans with one version; `FilesAreFinal` says
   that no file is lost, not that versions differ (`plan.rs:28`).
10. Tables on a cycle of references are deleted in name order; `ReferencingFirst`
    is claimed for acyclic references only (`diff/ordering.rs:177`).
11. A column with a default becomes NOT NULL: the command does not ask for a fill
    value (`validate/plan.rs:228`), and the loader refuses the file for the lack of
    one (`validate/plan.rs:106`).
12. At version `u32::MAX` the next version saturates (`plan.rs:33`); the timeouts
    of a run are set after its `ALTER TABLE` (`runtime.rs:230`). Neither is in a run.
13. A pattern of file names without the version, or without the message where several
    users work, lets a revision overwrite an earlier file (`NamesAreOwn`).
14. A NOT NULL addition that `--delete-null-rows` names is written unfilled
    (`NamedForDeletion` in `Reloads`; see `revision_delete_rows`).

Questions and reports of the planner (`Risks` and `ReportsAgree` leave them out):

1. Inline auto-increment keys are never asked about, although `validate/sequence_exhaustion.rs:440`
   says that they "route through the normalised form in practice": the plan holds
   the table as it was written. The prompt offers `big_int` for an
   `AddConstraint` of a primary key, where the answer changes nothing.
2. The answer `big_int` changes the plan and not the model, so that the next revision
   narrows the column again (`Widened` in `Converges`).
3. A change of a default is not reported when the type changes too
   (`default_changes.rs`); a detector looks up a renamed table or column in the
   baseline by its new name and finds nothing.
4. `find_primary_key_additions` finds nothing in a plan that the diff makes. What
   `find_constraint_drops_without_replacement` finds is printed by `diff` alone. A
   `timestamptz` that becomes a `timestamp` always ends the revision.
5. `vespertide status` says that models and migrations are synchronised when the names
   of the tables agree, and `vespertide sql` compares models without a prefix with a
   baseline that has one.

SQL (each is a name in `SqlMigration!Gaps`):

1. A CHECK of a new table is not emitted (`create_table.rs:111`).
2. The prefix does not reach a foreign key that is declared on a column of a new
   table, nor `RemapEnumValues` (`prefix.rs:39`), although `prefix.rs:4` says "all
   table references in all actions".
3. A renamed table or column keeps the names of its constraints, indexes and enum
   types; statements that build those names from the new one miss them.
4. DROP TABLE comes before its references are gone; it leaves the enum types of
   PostgreSQL behind.
5. Two columns of a table that share an enum label share one PostgreSQL type, which
   is created twice and dropped with the first (`delete_column/direct.rs:27`);
   integer enums have no type, and it is dropped all the same.
6. A column that is part of a constraint on several columns, has a CHECK, or
   carries a foreign key in MySQL cannot be dropped.
7. An enum value renamed in one revision is updated before the new value exists
   (`prompts/fill_with.rs`); a text or integer becomes an enum without a look at
   the values; some casts of PostgreSQL need a USING that is not there.
8. MODIFY loses AUTO_INCREMENT in MySQL; NULLs of a column with a default are not
   filled when it becomes NOT NULL.
9. The CHECK of an integer enum in SQLite rejects `RemapEnumValues`
   (`remap_enum_values.rs:3`).
10. A new UNIQUE on a table without a single-column key has no way to tell
    duplicates apart; a replaced key, foreign key or CHECK does not repair rows; in
    SQLite a replaced index stays beside the new one (`replace_constraint.rs:177`).

Repairs and CHECK analysis (`KnownGaps`, `KnownVictims`, `UnderOrOrNot`,
`HasOtherLiteral`):

1. MySQL does not execute a DELETE or UPDATE whose subquery reads the same table;
   the NOT EXISTS of a foreign key of a table to itself does not depend on the row.
2. NULL: UNIQUE cleanup removes rows with NULLs, `DeleteOrphans` removes rows whose
   key is NULL, and a composite key that is partly NULL is cleared, although
   `unique_strategy.rs:13` and `fk_orphan_strategy.rs:15` say that the statement is a
   no-op on clean data.
3. `ContinueWithoutCleanup` still emits the DELETE when there is a usable key
   (`choices_and_apply/mod.rs`); the cleanup of a CHECK is always emitted, although
   `check_violation_strategy.rs` says that it is skipped; that of a primary key never
   is by a plan of the diff.
4. A decimal that loses digits on both sides is repaired on one; rounding can add a
   digit. A zoned timestamp that loses its zone stops in the prompt for narrowing
   types; a float type that shrinks has no strategy.
5. A contradiction under OR or NOT is refused although
   `check_self_contradiction.rs:39` says that OR is not analysed, BETWEEN is not
   decomposed, and a CHECK that "rejects every row" accepts rows with NULL.
6. A default is compared as text (`check_default.rs:84`), so that `now()`, an
   unquoted enum value, or an IN list with NULL or with 0 and 1 for Booleans is
   refused where SQL accepts it.
7. A redundant conjunct or a repeated IN value reads as a stricter CHECK. The depth
   of a cascade depends on the order of the stack, and foreign keys of new tables
   are not in its graph.

Language server:

1. The fingerprint of the documents is remembered by their versions and lengths
   (`cache.rs:195`), so that a document that is closed and opened again can keep an
   old one. A list of tables or drift entries filed under it then is found later,
   when the fingerprint is right again (`Reopened`, `ListStale`, `DriftStale`). The
   key of the drift entries says nothing of the index either, which decides the
   document an entry is attached to: with two open documents of one table name, closing
   and opening one moves the entries only after the next change.
2. The drift cache is keyed by the newest time stamp of `models` and `migrations`,
   without subdirectories and whatever the configuration says (`drift/cache.rs:193`,
   `drift/compute.rs:44`): deleted and restored files go unseen (`ghost.unseen`).
3. The symbols of the workspace are keyed by the open documents, although half of
   them come from disk (`symbols.rs:120`).
4. A name that two documents declared is lost when the last claimant closes
   (`workspace_index.rs:67`); `IndexFollowsClaim` states what the code does.
5. Two files with one table name: the commands refuse them, but drift detection loads
   the models without that check (`models.rs:100`), and the table that `read_dir` lists
   last is the one compared (`diff/mod.rs:39`). `LoadedModels` is therefore a set;
   `DriftSettles` says that what is shown comes from one member of it.

Language server, features:

1. A rename leaves the `columns` arrays of table constraints
   and the short form of a foreign key as they are, although `rename.rs:5` promises
   "definition + every usage" (`references/search.rs:138`). It also renames a
   constraint or an enum type that has the name of the column.
2. Highlights compare texts, keys included, although
   `file_features.rs:150` says that they re-use the decision of `resolve_symbol`.
3. The items of a YAML list in block style have no token, although
   `classify_yaml.rs:1` says "Same semantic mapping".
4. A `columns` list inside a constraint that comes first hides the
   columns of the table from the hints (`inlay_hints.rs:4`: "For every column object
   in `columns`"); the locator of diagnostics and go to definition search the same
   way, hence the exceptions in `AnchorsAreRight` and `DefinitionAgrees`. The hints
   are placed after the opening brace, not "at the closing `}`".
5. With the cursor inside a type or a foreign key, the actions
   write `primary_key` and the like into that object (`code_actions.rs:1`: "for the
   column under the cursor").
6. An empty `ref_columns` is reported under the table that is
   referred to (`validate/foreign_keys.rs`), and not shown unless that table is open.

Exporter (`PathsApart`, `OwnPathsApart`, `NamesGap`, `RelationsGap`, `TextGap`, `MixedEnumGap`, `UniquesGap`, `IndexesGap`, `KeysGap`, `DefaultsGap`):

1. Columns that differ in `-` and `_` only are rendered under one name by Prisma,
   Drizzle and SeaORM; model and enum names of Prisma are not claimed at all, and an
   enum that was qualified with its table can meet one of that name
   (`prisma/enums.rs:42`).
2. Two tables that reference each other get two relations without a name in Prisma
   and Drizzle (`constraint_scan.rs:178`). Of two keys on one column Prisma renders
   one forward and two back relations.
3. SeaORM: `via_rel` names the relation enum that the other side would have without
   a collision; a third collision repeats the second's name; forward relations follow
   a chain of keys and reverse ones do not.
4. The sweep removes every file with the extension, although
   `commands/export/mod.rs:423` says that `schema.prisma` is the user's own; Drizzle
   overwrites an own `models.pg.ts`. `OwnFilesKept` is about the ORMs that do not
   sweep and the files that they do not write unasked.
5. A `models.go` or `models.py` whose write was cut off before its first line is
   refused by the next export as not generated.
6. SeaORM modules: `build_output_path` keeps `-` in directories while
   `ensure_mod_chain` writes `_`; `user.v2.json` becomes `user_v2.rs` and
   `pub mod user;`; two model paths can fold to one file; names depend on the order of
   `read_dir`.
7. SQLModel renders a default that is a bare word, JSON or `CURRENT_TIMESTAMP` with
   `text(...)`, which it imports only if some default has a parenthesis
   (`sqlmodel/render.rs:153`, `:385`).
8. GORM: a column of two composite unique constraints carries the name of the last
   one only (`gorm/render.rs:308`), so the first is stated on fewer columns and is
   stricter than in the database.
9. What is not stated: uniqueness and indexes of one column of a larger primary key
   (SQLAlchemy, SQLModel, JPA, GORM, SeaORM); uniqueness of a key column and keys on
   several columns (JPA); keys on several columns or to a column that is not unique
   (Django, as comments); indexes on several columns (SeaORM, as comments); all but
   the last of several keys on one column (all but Drizzle and SeaORM, and SeaORM
   then links the table to itself twice under one name).
10. Defaults: SQLAlchemy renders `CURRENT_TIMESTAMP` and the name of a variant of an
   integer enum as a string, SQLModel the latter as SQL; SeaORM renders an expression
   as a string or, on a numeric column, as Rust code.
11. Drizzle declares an enum once for each label, and the first column with the label
   decides (`collect_table_enums`): if that is an integer enum, which needs no
   declaration, a later string enum of the label loses its own, and its columns name a
   const that nothing declares or imports (`MixedEnumGap`, found by the proof of
   `SymbolsAlwaysResolve`).
12. Not checked here: JPA initialises a field without looking at its Java type (a
   string for an enum); JPA, SQLAlchemy and SQLModel declare an enum once for each
   column that has it; JPA names a key `user_id` and a column `user` alike.

## Proofs

All theorems hold for every value of the constants that satisfies the named
assumptions.

**`RuntimeProofs`.** `BuildAssumption` says that versions are positive and that a
build lists its plans in increasing version, which the loader's sort and the
uniqueness of versions within one build give; `ConstantAssumption` types the
bounds. `TypeCorrect` needs `LoopInBounds` beside `TypeOK`: the statement at hand
belongs to a migration of the build. `AppliedExactlyOnce` is
`Spec => []ExactlyOnce`: on a transactional backend, for any number of processes,
builds and branches, failures and restarts, a recorded migration has taken
effect exactly once and an unrecorded one not at all. `ExactlyOnce` alone is not
inductive, because a commit publishes what the transaction has collected. `TxnInv`
adds what an open transaction may hold:

* `OpenTxn`: something is uncommitted only between `BEGIN` and the end;
* `RanMatchesIns`: a transaction holds all the statements of the migrations whose
  rows it holds, and of the current one those already passed;
* `InsBehind`: those migrations lie behind the loop's position, so a build does
  not insert one twice (this is where increasing versions are used);
* `KeysApart`: no uncommitted row clashes with a committed one or with another
  transaction's.

A commit then moves exactly the right statements from 0 to 1. Nothing is assumed
about `seen`: correctness does not rest on the version read, only on the primary
key. `runtime_transactional` checks `ExactlyOnce` on its instance.

The rest of what the runner promises, on every backend:

* `RowsStayFinal` is `Spec => RowsAreFinal`, from `UncommittedRows`: a row that waits
  for its commit has a key that nobody else has stored or holds. It is the part of
  `KeysApart` that MySQL has too.
* `RecordedMeansApplied` is `Spec => []RecordedIsApplied`. On MySQL nothing is atomic
  between a statement and the row, so the invariant `StepsInEffect` is about the
  loop: each statement before `step`, and all those of the migrations whose rows wait,
  are in the process's transaction or have taken effect.
* `HistoryStaysComplete` is `Spec => [](Linear => HistoryIsComplete)`. `Linear`
  says that the builds are releases of one history, a shorter one being the beginning
  of a longer one; without it versions clash, which `runtime_divergence` shows.
  `LoopPassed` says that what the loop has passed is recorded or waits for the
  commit, and that what it skips on account of `version` is recorded; the decoder limit
  only makes the loop try a version again, and the key then refuses it.
* `RunnerImplementsLedger` is `Spec => ImplementsLedger` under `Linear` on PostgreSQL and
  SQLite: a commit with rows is `Ledger!Upgrade` of the process's build, every other
  step a stutter. That the upgrade starts at the newest row, although the run read
  `MAX(version)` long before, follows from `UncommittedRows` and `LoopPassed`. On MySQL
  the refinement does not hold, since other processes see half a migration.

**`OrderingProofs`.** `KahnOrders`: for every finite set of names and every graph,
each placed name comes after its dependencies, and without a cycle (every
non-empty set of names has a member with no dependency in it) all names are
placed. The invariant is `DegreesCount` (the in-degree counts the dependencies
that are not placed yet), `ReadyOnce` (a name is queued or placed at most once,
exactly when its count is 0) and `DependenciesFirst`. `KeyOrderAssumption` says
that the ordered map enumerates each set of names once.

On top of that, `SwapsAreCorrect`: the swaps with two
index arrays apply exactly the sorted permutation; and `ReferencingTablesFirst`:
without a cycle, every table is deleted after all tables that reference it.
`SortInv` says that the two arrays are inverse to each other and describe the
slots (`ArraysAgree`), that the slots before the current one are final
(`PrefixDone`), and that the target order is sorted (`RanksSorted`).

`DiffUsesKahnsOrder` carries this to the plans: `kahn_ready_order` is a loop in `SortDeletes` and
a fold in `Diff`, and they compute the same order for every finite graph.
`SameKeyOrderAssumption` says that both enumerate a set of names alike. The fold takes as
many turns as there are names; `FoldInv` says that after as many turns as the loop has
made, the fold holds the loop's queue, counts and order, and `FoldTurns` that the turns
left over change nothing.

**`SequenceFacts`.** The induction over data that these proofs need. The library's
induction rules take a predicate; here it is a set, the lengths of which the claim holds
(`UpTo`). The library's folds are recursive functions on the subsets of the indices, whose
existence has to be shown: `FoldIter` shows it (`FoldsBy`) for a step that does not leave
a set of states, and after each turn the fold then has the state that one expects. `ConcatRange` and `FlattenRange` say what `FlattenSeq`
contains.

**`LanguageServerProofs`.** For any number of documents, notifications on their way
and suspended handlers. `ServerAssumption` types the constants and says that there are
finitely many documents and that a valid text declares a table.

* `IndexIsRight` needs `NamesKept`: the two maps of the index and the claims agree.
* `DiagnosticsAreRight` rests on two invariants. `InboxFollowsEditor` relates the
  notifications on their way to the editor: the last one about a document brings what
  the editor has, and a change comes for a document that is open by then, with a newer
  version and another text. `ShownInv` says of each open document that it shows the
  tables as they are, or that a suspended handler is going to publish it
  (`Covered`), or that the list found is that of other documents; and of the cached list
  that it is right for the documents it remembers.

`DriftIsRight` follows the two caches behind the drift entries: as long as every
change of the disk advances a time stamp, what was loaded under the present ones is
one of the readings of the disk (`LoadedKept`), the entries remembered under them were
found in it and not in another one (`DriftsKept`), and a document shows those, or is
going to be published, or the client has not reported the change (`DriftShown`). That
all documents agree on one reading comes from the first cache: it is read anew only
when a time stamp has changed. `SymbolsAreRight` holds although the rings are keyed by
the fingerprint alone: until a file is written, a buffer at version 1 has the text of its file
(`StartsFromDisk`), so that documents that are equal in version and length are equal
(`DigestFollows`).

The exceptions `ListStale` and `DriftStale` are what the proofs asked for. The invariant
was not preserved by closing and opening a document, and the counterexample to the
induction is a run of the server: a result is filed under the fingerprint of documents
that are gone, is not found while the fingerprint is another, and is found when it
is right again. Nor was it preserved by a change of the index, which is not in the key.

**`RevisionProofs`.** `FilesStayFinal` is `Spec => FilesAreFinal` for any number of users
whose commands overlap. `FilesInv` says that a name holds the version of its
file and that the name a command is going to write is free (`NamesAreFree`). The second is
what survives the wait for answers: meanwhile others may plan the same version, but write
it under another name. `NamesAreOwn` is a hypothesis inside `FilesAreFinal`. The
theorem uses neither the diff nor the questions; the plan may be any.

**`ExportProofs`.** For any models, ORMs, edits, own files and kills.
`ProjectsAssumption` types the models and says that there are finitely many.

* `FinishedExportIsFresh` is `Spec => []ExportIsFresh` under `PathsApart`. `FreshInv`
  carries the promise through the command: while files are written, what is missing
  is still to be written and the sweep has left nothing else (`WritingInv`); while modules
  are declared, a declaration is made, or in the chain at hand, or in that of a later file,
  and no other is made (`ChainingInv`). `ChainsComplete` shows that the chains of all files
  declare every directory on the way, from the properties of `SubSeq` and `Append`.
* `OwnFilesStay` is `Spec => OwnFilesKept` under `OwnPathsApart`: where a command that does
  not sweep is about to write, no file of the user's is.

* `SymbolsAlwaysResolve` is `Spec => []SymbolsResolve`: of any models, the file that any of
  the eight ORMs renders imports what it mentions. One lemma per ORM (`SqlModelResolves`,
  `GormResolves`, ...) goes through the types and defaults and compares the pass over the
  columns that collects the imports with the one that writes the body; `LoadedColumns`
  says that the models a command has loaded are of the form that the lemmas ask for.
  Drizzle needs more, because its imports depend on what a whole schema declares:
  `TableEnums` and `CustomTypesFound` say what the folds `collect_table_enums` and
  `CustomTypes` leave, by induction over the columns, and `PgEnumDeclared` that a column
  naming an enum has its declaration. The last was false at first, and `MixedEnumGap` is
  the case in which it is.

**`RepairsProofs`.** For any changes and rows that `EditAssumption` admits, any analysis of
CHECKs and any backend.

* `RepairsStayConfined` is `Spec => []RepairsAreConfined`, which also speaks of the rows in
  the middle of a migration and after its failure. It is not inductive, since the rows say
  nothing of the statements that are left. `RowInv` ties the two together: what was decided
  stays decided (`Settled`), and the rows are those from before the migration with all its
  statements left, or `Repaired`, what the one statement of the repair makes of them, with
  statements left that change no row, or `Final` (`RowsFollow`). The rest is about these
  two sets, case by case of the change and of the strategy.
* `RepairsMakeRowsFit` is `Spec => []RepairSuffices`: outside of `KnownGaps` no statement is
  rejected, and the rows are as the constraint or the type wants them. The one thing to add
  to `RowInv` is that a migration fails in the gaps alone (`FailsInGaps`). A narrowing needs
  the arithmetic of the types: rounding is idempotent and keeps what a finer scale keeps
  (`Rounding`); a value that no WHERE clause selects is one of the new type
  (`UnselectedValuesFit`), and so are zero and what truncation leaves (`ZeroFits`,
  `TruncatedValuesFit`). Of the duplicates of a group one row stays because the key
  identifies it (`ConstraintFits`).

Strategies matter only where they are offered: the second proof uses that NULL is
offered for nullable columns alone, and truncation only for strings and scales.

The instances of the runs satisfy these hypotheses: `MCExport` assumes `PathsApart` and
`OwnPathsApart`, and the builds of `runtime_transactional` are `Linear`.

Only model-checked:

* `RunsEnd` and `Terminates`, since liveness under fairness is outside the prover.
* `Reloads`, `Converges`, `ActionsInOrder` and `QuestionsFit` of `Revision`, and `Accepted`
  and `Faithful` of `SqlMigration`. They are about what folds over plans compute: an
  induction over the length of a plan with a predicate, which the installed provers
  cannot instantiate.
* The properties of `Editing`, which compare operators over the tree of a document: the
  children of a node are found by folds over paths of any depth.
* Of what `Export` renders: `NamesAreDistinct` needs that appending different numbers gives
  different words (`ToString` of the library is not known to the provers);
  `RelationsPair` and `ModelsStateSchema` compare two independent descriptions of a schema
  through several folds with operators as arguments.
* `RefusalsAreFounded` and `WarningsAreExact` of `Warnings`, which rests on RECURSIVE
  operators (a parser and a walk over a graph): the SMT backend is lost in every module that
  reaches one.

## Not modelled

* **Timeouts** bound the waits of `Runtime` from outside; which connection of the
  pool carries which setting is up to the pool.
* **Texts**: the wording of SQL beyond what a database distinguishes, messages,
  file formats, the spelling and truncation of names.
* **Enum fill values** beyond the first choice, and repairs with a value of the
  author's that does not fit.
* **Warnings about raw SQL**, and the text and layout of the others.
* **Language server**: completion of keys and of whole objects, folding and
  selection ranges, formatting, syntax errors, the warnings about sequences and
  CHECK expressions. A configuration that appears or breaks while the server
  runs, and the caches that are keyed by the text they are computed from.
* **Renderers**: the spelling of types, values and names, lengths, comments, `ON
  UPDATE` and the layout of the files.
* **Configuration, diagrams, the other read-only commands, init, new, schema generator,
  site and extensions**: text generation and I/O without state.

The crates have about 86,500 lines, of which some 48,000 are not tests: most files
carry their tests. The larger part of the rest renders text (ORM code, SQL
through a query builder, messages, diagrams) or computes positions in documents.
The map names the lines that decide something; it does not count the rendering
around them.

## Plan

Done: the runner and its ledger; the planner and the revision command; the order
of tables; the SQL of migrations on three backends; the repairs of rows and the
analysis of CHECKs; the language server's state and its features; the export command and
the renderers; the theorems above.

What is left to prove, in the order of its worth:

1. Of the operators of `Diff` and `Apply`, lemmas for single actions: `Apply` keeps the
   names of a table's columns apart; `SortCreateBeforeAddConstraint` and
   `SortEnumDefaultDependencies` permute a plan. With `SequenceFacts` they are the way to
   `ActionsInOrder`.
2. `NamesAreDistinct`, with the injectivity of the appended numbers as an assumption.
