------------------------------- MODULE Export -------------------------------
(***************************************************************************)
(* The export command: crates/vespertide-cli/src/commands/export/mod.rs.   *)
(* It loads and normalises the models, renders them for one ORM and brings *)
(* the export directory up to date, one file at a time.  A user edits the  *)
(* models and keeps files of their own in the same directory; the command  *)
(* can be killed between any two steps and in the middle of a write.       *)
(***************************************************************************)
EXTENDS Symbols

CONSTANTS Projects,   \* Records [versions, orms, exports]: the contents that
                      \* the models directory takes, the ORMs that are asked
                      \* for and a bound on the number of commands.
          OwnPaths    \* The files that a user may write in the export directory.

\* A model is [dirs, stem, table]: where its file is and what it declares.
ASSUME ProjectsAssumption ==
    \A p \in Projects : \A version \in p.versions :
        /\ IsFiniteSet(version)
        /\ \A m \in version : /\ DOMAIN m = {"dirs", "stem", "table"}
                              /\ m.dirs \in Seq(Seq(STRING))
                              /\ m.stem \in Seq(STRING)
                              /\ {"name", "cols", "cons"} \subseteq DOMAIN m.table
                              /\ m.table.cols \in Seq(ToSet(m.table.cols))

VARIABLES project,    \* what the user does in this behaviour
          models,     \* the models on disk, a set
          dir,        \* the export directory: a function from paths to contents
          job,        \* the command that runs, or how the last one ended
          exports     \* how many commands have started
vars == <<project, models, dir, job, exports>>

----------------------------------------------------------------------------
(* Files.                                                                  *)

Orms == {"seaorm", "sqlalchemy", "sqlmodel", "jpa", "prisma", "drizzle", "gorm", "django"}
FilePerTable == {"seaorm", "sqlalchemy", "sqlmodel", "jpa"}
Sweeping == FilePerTable \cup {"prisma"}
Marked == {"gorm", "django"}

FileExtension(orm) ==
    CASE orm = "seaorm" -> "rs"
      [] orm \in {"sqlalchemy", "sqlmodel", "django"} -> "py"
      [] orm = "jpa" -> "java"
      [] orm = "prisma" -> "prisma"
      [] orm = "drizzle" -> "ts"
      [] orm = "gorm" -> "go"

Path(dirs, stem, ext) == [dirs |-> dirs, stem |-> stem, ext |-> ext]

\* build_output_path: the file name becomes an identifier, the directories
\* stay as they are.  Java class names keep `-` apart from `_`.
BuildOutputPath(m, orm) ==
    Path(m.dirs, IF orm = "jpa" THEN m.stem ELSE Words(m.stem), FileExtension(orm))

\* What a file holds: a user's text, an unfinished write, the module list of
\* a directory, or a rendering of the loaded models.
Own == [by |-> "user", table |-> <<>>, of |-> <<>>, mods |-> {}]
ModFile(mods) == [Own EXCEPT !.by = "mods", !.mods = mods]
Rendered(orm, table, of) == [by |-> orm, table |-> table, of |-> of, mods |-> {}]

\* What is left of a write that was cut off, before or after the first line.
Torn(content) == {[Own EXCEPT !.by = "torn"], [content EXCEPT !.of = <<>>, !.mods = {}]}

\* The fixed files of the ORMs that render the whole schema at once.
FixedFiles(orm) ==
    CASE orm = "drizzle" -> <<<<"model", "s", "pg">>, <<"model", "s", "mysql">>,
                              <<"model", "s", "sqlite">>>>
      [] OTHER -> <<<<"model", "s">>>>

\* The files of an export with their contents, in the order of the code.
Outputs(orm, loaded) ==
    IF orm \in FilePerTable
    THEN [i \in DOMAIN loaded |->
             <<BuildOutputPath(loaded[i], orm),
               Rendered(orm, loaded[i].table.name, loaded)>>]
    ELSE [i \in DOMAIN FixedFiles(orm) |->
             <<Path(<<>>, FixedFiles(orm)[i], FileExtension(orm)),
               Rendered(orm, <<>>, loaded)>>]

\* ensure_mod_chain: from the file up to the root, each directory's mod.rs
\* declares its child.  Here the directories are module names as well.
ModPath(dirs) == Path(dirs, <<"mod">>, "rs")
ModChain(m) ==
    LET comps == Append(WordsOfAll(m.dirs), Words(m.stem))
    IN  [i \in DOMAIN comps |->
            LET depth == Len(comps) - i
            IN  <<ModPath(SubSeq(comps, 1, depth)), comps[depth + 1]>>]

----------------------------------------------------------------------------
Idle == [pc |-> "idle", orm |-> "none", loaded |-> <<>>, writes |-> <<>>,
         declared |-> 0, chain |-> <<>>]

Init ==
    /\ project \in Projects
    /\ models \in project.versions
    /\ dir = <<>>
    /\ job = Idle
    /\ exports = 0

Running == job.pc \notin {"idle", "done", "failed", "refused"}
Write(path, content) ==
    dir' = [p \in DOMAIN dir \cup {path} |-> IF p = path THEN content ELSE dir[p]]

\* The user saves a change of the models.
EditModels ==
    /\ ~Running
    /\ models' \in project.versions \ {models}
    /\ job' = Idle
    /\ UNCHANGED <<project, dir, exports>>

\* The user writes a file of their own, over a generated one if it is there.
WriteOwnFile(path) ==
    /\ ~Running
    /\ project.exports > 1
    /\ path \in DOMAIN dir => dir[path] # Own
    /\ Write(path, Own)
    /\ job' = Idle
    /\ UNCHANGED <<project, models, exports>>

\* load_models_recursive takes the files in the order of the directory; a
\* model that cannot be normalised ends the command before it has touched
\* the export directory.
StartExport(orm) ==
    /\ ~Running
    /\ exports < project.exports
    /\ orm \in project.orms
    /\ exports' = exports + 1
    /\ \E order \in SetToSeqs(models) :
        LET loaded == [i \in DOMAIN order |->
                          [order[i] EXCEPT !.table = Normalize(@)]]
        IN  job' = IF \E m \in models : NormalizeFails(m.table)
                   THEN [Idle EXCEPT !.pc = "failed"]
                   ELSE [Idle EXCEPT !.pc = "loaded", !.orm = orm, !.loaded = loaded]
    /\ UNCHANGED <<project, models, dir>>

\* Mutant: the sweep does not enter subdirectories.
SweptAtRoot(orm) ==
    {p \in DOMAIN dir : p.ext = FileExtension(orm) /\ p.dirs = <<>>}

\* clean_dir_recursive removes the files with the ORM's extension in any
\* order, whoever wrote them.
Swept(orm) == {p \in DOMAIN dir : p.ext = FileExtension(orm)}
RemoveFile(path) ==
    /\ job.pc = "loaded" /\ job.orm \in Sweeping
    /\ path \in Swept(job.orm)
    /\ dir' = [p \in DOMAIN dir \ {path} |-> dir[p]]
    /\ UNCHANGED <<project, models, job, exports>>

ToWriting ==
    job' = [job EXCEPT !.pc = "writing", !.writes = Outputs(job.orm, job.loaded)]

EndSweep ==
    /\ job.pc = "loaded" /\ job.orm \in Sweeping
    /\ Swept(job.orm) = {}
    /\ ToWriting
    /\ UNCHANGED <<project, models, dir, exports>>

\* Drizzle overwrites its three files without looking.
SkipSweep ==
    /\ job.pc = "loaded" /\ job.orm = "drizzle"
    /\ ToWriting
    /\ UNCHANGED <<project, models, dir, exports>>

\* Mutant: an existing file is not looked at.
MarkerUnread(path) == TRUE

\* cmd_export_models_file overwrites a file that starts with the marker.
HasMarker(path) == path \in DOMAIN dir => dir[path].by = job.orm
CheckMarker ==
    /\ job.pc = "loaded" /\ job.orm \in Marked
    /\ IF HasMarker(Outputs(job.orm, job.loaded)[1][1]) THEN ToWriting
       ELSE job' = [Idle EXCEPT !.pc = "refused", !.orm = job.orm]
    /\ UNCHANGED <<project, models, dir, exports>>

\* The files of a file-per-table export are written together, in any order.
MayWrite(i) == i \in DOMAIN job.writes /\ (job.orm \notin FilePerTable => i = 1)
WriteFile(i) ==
    /\ job.pc = "writing" /\ MayWrite(i)
    /\ Write(job.writes[i][1], job.writes[i][2])
    /\ job' = [job EXCEPT !.writes = RemoveAt(@, i)]
    /\ UNCHANGED <<project, models, exports>>

EndWriting ==
    /\ job.pc = "writing" /\ job.writes = <<>>
    /\ job' = IF job.orm = "seaorm"
              THEN [job EXCEPT !.pc = "chaining"]
              ELSE [job EXCEPT !.pc = "done"]
    /\ UNCHANGED <<project, models, dir, exports>>

\* The modules are declared one file after the other.
NextModel ==
    /\ job.pc = "chaining" /\ job.chain = <<>>
    /\ job.declared < Len(job.loaded)
    /\ job' = [job EXCEPT !.declared = @ + 1,
                          !.chain = ModChain(job.loaded[job.declared + 1])]
    /\ UNCHANGED <<project, models, dir, exports>>

\* A declaration is appended to the module list unless it is there.
DeclareModule ==
    /\ job.pc = "chaining" /\ job.chain # <<>>
    /\ LET path == job.chain[1][1]
           before == IF path \in DOMAIN dir THEN dir[path].mods ELSE {}
       IN  Write(path, ModFile(before \cup {job.chain[1][2]}))
    /\ job' = [job EXCEPT !.chain = Tail(@)]
    /\ UNCHANGED <<project, models, exports>>

EndChaining ==
    /\ job.pc = "chaining" /\ job.chain = <<>>
    /\ job.declared = Len(job.loaded)
    /\ job' = [job EXCEPT !.pc = "done"]
    /\ UNCHANGED <<project, models, dir, exports>>

\* The process is killed; a file that was being written is left unfinished.
Crash ==
    /\ Running
    /\ project.exports > 1
    /\ job' = [Idle EXCEPT !.pc = "failed"]
    /\ \/ UNCHANGED dir
       \/ \E i \in DOMAIN job.writes : \E content \in Torn(job.writes[i][2]) :
              MayWrite(i) /\ Write(job.writes[i][1], content)
       \/ \E content \in Torn(ModFile({})) :
              job.chain # <<>> /\ Write(job.chain[1][1], content)
    /\ UNCHANGED <<project, models, exports>>

Next ==
    \/ EditModels
    \/ \E path \in OwnPaths : WriteOwnFile(path)
    \/ \E orm \in Orms : StartExport(orm)
    \/ \E path \in DOMAIN dir : RemoveFile(path)
    \/ EndSweep
    \/ SkipSweep
    \/ CheckMarker
    \/ \E i \in DOMAIN job.writes : WriteFile(i)
    \/ EndWriting
    \/ NextModel
    \/ DeclareModule
    \/ EndChaining
    \/ Crash

Spec == Init /\ [][Next]_vars

----------------------------------------------------------------------------
(* The renderings of the loaded models.                                    *)

LoadedTables == [i \in DOMAIN job.loaded |-> job.loaded[i].table]

Renderings(orm, tables) ==
    CASE orm = "prisma" -> {PrismaSchema(tables)}
      [] orm = "drizzle" -> {DrizzleSchema(tables, d) : d \in {"pg", "mysql", "sqlite"}}
      [] orm = "gorm" -> {GormPackage(tables)}
      [] orm = "django" -> {DjangoModule(tables)}
      [] orm = "seaorm" -> {SeaOrmFiles(tables)}
      [] OTHER -> {}

\* Columns that differ in `-` and `_` only: just GORM and Django tell them
\* apart.  And SeaORM links a table to itself, both ways under one name, when
\* a column of a larger key is in two foreign keys.
FoldedColumns(table) == ~IsInjective(WordsOfAll(ColumnSeq(table)))
RepeatedKey(tables) ==
    \E t \in ToSet(tables) : ~IsInjective([k \in DOMAIN Fks(t) |-> Fks(t)[k].cols])
NamesGap(orm, tables) ==
    \/ orm \notin Marked /\ \E t \in ToSet(tables) : FoldedColumns(t)
    \/ orm = "seaorm" /\ RepeatedKey(tables)

DistinctNames(orm, tables) ==
    \A r \in Renderings(orm, tables) : \A i \in DOMAIN r.scopes : IsInjective(r.scopes[i])

\* No two columns, relations, types, constants or relation enums that a
\* rendered file declares side by side have one name: claim_binding,
\* claim_field_name and ScopeNames::claim reach every name that can repeat,
\* in whatever order the models were loaded.
NamesAreDistinct ==
    job.pc = "loaded" /\ ~NamesGap(job.orm, LoadedTables) =>
        DistinctNames(job.orm, LoadedTables)

EntityOf(r, table) ==
    SelectSeq(r.entities, LAMBDA e : e.table = table)
RelationsOf(e) == {e.members[i].relation : i \in DOMAIN e.members}
Between(e, other, label) ==
    Cardinality({i \in DOMAIN e.members :
        /\ e.members[i].relation.other = other
        /\ e.members[i].relation.label = label})

\* Prisma and Drizzle find the other end of a relation by its label.
LabelsPair(r) ==
    \A e \in ToSet(r.entities) : \A m \in RelationsOf(e) :
        EntityOf(r, m.other) # <<>> =>
            LET end == EntityOf(r, m.other)[1]
                opposite == IF m.side = "forward" THEN "back" ELSE "forward"
            IN  /\ \E n \in RelationsOf(end) :
                      /\ n.side = opposite /\ n.other = e.table
                      /\ n.cols = m.cols /\ n.label = m.label
                /\ Between(e, m.other, m.label) = IF end = e THEN 2 ELSE 1

\* The fields that a GORM tag or a Django to_field names are columns.
FieldsExist(r) ==
    \A e \in ToSet(r.entities) : \A m \in RelationsOf(e) :
        EntityOf(r, m.other) # <<>> =>
            LET end == EntityOf(r, m.other)[1]
                holder == IF m.side = "back" THEN end ELSE e
                target == IF m.side = "back" THEN e ELSE end
            IN  /\ ToSet(m.keys) \subseteq ToSet(holder.columns)
                /\ ToSet(m.refs) \subseteq ToSet(target.columns)

\* A Django model between two others has a ForeignKey to both.
ThroughLinks(r) ==
    \A e \in ToSet(r.entities) : \A m \in RelationsOf(e) :
        m.side = "through" =>
            \E j \in ToSet(EntityOf(r, m.via[1])) :
                {e.table, m.other} \subseteq
                    {n.other : n \in {l \in RelationsOf(j) : l.side = "forward"}}

\* via_rel and the roles of a SeaORM link name relation enums that are there.
RelationEnumsExist(r, tables) ==
    /\ \A e \in ToSet(r.entities) : \A m \in RelationsOf(e) :
          m.side = "back" /\ m.via # Absent =>
              \E n \in RelationsOf(EntityOf(r, m.other)[1]) :
                  n.side = "forward" /\ n.cols = m.cols /\ n.label = m.via
    /\ \A t \in ToSet(tables) : \A link \in ToSet(SelfRefLinks(t, tables)) :
          link.roles \subseteq ToSet(RelationEnums(EntityOf(r, link.junction)[1]))

\* One name stands for one list of values.
EnumsAgree(r) ==
    \A x, y \in r.enums : x[1] = y[1] => x = y

EndsFit(orm, tables) ==
    \A r \in Renderings(orm, tables) :
        /\ EnumsAgree(r)
        /\ orm \in {"prisma", "drizzle"} => LabelsPair(r)
        /\ orm \in Marked => FieldsExist(r) /\ ThroughLinks(r)
        /\ orm = "seaorm" => RelationEnumsExist(r, tables)

\* What the two backends with labels do not tell apart: two tables that
\* reference each other, two keys on one column, and in Prisma an enum that
\* was qualified with its table from an enum with that name.
MutualReferences(tables) ==
    \E a, b \in ToSet(tables) :
        a # b /\ FksTo(a, b) # <<>> /\ FksTo(b, a) # <<>>
QualifiedEnumTaken(tables) ==
    \E d, e \in ToSet(SchemaEnums(tables)) :
        Words(d.table) \o Words(d.type.label) = Words(e.type.label)

\* What SeaORM does not: keys of one table whose relation enums collide (the
\* other side keeps the first name), and keys to keys (the other side does
\* not follow the chain).
SharedRelationEnum(tables) ==
    \E t \in ToSet(tables) :
        ~IsInjective([k \in DOMAIN Fks(t) |-> GenerateRelationEnumName(Fks(t)[k].cols)])
ChainedKeys(tables) ==
    \E t \in ToSet(tables) : \E k \in DOMAIN Fks(t) :
        ResolveFkTarget(Fks(t)[k], tables).table # Fks(t)[k].ref[1]

RelationsGap(orm, tables) ==
    \/ orm \in {"prisma", "drizzle"} /\ MutualReferences(tables)
    \/ orm = "prisma" /\ (RepeatedKey(tables) \/ QualifiedEnumTaken(tables))
    \/ orm = "seaorm" /\ (SharedRelationEnum(tables) \/ ChainedKeys(tables))

\* The two ends of a relation are rendered from different tables and fit:
\* collect_back_relations and the forward rendering give them one label, and
\* a field, enum or model that one end mentions is what the other declares.
RelationsPair ==
    job.pc = "loaded" /\ ~RelationsGap(job.orm, LoadedTables) =>
        EndsFit(job.orm, LoadedTables)

----------------------------------------------------------------------------
(* The symbols and statements of the rendered files.                       *)

SymbolFiles(orm, tables) ==
    CASE orm = "sqlalchemy" -> {SqlAlchemyFile(t) : t \in ToSet(tables)}
      [] orm = "sqlmodel" -> {SqlModelFile(t) : t \in ToSet(tables)}
      [] orm = "jpa" -> {JpaFile(t) : t \in ToSet(tables)}
      [] orm = "seaorm" -> {SeaOrmFile(t) : t \in ToSet(tables)}
      [] orm = "gorm" -> {GormFile(tables)}
      [] orm = "django" -> {DjangoFile(tables)}
      [] orm = "drizzle" -> {DrizzleFile(tables, d) : d \in DOMAIN TableFn}
      [] orm = "prisma" -> {}

\* SQLModel's analyze_table looks for parentheses only, while its fields use
\* text() for every default that is no literal.
TextGap(tables) ==
    \E t \in ToSet(tables) : \E c \in ToSet(t.cols) :
        SqlModelDefaultIsText(c.default) /\ ~ContainsParen(c.default)

\* Drizzle names the const of a string enum that collect_table_enums dropped:
\* an integer enum of the table had its label first.
MixedEnumGap(tables) ==
    \E t \in ToSet(tables) : \E c, d \in ToSet(t.cols) :
        c.type.kind = "ienum" /\ d.type.kind = "senum" /\ c.type.label = d.type.label

SymbolsGap(orm, tables) ==
    \/ orm = "sqlmodel" /\ TextGap(tables)
    \/ orm = "drizzle" /\ MixedEnumGap(tables)

\* What a file mentions it imports; Go gets no import that is unused, and what
\* Drizzle imports is reserved.
FilesResolve(orm, tables) ==
    /\ \A f \in SymbolFiles(orm, tables) :
          /\ f.uses \subseteq f.imports
          /\ orm = "gorm" => f.imports = f.uses
    /\ orm = "drizzle" =>
          \A d \in DOMAIN TableFn : DrizzleFile(tables, d).imports \subseteq ImportVocabulary(d)

\* UsedTypes, collect_imports, imports_for and Imports::add, which go over the
\* columns on their own, import what the rendered body mentions, and a Drizzle
\* table, enum or type cannot be called like an import, since
\* import_vocabulary reserves them all.
SymbolsResolve ==
    job.pc = "loaded" /\ ~SymbolsGap(job.orm, LoadedTables) =>
        FilesResolve(job.orm, LoadedTables)

\* The foreign keys without their actions, for the backends that state none.
Actionless(fks) == {[f EXCEPT !.action = NoAction] : f \in fks}
StatesActions == {"prisma", "drizzle", "gorm"}

\* What a backend leaves out of a model: uniqueness and indexes of a column
\* of a larger key, all but the last key on one column, and some forms of
\* keys and indexes.
SharedKeyMember(table, kind) ==
    Cardinality(PrimaryKeyColumns(table)) > 1
        /\ OnOne(table, kind) \cap InKey(table) # {}
UniqueKeyColumn(table) ==
    \E c \in ColumnNames(table) : SingleColumnFk(table, c) # Absent
                                  /\ {c} \in OnOne(table, "uq")
OverlappingUniques(table) ==
    \E S, T \in OnSeveral(table, "uq") : S # T /\ S \cap T # {}
UniquesGap(orm, table) ==
    \/ orm \in {"sqlalchemy", "sqlmodel", "jpa", "gorm", "seaorm"}
           /\ SharedKeyMember(table, "uq")
    \/ orm = "jpa" /\ UniqueKeyColumn(table)
    \/ orm = "gorm" /\ OverlappingUniques(table)
IndexesGap(orm, table) ==
    \/ orm \in {"sqlmodel", "seaorm"} /\ OnOne(table, "ix") \cap InKey(table) # {}
    \/ orm = "seaorm" /\ (\/ OnSeveral(table, "ix") # {}
                          \/ OnOne(table, "ix") \cap OnOne(table, "uq") # {})
KeysGap(orm, table, tables) ==
    \/ orm \notin {"drizzle", "seaorm"} /\ RepeatedKey(<<table>>)
    \/ orm \in {"jpa", "django"} /\ CompositeFks(table) # <<>>
    \/ orm = "django" /\ \E fk \in ToSet(Fks(table)) :
           RelatableFk(table, fk.cols[1], tables) = Absent
    \/ orm = "seaorm" /\ ChainedKeys(tables)

\* A default stays an expression, a value or the value of an enum's variant.
DefaultKept(orm, col) ==
    \A d \in DOMAIN TableFn :
        LET default == col.default[1]
            kind == DefaultOf(orm, col.type, default, d)
        IN  CASE default.kind \in ShapesWithParen \cup {"now"} ->
                     kind \in {"sql", "function", "none"}
              [] NamesVariant(col.type, default) -> kind \in {"literal", "none"}
              [] OTHER -> kind # "function"

DefaultsGap(orm, col) ==
    \/ orm = "sqlalchemy" /\ (\/ col.default[1].kind = "now"
                              \/ NamesVariant(col.type, col.default[1]))
    \/ orm = "sqlmodel" /\ NamesVariant(col.type, col.default[1])
    \/ orm = "seaorm" /\ col.default[1].kind \in ShapesWithParen \cup {"now"}

SaysWhatHolds(orm, table, tables) ==
    LET says == SaysOf(orm, table, tables)
        key == PrimaryKeyColumns(table)
        holds == {Acting(fk) : fk \in ToSet(Fks(table))}
    IN  /\ says.pk = key
        /\ says.nullable \ key = NullableColumns(table) \ key
        /\ UniquesGap(orm, table) \/ says.uniques \ {key} = ColumnSets(table, "uq") \ {key}
        /\ IndexesGap(orm, table) \/ says.indexes = ColumnSets(table, "ix")
        /\ KeysGap(orm, table, tables)
              \/ IF orm \in StatesActions THEN says.fks = holds
                 ELSE Actionless(says.fks) = Actionless(holds)
        /\ orm = "django" => \A f \in says.fks :
              f.action = "set_null" => ToSet(f.cols) \subseteq says.nullable
        /\ \A c \in ToSet(table.cols) :
              c.default # Absent => DefaultsGap(orm, c) \/ DefaultKept(orm, c)

\* A model says of its table what the schema says: the key, NULLs, uniqueness,
\* indexes, foreign keys with their actions where the ORM has them, and
\* defaults, however constraints overlap on a column and whatever render_field
\* or build_gorm_tag hide on a column of the key, outside the named gaps.
ModelsStateSchema ==
    job.pc = "loaded" =>
        \A t \in ToSet(LoadedTables) : SaysWhatHolds(job.orm, t, LoadedTables)

----------------------------------------------------------------------------
(* The export directory.                                                   *)

\* From the root, mod.rs by mod.rs, every file is declared, and nothing is
\* declared that is not there.
ModulesComplete ==
    /\ \A p \in DOMAIN dir : p.ext = "rs" /\ p.stem # <<"mod">> =>
          LET comps == Append(p.dirs, p.stem)
          IN  \A n \in DOMAIN comps :
                  LET parent == ModPath(SubSeq(comps, 1, n - 1))
                  IN  parent \in DOMAIN dir /\ comps[n] \in dir[parent].mods
    /\ \A p \in DOMAIN dir : \A child \in dir[p].mods :
          \/ Path(p.dirs, child, "rs") \in DOMAIN dir
          \/ ModPath(Append(p.dirs, child)) \in DOMAIN dir

\* What the command does not look after: build_output_path gives every model
\* a file of its own and, for SeaORM, directories that are module names and
\* no file that is called mod.rs; and a user's file is none of Drizzle's.
PathsApart ==
    \A p \in Projects : \A version \in p.versions : \A orm \in p.orms \cap FilePerTable :
        \A m \in version :
            /\ \A n \in version \ {m} : BuildOutputPath(m, orm) # BuildOutputPath(n, orm)
            /\ orm = "seaorm" => WordsOfAll(m.dirs) = m.dirs /\ Words(m.stem) # <<"mod">>

OwnPathsApart ==
    \A i \in DOMAIN FixedFiles("drizzle") :
        Path(<<>>, FixedFiles("drizzle")[i], FileExtension("drizzle")) \notin OwnPaths

\* A finished cmd_export leaves the renderings of the loaded models and, where
\* clean_export_dir sweeps, nothing else with the extension, whatever was
\* exported, killed or edited before; ensure_mod_chain declares every module.
ExportIsFresh ==
    job.pc = "done" =>
        LET outputs == ToSet(Outputs(job.orm, job.loaded))
            Generated(p) == dir[p].by \in {job.orm, "mods"}
        IN  /\ \A o \in outputs : o[1] \in DOMAIN dir /\ dir[o[1]] = o[2]
            /\ job.orm \in Sweeping =>
                  \A p \in Swept(job.orm) :
                      Generated(p) /\ (p.stem # <<"mod">> => \E o \in outputs : o[1] = p)
            /\ job.orm = "seaorm" => ModulesComplete

\* An export for Drizzle, GORM or Django leaves the user's files alone: it
\* sweeps nothing, and cmd_export_models_file overwrites only its own file.
OwnFilesKept ==
    [][Running /\ job.orm \notin Sweeping =>
          \A p \in DOMAIN dir : dir[p] = Own => p \in DOMAIN dir' /\ dir'[p] = Own]_vars
=============================================================================
