------------------------------ MODULE Database ------------------------------
(***************************************************************************)
(* The databases that execute the generated SQL, as far as the generator   *)
(* relies on them: a catalogue, a summary of the rows, and what each       *)
(* statement does or why it is rejected.  Nothing here is part of the      *)
(* repository; it models PostgreSQL, MySQL (InnoDB) and SQLite (with its   *)
(* default, foreign_keys off).                                             *)
(*                                                                         *)
(* A table has columns, a primary key, foreign keys and CHECKs.  Of its    *)
(* rows the model keeps whether there are any, where each column's values  *)
(* come from, which columns hold NULLs, and `clean`: what is known of the  *)
(* rows, so that a constraint may be created.                              *)
(***************************************************************************)
EXTENDS Apply

----------------------------------------------------------------------------
(* Facts about rows.                                                       *)

Distinct(cols) == <<"distinct", ToSet(cols)>>
NoOrphans(fk) == <<"orphans", <<fk.cols, fk.ref, fk.refCols>>>>
Satisfies(expr) == <<"check", expr>>

Known(table, fact) == ~table.rows \/ fact \in table.clean
KnownDistinct(table, cols) ==
    \/ ~table.rows
    \/ \E f \in table.clean : f[1] = "distinct" /\ f[2] \subseteq ToSet(cols)
HoldsNulls(table, c) == table.rows /\ table.cols[c].nulls

----------------------------------------------------------------------------
(* Catalogue.                                                              *)

NoSource == <<>>
DbColumn(type, notNull, default, auto) ==
    [type |-> type, notNull |-> notNull, default |-> default, auto |-> auto,
     source |-> NoSource, nulls |-> FALSE, holds |-> <<>>]

DbTable(cols, pk, pkName, fks, checks) ==
    [cols |-> cols, pk |-> pk, pkName |-> pkName, fks |-> fks,
     checks |-> checks, rows |-> FALSE, clean |-> {}]

EmptyDatabase ==
    [tables |-> [t \in {} |-> {}], indexes |-> {}, types |-> [n \in {} |-> {}]]

IndexesOf(db, t) == {ix \in db.indexes : ix.table = t}
WithTable(db, t, table) == [db EXCEPT !.tables = WithKey(@, t, table)]
WithColumn(db, t, c, col) == [db EXCEPT !.tables[t].cols = WithKey(@, c, col)]

\* The other tables with a foreign key on this one (and these columns).
ReferencedBy(db, t) ==
    {u \in DOMAIN db.tables \ {t} : \E fk \in db.tables[u].fks : fk.ref = t}
ColumnReferenced(db, t, c) ==
    \E u \in DOMAIN db.tables : \E fk \in db.tables[u].fks :
        fk.ref = t /\ Contains(fk.refCols, c) /\ ~Contains(fk.cols, c)

\* A foreign key needs a key on the columns it refers to.
HasKeyOn(db, t, cols) ==
    \/ ToSet(db.tables[t].pk) = ToSet(cols)
    \/ \E ix \in IndexesOf(db, t) : ix.unique /\ ToSet(ix.cols) = ToSet(cols)

\* The values that an enum column accepts, as an Option: it has a type that
\* lists them, or a CHECK.
EnumValues(backend, db, t, c) ==
    LET type == db.tables[t].cols[c].type
        checks == {ck \in db.tables[t].checks : ck.cols = {c} /\ Len(ck.expr) = 2}
    IN  CASE type \in DOMAIN db.types -> <<ToSet(db.types[type])>>
          [] backend = "mysql" /\ type[1] = "enum" ->
                <<{<<v, 0>> : v \in ToSet(Tail(type))}>>
          [] checks # {} -> <<(CHOOSE ck \in checks : TRUE).expr[2]>>
          [] OTHER -> <<>>

\* The rows of a column hold only values that a type or CHECK accepts.
Fits(table, c, values) ==
    LET holds == table.cols[c].holds
    IN  ~table.rows \/ (holds # <<>> /\ holds[1] \subseteq values)

\* Between two migrations the tables fill with rows that are as bad as their
\* constraints allow.
Populate(backend, db) ==
    LET Facts(t) ==
            {Distinct(ix.cols) : ix \in {i \in IndexesOf(db, t) : i.unique}}
            \cup {Distinct(db.tables[t].pk)}
            \cup {NoOrphans(fk) : fk \in db.tables[t].fks}
            \cup {Satisfies(ck.expr) : ck \in db.tables[t].checks}
        Filled(t, cols) ==
            [c \in DOMAIN cols |->
                [cols[c] EXCEPT !.source = <<t, c>>, !.nulls = ~cols[c].notNull,
                                !.holds = EnumValues(backend, db, t, c)]]
    IN  [db EXCEPT !.tables = [t \in DOMAIN @ |->
            [@[t] EXCEPT !.rows = TRUE, !.clean = Facts(t),
                         !.cols = Filled(t, @)]]]

----------------------------------------------------------------------------
(* Types of PostgreSQL.                                                    *)

CreateType(db, s) ==
    IF s.name \in DOMAIN db.types THEN Err
    ELSE [db EXCEPT !.types = WithKey(@, s.name, s.vals)]

UsesType(db, name) ==
    \E t \in DOMAIN db.tables : \E c \in DOMAIN db.tables[t].cols :
        db.tables[t].cols[c].type = name

DropType(db, s) ==
    IF s.name \notin DOMAIN db.types \/ UsesType(db, s.name) THEN Err
    ELSE [db EXCEPT !.types = WithoutKey(@, s.name)]

RenameType(db, s) ==
    IF s.name \notin DOMAIN db.types \/ s.to \in DOMAIN db.types THEN Err
    ELSE [db EXCEPT
            !.types = WithKey(WithoutKey(@, s.name), s.to, @[s.name]),
            !.tables = [t \in DOMAIN @ |->
                [@[t] EXCEPT !.cols = [c \in DOMAIN @ |->
                    IF @[c].type = s.name THEN [@[c] EXCEPT !.type = s.to]
                    ELSE @[c]]]]]

\* ALTER COLUMN TYPE without USING needs a cast that applies on assignment.
NumericTypes == {<<"small_int">>, <<"integer">>, <<"big_int">>}
Castable(old, new) ==
    old = new \/ new = <<"text">> \/ {old, new} \subseteq NumericTypes

----------------------------------------------------------------------------
(* Tables.                                                                 *)

CreateTableStatement(backend, db, s) ==
    IF \/ s.table \in DOMAIN db.tables
       \/ s.keys > 1
       \/ backend = "mysql" /\ Cardinality({c \in DOMAIN s.def.cols :
                                              s.def.cols[c].auto}) > 1
       \/ \E ck \in s.def.checks : ~(ck.cols \subseteq DOMAIN s.def.cols)
       \/ backend # "sqlite" /\ \E fk \in s.def.fks :
              fk.ref # s.table
              /\ (fk.ref \notin DOMAIN db.tables
                  \/ ~HasKeyOn(db, fk.ref, fk.refCols))
       \/ \E c \in DOMAIN s.def.cols :
              backend = "postgres" /\ Len(s.def.cols[c].type) > 1
              /\ s.def.cols[c].type \notin DOMAIN db.types
    THEN Err
    ELSE [WithTable(db, s.table, s.def)
             EXCEPT !.indexes = @ \cup s.indexes]

DropTableStatement(backend, db, s) ==
    IF \/ s.table \notin DOMAIN db.tables
       \/ backend # "sqlite" /\ ReferencedBy(db, s.table) # {}
    THEN Err
    ELSE [db EXCEPT !.tables = WithoutKey(@, s.table),
                    !.indexes = @ \ IndexesOf(db, s.table)]

\* Foreign keys and indexes follow the table; their names stay.
RenameTableStatement(db, s) ==
    IF s.table \notin DOMAIN db.tables \/ s.to \in DOMAIN db.tables THEN Err
    ELSE LET moved == WithTable([db EXCEPT !.tables = WithoutKey(@, s.table)],
                                s.to, db.tables[s.table])
             Follow(fk) == IF fk.ref = s.table THEN [fk EXCEPT !.ref = s.to]
                           ELSE fk
         IN  [moved EXCEPT
                !.tables = [t \in DOMAIN @ |->
                    [@[t] EXCEPT !.fks = {Follow(fk) : fk \in @}]],
                !.indexes = {IF ix.table = s.table
                             THEN [ix EXCEPT !.table = s.to] ELSE ix :
                               ix \in @}]

\* INSERT INTO to (cols) SELECT cols FROM table, and one more column with a
\* value (fill: <<column, is NULL>>, or none).
CopyStatement(db, s) ==
    LET from == db.tables[s.table]
        to == db.tables[s.to]
        NullFor(c) == IF c \in s.cols THEN HoldsNulls(from, c)
                      ELSE from.rows /\ (IF s.fill # <<>> /\ s.fill[1] = c
                                         THEN s.fill[2] ELSE TRUE)
    IN  IF \/ s.table \notin DOMAIN db.tables \/ s.to \notin DOMAIN db.tables
           \/ ~(s.cols \subseteq DOMAIN from.cols)
           \/ \E c \in DOMAIN to.cols : to.cols[c].notNull /\ NullFor(c)
           \/ to.pk # <<>> /\ ~KnownDistinct(from, to.pk)
           \/ \E ck \in to.checks : Len(ck.expr) = 1
                                   /\ ~Known(from, Satisfies(ck.expr))
           \/ \E c \in s.cols \cap DOMAIN to.cols :
                  LET values == EnumValues("sqlite", db, s.to, c)
                  IN  values # <<>> /\ ~Fits(from, c, values[1])
        THEN Err
        ELSE [db EXCEPT !.tables[s.to] =
                [@ EXCEPT !.rows = from.rows, !.clean = from.clean,
                          !.cols = [c \in DOMAIN @ |->
                             [@[c] EXCEPT
                                !.source = IF c \in s.cols
                                           THEN from.cols[c].source
                                           ELSE NoSource,
                                !.nulls = NullFor(c),
                                !.holds = IF c \in s.cols
                                          THEN from.cols[c].holds
                                          ELSE EnumValues("sqlite", db, s.to, c)]]]]

----------------------------------------------------------------------------
(* Columns.                                                                *)

HasDbColumn(db, t, c) == t \in DOMAIN db.tables /\ c \in DOMAIN db.tables[t].cols

AddColumnStatement(backend, db, s) ==
    LET none == s.def.default = <<>>
        rows == db.tables[s.table].rows
        added == WithColumn(db, s.table, s.column,
                    [s.def EXCEPT !.nulls = rows /\ none /\ ~s.def.notNull])
    IN  IF \/ HasDbColumn(db, s.table, s.column)
           \/ backend = "postgres" /\ rows /\ none /\ s.def.notNull
           \/ backend = "postgres" /\ Len(s.def.type) > 1
              /\ s.def.type \notin DOMAIN db.types
        THEN Err
        ELSE [added EXCEPT !.tables[s.table].cols[s.column].holds =
                EnumValues(backend, added, s.table, s.column)]

\* PostgreSQL drops what involves the column, MySQL shrinks the indexes and
\* SQLite refuses.
DropColumnStatement(backend, db, s) ==
    LET table == db.tables[s.table]
        c == s.column
        inPk == Contains(table.pk, c)
        inFk == \E fk \in table.fks : Contains(fk.cols, c)
        inCheck == \E ck \in table.checks : c \in ck.cols
        inIndex == {ix \in IndexesOf(db, s.table) : Contains(ix.cols, c)}
        shrunk == {[ix EXCEPT !.cols = SelectSeq(@, LAMBDA d : d # c)] :
                      ix \in inIndex}
        kept == (db.indexes \ inIndex) \cup
                (IF backend = "mysql" THEN {ix \in shrunk : ix.cols # <<>>}
                 ELSE {})
        newPk == IF backend = "mysql"
                 THEN SelectSeq(table.pk, LAMBDA d : d # c)
                 ELSE IF inPk THEN <<>> ELSE table.pk
    IN  IF \/ ~HasDbColumn(db, s.table, c)
           \/ backend # "sqlite" /\ ColumnReferenced(db, s.table, c)
           \/ backend = "mysql" /\ (inFk \/ inCheck)
           \/ backend = "sqlite" /\ (inPk \/ inFk \/ inCheck \/ inIndex # {})
        THEN Err
        ELSE [db EXCEPT
                !.indexes = kept,
                !.tables[s.table] =
                   [@ EXCEPT !.cols = WithoutKey(@, c),
                             !.pk = newPk,
                             !.fks = {fk \in @ : ~Contains(fk.cols, c)},
                             !.checks = {ck \in @ : c \notin ck.cols},
                             !.clean = {f \in @ : f[1] # "distinct"
                                                  \/ c \notin f[2]}]]

RenameColumnStatement(db, s) ==
    LET Ren(cols) == ReplaceAll(cols, s.column, s.to)
        RenSet(S) == {IF c = s.column THEN s.to ELSE c : c \in S}
        table == db.tables[s.table]
        RenFk(fk) == [fk EXCEPT !.cols = Ren(@)]
        RenFact(f) == IF f[1] = "distinct" THEN <<f[1], RenSet(f[2])>> ELSE f
    IN  IF ~HasDbColumn(db, s.table, s.column) \/ HasDbColumn(db, s.table, s.to)
        THEN Err
        ELSE [db EXCEPT
                !.indexes = {IF ix.table = s.table
                             THEN [ix EXCEPT !.cols = Ren(@)] ELSE ix : ix \in @},
                !.tables = [t \in DOMAIN @ |->
                    [@[t] EXCEPT !.fks =
                        {IF fk.ref = s.table
                         THEN [fk EXCEPT !.refCols = Ren(@)] ELSE fk :
                            fk \in (IF t = s.table THEN {RenFk(g) : g \in @}
                                    ELSE @)},
                       !.cols = IF t # s.table THEN @
                                ELSE WithKey(WithoutKey(@, s.column), s.to,
                                             @[s.column]),
                       !.pk = IF t = s.table THEN Ren(@) ELSE @,
                       !.checks = IF t # s.table THEN @
                                  ELSE {[ck EXCEPT !.cols = RenSet(@)] : ck \in @},
                       !.clean = IF t # s.table THEN @
                                 ELSE {RenFact(f) : f \in @}]]]

\* ALTER COLUMN ... TYPE of PostgreSQL.  A default of an enum type stays an
\* obstacle until it is dropped.
AlterType(db, s) ==
    LET col == db.tables[s.table].cols[s.column]
    IN  IF \/ ~HasDbColumn(db, s.table, s.column)
           \/ ~s.using /\ ~Castable(col.type, s.type)
           \/ Len(s.type) > 1 /\ s.type \notin DOMAIN db.types
           \/ Len(s.type) > 1 /\ s.type # col.type /\ col.default # <<>>
           \/ Len(s.type) > 1 /\ ~Fits(db.tables[s.table], s.column,
                                       ToSet(db.types[s.type]))
           \/ s.notNull /\ HoldsNulls(db.tables[s.table], s.column)
        THEN Err
        ELSE WithColumn(db, s.table, s.column,
                        [col EXCEPT !.type = s.type,
                                    !.notNull = @ \/ s.notNull])

\* MODIFY COLUMN of MySQL: the whole definition is replaced.
ModifyStatement(db, s) ==
    LET col == db.tables[s.table].cols[s.column]
    IN  IF \/ ~HasDbColumn(db, s.table, s.column)
           \/ s.def.notNull /\ HoldsNulls(db.tables[s.table], s.column)
           \/ s.def.type[1] = "enum"
              /\ ~Fits(db.tables[s.table], s.column,
                       {<<v, 0>> : v \in ToSet(Tail(s.def.type))})
        THEN Err
        ELSE WithColumn(db, s.table, s.column,
                        [s.def EXCEPT !.source = col.source, !.nulls = col.nulls,
                                      !.holds = col.holds])

SetNotNull(db, s) ==
    IF \/ ~HasDbColumn(db, s.table, s.column)
       \/ s.notNull /\ HoldsNulls(db.tables[s.table], s.column)
    THEN Err
    ELSE [db EXCEPT !.tables[s.table].cols[s.column].notNull = s.notNull]

SetDefault(db, s) ==
    IF ~HasDbColumn(db, s.table, s.column) THEN Err
    ELSE [db EXCEPT !.tables[s.table].cols[s.column].default = s.default]

----------------------------------------------------------------------------
(* Rows.                                                                   *)

\* UPDATE or DELETE that leaves no NULL in a column.
FillNulls(db, s) ==
    IF ~HasDbColumn(db, s.table, s.column) THEN Err
    ELSE [db EXCEPT !.tables[s.table].cols[s.column].nulls = FALSE]

\* UPDATE or DELETE after which a fact holds.
Repair(db, s) ==
    IF s.table \notin DOMAIN db.tables THEN Err
    ELSE [db EXCEPT !.tables[s.table].clean = @ \cup {s.fact}]

\* UPDATE that replaces values of a column: mapping holds <<old, new>> pairs.
UpdateStatement(backend, db, s) ==
    LET accepts == EnumValues(backend, db, s.table, s.column)
        New(v) == IF \E p \in s.mapping : p[1] = v
                  THEN (CHOOSE p \in s.mapping : p[1] = v)[2] ELSE v
    IN  IF \/ ~HasDbColumn(db, s.table, s.column)
           \/ accepts # <<>> /\ ~({p[2] : p \in s.mapping} \subseteq accepts[1])
        THEN Err
        ELSE [db EXCEPT !.tables[s.table].cols[s.column].holds =
                [i \in DOMAIN @ |-> {New(v) : v \in @[i]}]]

----------------------------------------------------------------------------
(* Indexes and constraints.                                                *)

\* MySQL names indexes by table, the others by schema.
SameIndexName(backend, a, b) ==
    a.name = b.name /\ (backend = "mysql" => a.table = b.table)

CreateIndexStatement(backend, db, s) ==
    IF \/ s.index.table \notin DOMAIN db.tables
       \/ ~(ToSet(s.index.cols) \subseteq DOMAIN db.tables[s.index.table].cols)
       \/ \E ix \in db.indexes : SameIndexName(backend, ix, s.index)
       \/ s.index.unique
          /\ ~KnownDistinct(db.tables[s.index.table], s.index.cols)
    THEN Err
    ELSE [db EXCEPT !.indexes = @ \cup {s.index}]

DropIndexStatement(backend, db, s) ==
    LET found == {ix \in db.indexes :
                    ix.name = s.name /\ (backend = "mysql" => ix.table = s.table)}
    IN  IF found = {} THEN Err ELSE [db EXCEPT !.indexes = @ \ found]

\* valid: the rows are looked at.
AddForeignKeyStatement(db, s) ==
    LET table == db.tables[s.table]
    IN  IF \/ s.table \notin DOMAIN db.tables
           \/ s.fk.ref \notin DOMAIN db.tables
           \/ ~(ToSet(s.fk.cols) \subseteq DOMAIN table.cols)
           \/ ~HasKeyOn(db, s.fk.ref, s.fk.refCols)
           \/ \E fk \in table.fks : fk.name = s.fk.name
           \/ s.valid /\ ~Known(table, NoOrphans(s.fk))
        THEN Err
        ELSE [db EXCEPT !.tables[s.table].fks = @ \cup {s.fk}]

DropForeignKeyStatement(db, s) ==
    IF \/ s.table \notin DOMAIN db.tables
       \/ ~\E fk \in db.tables[s.table].fks : fk.name = s.name
    THEN Err
    ELSE [db EXCEPT !.tables[s.table].fks = {fk \in @ : fk.name # s.name}]

AddCheckStatement(db, s) ==
    LET table == db.tables[s.table]
    IN  IF \/ s.table \notin DOMAIN db.tables
           \/ ~(s.check.cols \subseteq DOMAIN table.cols)
           \/ \E ck \in table.checks : ck.name = s.check.name
           \/ s.valid /\ ~Known(table, Satisfies(s.check.expr))
        THEN Err
        ELSE [db EXCEPT !.tables[s.table].checks = @ \cup {s.check}]

DropCheckStatement(db, s) ==
    IF \/ s.table \notin DOMAIN db.tables
       \/ ~\E ck \in db.tables[s.table].checks : ck.name = s.name
    THEN Err
    ELSE [db EXCEPT !.tables[s.table].checks = {ck \in @ : ck.name # s.name}]

\* VALIDATE CONSTRAINT
ValidateConstraint(db, s) ==
    IF Known(db.tables[s.table], s.fact) THEN db ELSE Err

AddPrimaryKeyStatement(db, s) ==
    LET table == db.tables[s.table]
    IN  IF \/ s.table \notin DOMAIN db.tables
           \/ ~(ToSet(s.cols) \subseteq DOMAIN table.cols)
           \/ table.pk # <<>>
           \/ ~KnownDistinct(table, s.cols)
           \/ \E c \in ToSet(s.cols) : HoldsNulls(table, c)
        THEN Err
        ELSE [db EXCEPT !.tables[s.table].pk = s.cols,
                        !.tables[s.table].pkName = s.name]

\* MySQL keeps the key of an AUTO_INCREMENT column, and both keep a key that
\* a foreign key refers to.
DropPrimaryKeyStatement(backend, db, s) ==
    LET table == db.tables[s.table]
    IN  IF \/ s.table \notin DOMAIN db.tables
           \/ table.pk = <<>>
           \/ backend = "postgres" /\ table.pkName # s.name
           \/ backend = "mysql" /\ \E c \in ToSet(table.pk) : table.cols[c].auto
           \/ \E c \in ToSet(table.pk) : ColumnReferenced(db, s.table, c)
        THEN Err
        ELSE [db EXCEPT !.tables[s.table].pk = <<>>]

----------------------------------------------------------------------------
\* One statement: the database it leaves, or Err when it is rejected.
Execute(backend, db, s) ==
    CASE s.do = "create type" -> CreateType(db, s)
      [] s.do = "drop type" -> DropType(db, s)
      [] s.do = "rename type" -> RenameType(db, s)
      [] s.do = "create table" -> CreateTableStatement(backend, db, s)
      [] s.do = "drop table" -> DropTableStatement(backend, db, s)
      [] s.do = "rename table" -> RenameTableStatement(db, s)
      [] s.do = "copy" -> CopyStatement(db, s)
      [] s.do = "add column" -> AddColumnStatement(backend, db, s)
      [] s.do = "drop column" -> DropColumnStatement(backend, db, s)
      [] s.do = "rename column" -> RenameColumnStatement(db, s)
      [] s.do = "alter type" -> AlterType(db, s)
      [] s.do = "modify column" -> ModifyStatement(db, s)
      [] s.do = "set not null" -> SetNotNull(db, s)
      [] s.do = "set default" -> SetDefault(db, s)
      [] s.do = "fill nulls" -> FillNulls(db, s)
      [] s.do = "repair" -> Repair(db, s)
      [] s.do = "update" -> UpdateStatement(backend, db, s)
      [] s.do = "create index" -> CreateIndexStatement(backend, db, s)
      [] s.do = "drop index" -> DropIndexStatement(backend, db, s)
      [] s.do = "add fk" -> AddForeignKeyStatement(db, s)
      [] s.do = "drop fk" -> DropForeignKeyStatement(db, s)
      [] s.do = "add check" -> AddCheckStatement(db, s)
      [] s.do = "drop check" -> DropCheckStatement(db, s)
      [] s.do = "validate" -> ValidateConstraint(db, s)
      [] s.do = "add pk" -> AddPrimaryKeyStatement(db, s)
      [] s.do = "drop pk" -> DropPrimaryKeyStatement(backend, db, s)
      [] OTHER -> db
=============================================================================
