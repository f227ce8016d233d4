------------------------------ MODULE Symbols ------------------------------
(***************************************************************************)
(* The symbols of the rendered files: what a file imports and what its      *)
(* body mentions, for the eight backends of vespertide-exporter.  Most     *)
(* backends work the two out in separate passes over the columns.  And      *)
(* what each rendered model says about its table.                          *)
(*                                                                         *)
(* The class of a type is its label when it is simple and its kind when    *)
(* not.  A default is a pair of a shape and a value: "bool", "number",      *)
(* "quoted" (a string), "bare" (a word), "json", "now" (CURRENT_TIMESTAMP   *)
(* without parentheses), "nowCall", "uuidCall" and "call" (any other).      *)
(***************************************************************************)
EXTENDS SeaOrm

IsJsonbCustomType(type) == type.kind = "custom" /\ type.label = <<"jsonb">>
ClassOf(type) == IF type.kind = "simple" THEN Head(type.label) ELSE type.kind

\* The symbol that a type map, a function, has for a type: an Option.
Mapped(map, type) ==
    IF ClassOf(type) \in DOMAIN map THEN {map[ClassOf(type)]} ELSE {}

ShapesWithParen == {"nowCall", "uuidCall", "call"}
ContainsParen(default) == default # Absent /\ default[1].kind \in ShapesWithParen

HasComposite(cons, kind) ==
    Some(cons, LAMBDA c : c.kind = kind /\ Len(c.cols) > 1)
UsesIf(condition, symbol) == IF condition THEN {symbol} ELSE {}
InColumns(table, Used(_)) == UNION {Used(table.cols[i]) : i \in DOMAIN table.cols}
HasFk(table, col) == SingleColumnFk(table, col.name) # Absent

\* A file: what it imports and what its body mentions.
File(imports, uses) == [imports |-> imports, uses |-> uses]

----------------------------------------------------------------------------
(* SQLAlchemy and SQLModel: utils/python.rs, sqlalchemy, sqlmodel.         *)

\* column_type_to_python, as far as the name has to be imported.
PythonType ==
    [Date |-> "date", Time |-> "time", Timestamp |-> "datetime",
     Timestamptz |-> "datetime", Uuid |-> "UUID", numeric |-> "Decimal"]

PythonSymbols(col) ==
    Mapped(PythonType, col.type) \cup UsesIf(col.nullable, "Optional")

\* render_enum derives from enum.Enum or enum.IntEnum.
EnumSymbols(col) == UsesIf(IsEnum(col.type), "enum")

\* Mutant: timestamps with a time zone are forgotten.
AddColumnTypeNoZone(col) ==
    LET datetimes == [Date |-> "date", Time |-> "time", Timestamp |-> "datetime",
                      Uuid |-> "UUID", numeric |-> "Decimal"]
    IN  Mapped(datetimes, col.type) \cup UsesIf(col.nullable, "Optional")

\* UsedTypes::add_column_type of SQLAlchemy, without the SQLAlchemy types.
AddColumnType(col) ==
    LET needs == [Date |-> "date", Time |-> "time", Timestamp |-> "datetime",
                  Timestamptz |-> "datetime", Uuid |-> "UUID", numeric |-> "Decimal"]
    IN  Mapped(needs, col.type) \cup UsesIf(col.nullable, "Optional")

\* column_type_to_sqlalchemy; a custom type is written as a string.
ColumnTypeToSqlAlchemy ==
    [SmallInt |-> "SmallInteger", Integer |-> "Integer", BigInt |-> "BigInteger",
     Real |-> "Float", DoublePrecision |-> "Float", Text |-> "Text", Xml |-> "Text",
     Boolean |-> "Boolean", Date |-> "Date", Time |-> "Time", Timestamp |-> "DateTime",
     Timestamptz |-> "DateTime", Interval |-> "Interval", Bytea |-> "LargeBinary",
     Uuid |-> "Uuid", Json |-> "JSON", Inet |-> "String", Cidr |-> "String",
     Macaddr |-> "String", numeric |-> "Numeric", varchar |-> "String",
     char |-> "String", senum |-> "Enum", ienum |-> "Integer"]

\* UsedTypes::add_simple_type and add_complex_type, grouped as in the code.
AddSaTypes(type) ==
    LET class == ClassOf(type)
    IN  UsesIf(class = "SmallInt", "SmallInteger")
        \cup UsesIf(class \in {"Integer", "ienum"}, "Integer")
        \cup UsesIf(class = "BigInt", "BigInteger")
        \cup UsesIf(class \in {"Real", "DoublePrecision"}, "Float")
        \cup UsesIf(class \in {"Text", "Xml"}, "Text")
        \cup UsesIf(class = "Boolean", "Boolean")
        \cup UsesIf(class = "Date", "Date") \cup UsesIf(class = "Time", "Time")
        \cup UsesIf(class \in {"Timestamp", "Timestamptz"}, "DateTime")
        \cup UsesIf(class = "Interval", "Interval")
        \cup UsesIf(class = "Bytea", "LargeBinary")
        \cup UsesIf(class = "Uuid", "Uuid") \cup UsesIf(class = "Json", "JSON")
        \cup UsesIf(class \in {"Inet", "Cidr", "Macaddr", "varchar", "char"}, "String")
        \cup UsesIf(class = "numeric", "Numeric") \cup UsesIf(class = "senum", "Enum")

\* __table_args__, whose entries are the same for both backends but for the
\* indexes: SQLModel puts an index on one column on the field.
TableArgs(table, hasIndex) ==
    UsesIf(hasIndex, "Index")
        \cup UsesIf(HasComposite(table.cons, "uq"), "UniqueConstraint")
        \cup UsesIf(CompositeFks(table) # <<>>, "ForeignKeyConstraint")
AnyIndex(table) == Some(table.cons, LAMBDA c : c.kind = "ix")
CompositeIndex(table) == HasComposite(table.cons, "ix")

OrmSymbols == {"DeclarativeBase", "Mapped", "mapped_column"}

\* render_entity_part collects what the columns and constraints need before
\* it renders them.
SqlAlchemyImports(table) ==
    LET Needed(col) == AddColumnType(col) \cup AddSaTypes(col.type) \cup EnumSymbols(col)
    IN  InColumns(table, Needed) \cup TableArgs(table, AnyIndex(table))
            \cup UsesIf(Some(table.cols, LAMBDA c : HasFk(table, c)), "ForeignKey")
            \cup UsesIf(Some(table.cols, LAMBDA c : ContainsParen(c.default)), "text")

\* render_column
SqlAlchemyUses(table, col) ==
    PythonSymbols(col) \cup EnumSymbols(col) \cup Mapped(ColumnTypeToSqlAlchemy, col.type)
        \cup UsesIf(HasFk(table, col), "ForeignKey")
        \cup UsesIf(ContainsParen(col.default), "text")

\* assemble_with_imports
SqlAlchemyFile(table) ==
    LET Used(col) == SqlAlchemyUses(table, col)
    IN  File(OrmSymbols \cup SqlAlchemyImports(table),
             OrmSymbols \cup InColumns(table, Used) \cup TableArgs(table, AnyIndex(table)))

\* UsedTypes::add_column_type of SQLModel: flags, and no SQLAlchemy types.
AddFieldType(col) ==
    UsesIf(ClassOf(col.type) = "Date", "date") \cup UsesIf(ClassOf(col.type) = "Time", "time")
        \cup UsesIf(ClassOf(col.type) \in {"Timestamp", "Timestamptz"}, "datetime")
        \cup UsesIf(ClassOf(col.type) = "Uuid", "UUID")
        \cup UsesIf(ClassOf(col.type) = "numeric", "Decimal")
        \cup UsesIf(col.nullable, "Optional")

\* The default of a SQLModel field is SQL text when it is no literal.
SqlModelDefaultIsText(default) ==
    default # Absent /\ default[1].kind \notin {"bool", "quoted", "number"}

\* analyze_table
SqlModelImports(table) ==
    LET Needed(col) == AddFieldType(col) \cup EnumSymbols(col)
                           \cup UsesIf(ContainsParen(col.default), "text")
    IN  InColumns(table, Needed) \cup TableArgs(table, CompositeIndex(table))

\* render_column
SqlModelUses(col) ==
    PythonSymbols(col) \cup EnumSymbols(col)
        \cup UsesIf(SqlModelDefaultIsText(col.default), "text")

\* render_imports
SqlModelFile(table) ==
    File({"Field", "SQLModel"} \cup SqlModelImports(table),
         {"Field", "SQLModel"} \cup InColumns(table, SqlModelUses)
             \cup TableArgs(table, CompositeIndex(table)))

----------------------------------------------------------------------------
(* JPA: jpa/types.rs, jpa/render.rs.  The annotations come from one        *)
(* wildcard import; a key is a field of the other entity's type.           *)

JavaType ==
    [Date |-> "LocalDate", Time |-> "LocalTime", Timestamp |-> "LocalDateTime",
     Timestamptz |-> "OffsetDateTime", Uuid |-> "UUID", numeric |-> "BigDecimal"]

JavaImports(col) ==
    LET needs == [Date |-> "LocalDate", Time |-> "LocalTime",
                  Timestamp |-> "LocalDateTime", Timestamptz |-> "OffsetDateTime",
                  Uuid |-> "UUID", numeric |-> "BigDecimal"]
    IN  Mapped(needs, col.type)

JpaFile(table) ==
    LET Field(col) == IF HasFk(table, col) THEN {} ELSE Mapped(JavaType, col.type)
        Header(col) == IF HasFk(table, col) THEN {} ELSE JavaImports(col)
    IN  File(InColumns(table, Header), InColumns(table, Field))

----------------------------------------------------------------------------
(* GORM: gorm/types.rs and render_header.  Go refuses an unused import.    *)

GoPackage ==
    [Date |-> "time", Time |-> "time", Timestamp |-> "time", Timestamptz |-> "time",
     Uuid |-> "uuid", Json |-> "datatypes", numeric |-> "decimal"]

GoBaseType(type) ==
    Mapped(GoPackage, type) \cup UsesIf(IsJsonbCustomType(type), "datatypes")

GoImports(type) ==
    UsesIf(ClassOf(type) \in {"Date", "Time", "Timestamp", "Timestamptz"}, "time")
        \cup UsesIf(ClassOf(type) = "Uuid", "uuid")
        \cup UsesIf(ClassOf(type) = "Json" \/ IsJsonbCustomType(type), "datatypes")
        \cup UsesIf(ClassOf(type) = "numeric", "decimal")

GormFile(tables) ==
    LET cols == UNION {ToSet(tables[i].cols) : i \in DOMAIN tables}
    IN  File(UNION {GoImports(c.type) : c \in cols}, UNION {GoBaseType(c.type) : c \in cols})

----------------------------------------------------------------------------
(* Django: build_default.  The default of a column, of whatever field, is   *)
(* a Python function, a literal, or left out.                              *)

DjangoIsJson(type) == ClassOf(type) = "Json" \/ IsJsonbCustomType(type)
DjangoDefault(type, default) ==
    IF default = Absent \/ DjangoIsJson(type) THEN "none"
    ELSE CASE default[1].kind = "nowCall" /\ ClassOf(type) \in {"Timestamp", "Timestamptz"}
                  -> "timezone"
           [] default[1].kind \in ShapesWithParen /\ ClassOf(type) = "Uuid" -> "uuid"
           [] default[1].kind \in {"bool", "quoted", "number"} -> "literal"
           [] OTHER -> "none"

DjangoFile(tables) ==
    LET cols == UNION {ToSet(tables[i].cols) : i \in DOMAIN tables}
        functions == {DjangoDefault(c.type, c.default) : c \in cols}
                         \ {"none", "literal"}
    IN  File({"models"} \cup functions, {"models"} \cup functions)

----------------------------------------------------------------------------
(* SeaORM: the prelude has every type; the derives of enums come from       *)
(* serde.                                                                  *)

SeaOrmEnumSymbols(table) == UsesIf(CollectTableEnums(table) # <<>>, "serde")

SeaOrmFile(table) ==
    LET hasEnums == Some(table.cols, LAMBDA c : IsEnum(c.type))
    IN  File({"prelude"} \cup UsesIf(hasEnums, "serde"),
             {"prelude"} \cup SeaOrmEnumSymbols(table))

----------------------------------------------------------------------------
(* Drizzle: drizzle/types.rs and render_table.  A column is built by a      *)
(* constructor of the dialect or by a const that the file declares.        *)

PgTypes ==
    [SmallInt |-> "smallint", Integer |-> "integer", BigInt |-> "bigint",
     Real |-> "real", DoublePrecision |-> "doublePrecision", Boolean |-> "boolean",
     Date |-> "date", Time |-> "time", Timestamp |-> "timestamp",
     Timestamptz |-> "timestamp", Uuid |-> "uuid", Json |-> "json",
     Interval |-> "interval", Inet |-> "inet", Cidr |-> "cidr", Macaddr |-> "macaddr",
     Text |-> "text"]
MysqlTypes ==
    [SmallInt |-> "smallint", Integer |-> "int", BigInt |-> "bigint", Real |-> "float",
     DoublePrecision |-> "double", Boolean |-> "boolean", Date |-> "date",
     Time |-> "time", Timestamp |-> "timestamp", Timestamptz |-> "timestamp",
     Uuid |-> "binary", Json |-> "json", Interval |-> "text", Bytea |-> "binary",
     Inet |-> "text", Cidr |-> "text", Macaddr |-> "text", Xml |-> "text",
     Text |-> "text"]
SqliteTypes ==
    [SmallInt |-> "integer", Integer |-> "integer", BigInt |-> "integer",
     Real |-> "real", DoublePrecision |-> "real", Boolean |-> "integer",
     Date |-> "text", Time |-> "text", Timestamp |-> "text", Timestamptz |-> "text",
     Uuid |-> "text", Json |-> "text", Interval |-> "text", Bytea |-> "blob",
     Inet |-> "text", Cidr |-> "text", Macaddr |-> "text", Xml |-> "text",
     Text |-> "text"]

\* complex_ctor; pgEnum and custom types are consts of the file.
ComplexTypes ==
    [pg |-> [varchar |-> "varchar", char |-> "char", numeric |-> "numeric",
             ienum |-> "integer"],
     mysql |-> [varchar |-> "varchar", char |-> "char", numeric |-> "decimal",
                ienum |-> "int", senum |-> "mysqlEnum"],
     sqlite |-> [varchar |-> "text", char |-> "text", numeric |-> "numeric",
                 ienum |-> "integer", senum |-> "text"]]

ColumnCtor(type, dialect) ==
    LET simple == CASE dialect = "pg" -> PgTypes
                    [] dialect = "mysql" -> MysqlTypes
                    [] dialect = "sqlite" -> SqliteTypes
    IN  Mapped(IF type.kind = "simple" THEN simple ELSE ComplexTypes[dialect], type)

\* The consts that stand for a type: pgEnum and customType.
LocalCtor(type, dialect) ==
    UsesIf(CustomLabel(type, dialect) # Absent, "customType")
        \cup UsesIf(dialect = "pg" /\ type.kind = "senum", "pgEnum")

\* default_chain: what a default turns into under a dialect.
DrizzleDefault(type, default, dialect) ==
    LET shape == default[1].kind
    IN  CASE shape \in {"now", "nowCall"} -> IF dialect = "mysql" THEN "function" ELSE "sql"
          [] shape = "uuidCall" -> IF dialect = "pg" THEN "function" ELSE "sql"
          [] shape \in {"bool", "quoted", "number"} -> "literal"
          [] shape = "bare" /\ type.kind = "ienum"
                 /\ \E v \in ToSet(type.vals) : v[1] = default[1].text -> "literal"
          [] OTHER -> "sql"

TableFn == [pg |-> "pgTable", mysql |-> "mysqlTable", sqlite |-> "sqliteTable"]

\* An identity column has no default of its own.
IsAutoIncrement(table, col) ==
    /\ PrimaryKeyOf(table) = <<col.name>>
    /\ OfKind(table, "pk")[1].opt = "auto"

\* render_table, the columns.
DrizzleColumnSymbols(table, col, dialect) ==
    ColumnCtor(col.type, dialect)
        \cup UsesIf(/\ col.default # Absent
                    /\ ~IsAutoIncrement(table, col)
                    /\ DrizzleDefault(col.type, col.default, dialect) = "sql", "sql")

\* render_table, the constraints.
DrizzleTableSymbols(table, dialect) ==
    LET OfColumn(col) == DrizzleColumnSymbols(table, col, dialect)
        Has(kind) == Some(table.cons, LAMBDA c : c.kind = kind)
    IN  {TableFn[dialect]} \cup InColumns(table, OfColumn)
            \cup UsesIf(Len(PrimaryKeyOf(table)) > 1, "primaryKey")
            \cup UsesIf(Has("uq"), "uniqueIndex") \cup UsesIf(Has("ix"), "index")
            \cup UsesIf(Has("fk"), "foreignKey")
            \cup UsesIf(Has("ck"), "check") \cup UsesIf(Has("ck"), "sql")

\* table_enum_decls declares the string enums that collect_table_enums kept.
DeclaresPgEnum(tables, dialect) ==
    dialect = "pg" /\ Some(SchemaEnums(tables), LAMBDA e : e.type.kind = "senum")

DrizzleFile(tables, dialect) ==
    LET cols == UNION {ToSet(tables[i].cols) : i \in DOMAIN tables}
        body == UNION {DrizzleTableSymbols(tables[i], dialect) : i \in DOMAIN tables}
        related == \E i \in DOMAIN tables :
                       Fks(tables[i]) # <<>>
                           \/ CollectBackRelations(tables[i].name, tables) # <<>>
    IN  File(body \cup UsesIf(related, "relations")
                 \cup UsesIf(CustomTypes(tables, dialect) # <<>>, "customType")
                 \cup UsesIf(DeclaresPgEnum(tables, dialect), "pgEnum"),
             body \cup UsesIf(related, "relations")
                 \cup UNION {LocalCtor(c.type, dialect) : c \in cols})

\* import_vocabulary: what no table, enum or custom type may be called.
ImportVocabulary(dialect) ==
    {"customType", "primaryKey", "foreignKey", "uniqueIndex", "index", "check",
     "relations", "sql", TableFn[dialect]}
    \cup CASE dialect = "pg" ->
                {"pgEnum", "bigint", "boolean", "char", "cidr", "date", "doublePrecision",
                 "inet", "integer", "interval", "json", "macaddr", "numeric", "real",
                 "smallint", "text", "time", "timestamp", "uuid", "varchar"}
           [] dialect = "mysql" ->
                {"mysqlEnum", "bigint", "binary", "boolean", "char", "date", "decimal",
                 "double", "float", "int", "json", "smallint", "text", "time",
                 "timestamp", "varchar"}
           [] dialect = "sqlite" -> {"blob", "integer", "numeric", "real", "text"}

----------------------------------------------------------------------------
(* What a rendered model says about its table: the key, which columns may   *)
(* be NULL, what is unique and indexed, the foreign keys with what happens  *)
(* on a delete, and the defaults.  Names and types are in the modules below. *)
(* The referential action of a key is its opt: "" when the schema has none. *)

\* What is stated of one table.
Says(pk, nullable, uniques, indexes, fks) ==
    [pk |-> pk, nullable |-> nullable, uniques |-> uniques, indexes |-> indexes,
     fks |-> fks]

ColumnSets(table, kind) == {ToSet(c.cols) : c \in ToSet(OfKind(table, kind))}
IsSingle(S) == Cardinality(S) = 1
OnOne(table, kind) == {S \in ColumnSets(table, kind) : IsSingle(S)}
OnSeveral(table, kind) == {S \in ColumnSets(table, kind) : ~IsSingle(S)}
NullableColumns(table) ==
    {c.name : c \in {d \in ToSet(table.cols) : d.nullable}}

Pointing(fk, action) == [cols |-> fk.cols, ref |-> fk.ref[1], refCols |-> fk.refCols,
                         action |-> action]
NoAction == "no_action"
Acting(fk) == Pointing(fk, IF fk.opt = "" THEN NoAction ELSE fk.opt)
Silent(fk) == Pointing(fk, NoAction)

\* The foreign keys as most backends go through them: the last key on each
\* column, then the keys on several.
Scanned(table, Said(_)) ==
    LET single == {k \in DOMAIN Fks(table) :
                      \E c \in ColumnNames(table) : SingleColumnFk(table, c) = <<k>>}
    IN  {Said(Fks(table)[k]) : k \in single \cup ToSet(CompositeFks(table))}

----------------------------------------------------------------------------
(* The eight models.  is_pk holds for every column of the key in most of    *)
(* them, and hides what else is known of the column.                       *)

InKey(table) == {{c} : c \in PrimaryKeyColumns(table)}
OutsideKey(table, sets) == sets \ InKey(table)
Required(table, cols) == cols \ PrimaryKeyColumns(table)

SqlAlchemySays(table) ==
    Says(PrimaryKeyColumns(table), Required(table, NullableColumns(table)),
         OutsideKey(table, OnOne(table, "uq")) \cup OnSeveral(table, "uq"),
         ColumnSets(table, "ix"), Scanned(table, Silent))

SqlModelSays(table) ==
    Says(PrimaryKeyColumns(table), NullableColumns(table),
         OutsideKey(table, OnOne(table, "uq")) \cup OnSeveral(table, "uq"),
         OutsideKey(table, OnOne(table, "ix")) \cup OnSeveral(table, "ix"),
         Scanned(table, Silent))

\* The columns that are references to an entity: a @ManyToOne says nothing of
\* uniqueness, and keys on several columns are plain columns.
JpaKeys(table) == {c \in ColumnNames(table) : SingleColumnFk(table, c) # Absent}
JpaColumnUniques(table) ==
    OutsideKey(table, OnOne(table, "uq")) \ {{c} : c \in JpaKeys(table)}
JpaSays(table) ==
    Says(PrimaryKeyColumns(table), Required(table, NullableColumns(table)),
         JpaColumnUniques(table) \cup OnSeveral(table, "uq"), ColumnSets(table, "ix"),
         {f \in Scanned(table, Silent) : Len(f.cols) = 1})

\* Mutant: the key's columns are taken for keys of their own.
PrismaSaysEachKey(table) ==
    Says(PrimaryKeyColumns(table), NullableColumns(table),
         OutsideKey(table, ColumnSets(table, "uq")), ColumnSets(table, "ix"),
         Scanned(table, Acting))

\* Only a key of one column hides its uniqueness; no action is NoAction.
PrismaSays(table) ==
    LET key == ToSet(PrimaryKeyOf(table))
    IN  Says(key, NullableColumns(table), ColumnSets(table, "uq") \ {key},
             ColumnSets(table, "ix"), Scanned(table, Acting))

\* foreign_key_entry
DrizzleKeys(table) == {Acting(Fks(table)[k]) : k \in DOMAIN Fks(table)}

\* Every constraint is an entry of its own.
DrizzleSays(table) ==
    LET key == PrimaryKeyOf(table)
    IN  Says(ToSet(key),
             NullableColumns(table) \ (IF Len(key) = 1 THEN ToSet(key) ELSE {}),
             ColumnSets(table, "uq"), ColumnSets(table, "ix"), DrizzleKeys(table))

\* GORM groups the columns of an index by its name, which a column carries
\* for every index but only for the last unique constraint on several.
GormUniqueGroups(table) ==
    LET uqs == SelectSeq(OfKind(table, "uq"), LAMBDA c : Len(c.cols) > 1)
        LastWith(col) == Max({i \in DOMAIN uqs : Contains(uqs[i].cols, col)})
        Group(i) == {c \in ToSet(uqs[i].cols) : LastWith(c) = i}
    IN  {Group(i) : i \in DOMAIN uqs} \ {{}}

GormIndexes(table) == ColumnSets(table, "ix")
GormKeys(table) == Scanned(table, Acting)

GormSays(table) ==
    Says(PrimaryKeyColumns(table), Required(table, NullableColumns(table)),
         OutsideKey(table, OnOne(table, "uq")) \cup GormUniqueGroups(table),
         GormIndexes(table), GormKeys(table))

\* on_delete_for: SET_NULL and SET_DEFAULT need a field that can take them,
\* and no action at all is RESTRICT.
OnDeleteFor(action, hasDefault, null) ==
    CASE action = "set_default" /\ ~hasDefault -> NoAction
      [] action = "set_null" /\ ~null -> NoAction
      [] action = "" -> "restrict"
      [] OTHER -> action

DjangoForeignKey(table, fk) ==
    LET col == ColumnOf(table, fk.cols[1])
        isPk == PrimaryKeyColumns(table) = {col.name}
    IN  OnDeleteFor(fk.opt, DjangoDefault(col.type, col.default) # "none",
                    col.nullable /\ ~isPk)

\* A unique key is a OneToOneField; a key that Django cannot express is a
\* comment.
DjangoSays(table, tables) ==
    LET key == PrimaryKeyColumns(table)
        effective == IF Cardinality(key) = 1 THEN key ELSE {}
        related == UNION {ToSet(RelatableFk(table, c, tables)) : c \in ColumnNames(table)}
    IN  Says(key, NullableColumns(table) \ effective,
             ColumnSets(table, "uq") \ {effective}, ColumnSets(table, "ix"),
             {Pointing(fk, DjangoForeignKey(table, fk)) : fk \in related})

\* Indexes on several columns are comments, and an index on a unique column
\* is not repeated.
SeaOrmIndexes(table) ==
    OutsideKey(table, OnOne(table, "ix")) \ OnOne(table, "uq")
SeaOrmUniques(table) ==
    OutsideKey(table, OnOne(table, "uq")) \cup OnSeveral(table, "uq")
SeaOrmSays(table, tables) ==
    LET Resolved(fk) == [fk EXCEPT !.ref = <<ResolveFkTarget(fk, tables).table>>,
                                   !.refCols = ResolveFkTarget(fk, tables).cols]
    IN  Says(PrimaryKeyColumns(table), NullableColumns(table),
             SeaOrmUniques(table), SeaOrmIndexes(table),
             {Silent(Resolved(Fks(table)[k])) : k \in DOMAIN Fks(table)})

SaysOf(orm, table, tables) ==
    CASE orm = "sqlalchemy" -> SqlAlchemySays(table)
      [] orm = "sqlmodel" -> SqlModelSays(table)
      [] orm = "jpa" -> JpaSays(table)
      [] orm = "prisma" -> PrismaSays(table)
      [] orm = "drizzle" -> DrizzleSays(table)
      [] orm = "gorm" -> GormSays(table)
      [] orm = "django" -> DjangoSays(table, tables)
      [] orm = "seaorm" -> SeaOrmSays(table, tables)

----------------------------------------------------------------------------
(* Defaults.  A default is rendered as a "literal" of the model's language, *)
(* as an expression that the database evaluates ("sql"), as a function of   *)
(* the client ("function"), as a "string" that holds the SQL text or as the *)
(* text itself ("copied"), or not at all ("none").                         *)

LiteralShapes == {"bool", "number", "quoted", "json"}
NamesVariant(type, default) ==
    type.kind = "ienum" /\ \E v \in ToSet(type.vals) : v[1] = default.text

SqlAlchemyDefault(type, default) ==
    CASE default.kind \in ShapesWithParen -> "sql"
      [] default.kind \in LiteralShapes -> "literal"
      [] OTHER -> "string"

SqlModelDefault(type, default) ==
    IF default.kind \in {"bool", "quoted", "number"} THEN "literal" ELSE "sql"

\* build_default_initializer
JpaDefault(type, default) ==
    IF default.kind \in {"bool", "quoted", "number"} THEN "literal" ELSE "none"

\* prisma_default_attr
PrismaDefault(type, default) ==
    CASE type.kind = "ienum" -> IF \/ NamesVariant(type, default)
                                   \/ /\ default.kind = "number"
                                      /\ \E v \in ToSet(type.vals) : v[2] = default.text
                                THEN "literal" ELSE "sql"
      [] default.kind \in {"now", "nowCall", "uuidCall"} -> "function"
      [] default.kind \in {"bool", "quoted", "number"} -> "literal"
      [] OTHER -> "sql"

\* build_default_tag: what is no call is copied into the tag, where GORM
\* reads it as SQL.
GormDefault(type, default) ==
    CASE default.kind \in ShapesWithParen -> "none"
      [] NamesVariant(type, default) \/ default.kind \in LiteralShapes -> "literal"
      [] OTHER -> "sql"

\* format_default_value: an expression is "copied" into the attribute of a
\* numeric column and a string elsewhere; an integer enum's default that is
\* neither a number nor a variant becomes 0.
SeaOrmDefault(type, default) ==
    CASE type.kind = "ienum" \/ default.kind \in LiteralShapes -> "literal"
      [] ClassOf(type) \in {"SmallInt", "Integer", "BigInt", "Real", "DoublePrecision",
                            "Boolean", "numeric"} -> "copied"
      [] OTHER -> "string"

DefaultOf(orm, type, default, dialect) ==
    CASE orm = "sqlalchemy" -> SqlAlchemyDefault(type, default)
      [] orm = "sqlmodel" -> SqlModelDefault(type, default)
      [] orm = "jpa" -> JpaDefault(type, default)
      [] orm = "prisma" -> PrismaDefault(type, default)
      [] orm = "drizzle" -> DrizzleDefault(type, <<default>>, dialect)
      [] orm = "gorm" -> GormDefault(type, default)
      [] orm = "django" -> LET kind == DjangoDefault(type, <<default>>)
                           IN  IF kind \in {"timezone", "uuid"} THEN "function" ELSE kind
      [] orm = "seaorm" -> SeaOrmDefault(type, default)
=============================================================================
