------------------------------ MODULE Renderers ------------------------------
(***************************************************************************)
(* The four backends of vespertide-exporter that put a whole schema into   *)
(* one file: Prisma, Drizzle, GORM and Django.  A rendering is             *)
(*   scopes    functions whose values are names declared side by side, as  *)
(*             a sequence;                                                 *)
(*   entities  the types, with their columns and relation members;         *)
(*   enums     every enum column's type name with its values.              *)
(* Types of columns, defaults, referential actions and comments are left   *)
(* out: no name depends on them.                                           *)
(***************************************************************************)
EXTENDS Entities

Rendering(scopes, entities, enums) ==
    [scopes |-> scopes \o [i \in DOMAIN entities |-> FieldsOf(entities[i])],
     entities |-> entities, enums |-> enums]

\* Relations in the shape that Prisma and GORM share: the single-column key
\* of each column in column order, the composite keys, the back relations.
InRenderOrder(table, tables, Single(_, _), Composite(_), Back(_)) ==
    LET inline == [i \in DOMAIN table.cols |->
                      LET k == SingleColumnFk(table, table.cols[i].name)
                      IN  [n \in DOMAIN k |-> Single(table.cols[i].name, k[n])]]
        composite == CompositeFks(table)
        backs == CollectBackRelations(table.name, tables)
    IN  FlattenSeq(inline) \o [i \in DOMAIN composite |-> Composite(composite[i])]
            \o [i \in DOMAIN backs |-> Back(backs[i])]

WordsOfAll(names) == [i \in DOMAIN names |-> Words(names[i])]

----------------------------------------------------------------------------
(* Prisma: prisma/render.rs, prisma/enums.rs.                              *)

AmbiguousEnumIdentifiers(tables) ==
    LET enums == ToSet(SchemaEnums(tables))
    IN  {Words(e.type.label) : e \in {d \in enums : \E f \in enums :
            /\ Words(f.type.label) = Words(d.type.label)
            /\ <<f.type.kind, f.type.vals>> # <<d.type.kind, d.type.vals>>}}

PrismaEnumIdentifier(e, ambiguous) ==
    LET bare == Words(e.type.label)
    IN  IF bare \in ambiguous THEN Words(e.table) \o bare ELSE bare

PrismaModel(table, tables) ==
    LET fks == Fks(table)
        columns == WordsOfAll(ColumnSeq(table))
        Forward(preferred, k) ==
            Wanted(preferred,
                   Relation("forward", fks[k].ref[1], fks[k].cols,
                            WordsOfAll(fks[k].cols), WordsOfAll(fks[k].refCols),
                            RelationName(table, k)))
        Single(col, k) == Forward(Words(InferRelationFieldName(col)), k)
        Composite(k) == Forward(Words(fks[k].ref[1]), k)
        Back(br) ==
            Wanted(Words(IF br.name = Absent THEN br.source
                         ELSE br.segment \o br.source),
                   Relation("back", br.source, br.cols, <<>>, <<>>, br.name))
        wanted == InRenderOrder(table, tables, Single, Composite, Back)
    IN  Entity(table, columns, wanted,
               ClaimAll(wanted, ToSet(columns),
                        LAMBDA w, taken : ClaimFieldName(w.preferred, "rel", taken)))

\* Models and enums are declared under the names they have: nothing is
\* claimed at the scope of the file.
PrismaSchema(tables) ==
    LET enums == SchemaEnums(tables)
        ambiguous == AmbiguousEnumIdentifiers(tables)
    IN  Rendering(<<>>, [i \in DOMAIN tables |-> PrismaModel(tables[i], tables)],
                  {<<PrismaEnumIdentifier(e, ambiguous), e.type.kind, e.type.vals>> :
                      e \in ToSet(enums)})

----------------------------------------------------------------------------
(* Drizzle: drizzle/bindings.rs and render_relations_block.  A field that  *)
(* needs a suffix gets `_rel`, which no camel-case name contains.          *)

\* import_vocabulary and CALLBACK_SCOPE_NAMES, as far as tables of the
\* instances are named after them.
ReservedBindings == {<<"sql">>, <<"index">>, <<"relation", "s">>, <<"t">>,
                     <<"one">>, <<"many">>}

\* The string enums, which only PostgreSQL declares.
DeclaredEnums(tables, dialect) ==
    SelectSeq(SchemaEnums(tables),
              LAMBDA e : dialect = "pg" /\ e.type.kind = "senum")

\* custom_column: the type that a customType const stands for, an Option.
CustomLabel(type, dialect) ==
    CASE type.kind = "custom" -> <<type.label>>
      [] dialect = "pg" /\ type.kind = "simple" /\ type.label = <<"Bytea">> -> <<<<"bytea">>>>
      [] dialect = "pg" /\ type.kind = "simple" /\ type.label = <<"Xml">> -> <<<<"xml">>>>
      [] OTHER -> Absent

\* Each custom type once, in the order in which the columns name them.
CustomTypes(tables, dialect) ==
    FoldLeft(LAMBDA acc, c :
                 LET label == CustomLabel(c.type, dialect)
                 IN  IF label = Absent \/ Contains(acc, label[1]) THEN acc
                     ELSE Append(acc, label[1]),
             <<>>, FlattenSeq([i \in DOMAIN tables |-> tables[i].cols]))

\* FileBindings::collect, in declaration order; the relations block of a
\* table is named after what the table has claimed.
FileBindings(tables, dialect) ==
    LET EnumName(e) == Words(e.table) \o Words(e.type.label)
        EnumNames(enums) == [i \in DOMAIN enums |-> EnumName(enums[i])]
        Blocks(consts) == [i \in DOMAIN consts |-> consts[i] \o <<"relation", "s">>]
        Bindings(customs, enums, bound) ==
            LET consts == SubSeq(bound, customs + enums + 1, Len(bound))
                taken == ReservedBindings \cup ToSet(bound)
            IN  [scope |-> bound \o ClaimAll(Blocks(consts), taken, ClaimBinding),
                 enumConsts |-> SubSeq(bound, customs + 1, customs + enums),
                 tableConsts |-> consts]
        Claimed(customs, enums) ==
            Bindings(Len(customs), Len(enums),
                     ClaimAll(customs \o enums
                                  \o [i \in DOMAIN tables |-> Words(tables[i].name)],
                              ReservedBindings, ClaimBinding))
    IN  Claimed(WordsOfAll(CustomTypes(tables, dialect)), EnumNames(DeclaredEnums(tables, dialect)))

TableConst(bindings, tables, name) ==
    LET known == {i \in DOMAIN tables : tables[i].name = name}
    IN  IF known = {} THEN Words(name) ELSE bindings.tableConsts[Min(known)]

\* A forward field whose segment is taken has the target's name appended.
ClaimDrizzleField(w, taken) ==
    ClaimFieldName(IF w.preferred \in taken /\ w.relation.side = "forward"
                   THEN w.preferred \o Words(w.relation.other) ELSE w.preferred,
                   "_rel", taken)

RelationsBlock(table, tables, bindings) ==
    LET Forward(k, fk) ==
            Wanted(Words(RelationSegment(fk.cols)),
                   Relation("forward", fk.ref[1], fk.cols, WordsOfAll(fk.cols),
                            WordsOfAll(fk.refCols), RelationName(table, k)))
        Back(br) ==
            Wanted(IF br.name = Absent THEN TableConst(bindings, tables, br.source)
                   ELSE Words(br.segment \o br.source),
                   Relation("back", br.source, br.cols, <<>>, <<>>, br.name))
        Backs(brs) == [i \in DOMAIN brs |-> Back(brs[i])]
        Block(columns, wanted) ==
            Entity(table, columns, wanted,
                   ClaimAll(wanted, ToSet(columns), ClaimDrizzleField))
    IN  Block(WordsOfAll(ColumnSeq(table)),
              [k \in DOMAIN Fks(table) |-> Forward(k, Fks(table)[k])]
                  \o Backs(CollectBackRelations(table.name, tables)))

DrizzleSchema(tables, dialect) ==
    LET File(bindings, enums) ==
            Rendering(<<bindings.scope>>,
                      [i \in DOMAIN tables |-> RelationsBlock(tables[i], tables, bindings)],
                      {<<bindings.enumConsts[i], enums[i].type.kind, enums[i].type.vals>> :
                          i \in DOMAIN enums})
    IN  File(FileBindings(tables, dialect), DeclaredEnums(tables, dialect))

----------------------------------------------------------------------------
(* GORM: gorm/render.rs.                                                   *)

\* to_go_field_name: Go spells the word `id` as an initialism in columns.
GoFieldName(col) ==
    LET words == Words(col)
    IN  [i \in DOMAIN words |->
            IF words[i] = "id" /\ ~(i < Len(words) /\ words[i + 1] = "s")
            THEN "ID" ELSE words[i]]

\* Every struct has a method TableName.
GormColumnFields(table) ==
    ClaimAll(ColumnSeq(table), {<<"table", "name">>},
             LAMBDA col, taken : ClaimBinding(GoFieldName(col), taken))

FieldNameIn(tables, name, col) ==
    LET known == Lookup(name, tables)
    IN  IF known # <<>> /\ col \in ColumnNames(known[1])
        THEN FieldFor(known[1], GormColumnFields(known[1]), col)
        ELSE GoFieldName(col)

\* GORM infers the fields when the key is the target's primary key.
ReferenceFields(tables, ref, refCols) ==
    LET known == Lookup(ref, tables)
        inferred == /\ Len(refCols) = 1
                    /\ known # <<>> => PrimaryKeyColumns(known[1]) = {refCols[1]}
    IN  IF inferred THEN <<>>
        ELSE [i \in DOMAIN refCols |-> FieldNameIn(tables, ref, refCols[i])]

\* reverse_field_names: a name that several relations would take is told
\* apart by the key.
ReverseFieldName(target, backs, br) ==
    LET Base(r) == IF r.source = target THEN <<"children">>
                   ELSE IF r.oneToOne THEN Words(r.source)
                   ELSE Words(Pluralize(r.source))
        sharing == {i \in DOMAIN backs : Base(backs[i]) = Base(br)}
        key == FlattenSeq([i \in DOMAIN br.cols |-> GoFieldName(br.cols[i])])
    IN  IF Cardinality(sharing) > 1 THEN Append(Base(br), "by") \o key ELSE Base(br)

\* package_names: structs, enum types, then the constants of the enums.
PackageNames(tables) ==
    LET ClaimMember(scope, m) ==
            LET type == scope.names[EnumKey(m.table, m.enum)]
            IN  ClaimIn(scope, MemberKey(m.table, m.enum, m.index),
                        type \o Words(m.variant))
        members == FlattenSeq([n \in DOMAIN SchemaEnums(tables) |->
            LET e == SchemaEnums(tables)[n]
            IN  [i \in DOMAIN e.type.vals |->
                    [table |-> e.table, enum |-> e.type.label, index |-> i,
                     variant |-> e.type.vals[i][1]]]])
    IN  FoldLeft(ClaimMember, CollectScope(tables), members)

GormStruct(table, tables, scope) ==
    LET fks == Fks(table)
        columns == GormColumnFields(table)
        KeysOf(k) == [i \in DOMAIN fks[k].cols |->
                         FieldFor(table, columns, fks[k].cols[i])]
        BelongsTo(preferred, k) ==
            Wanted(preferred,
                   Relation("forward", fks[k].ref[1], fks[k].cols, KeysOf(k),
                            ReferenceFields(tables, fks[k].ref[1], fks[k].refCols),
                            Absent))
        Single(col, k) ==
            LET bare == Words(InferRelationFieldName(col))
            IN  BelongsTo(IF bare = FieldFor(table, columns, col)
                          THEN bare \o TypeIn(scope, fks[k].ref[1]) ELSE bare, k)
        Composite(k) == BelongsTo(TypeIn(scope, fks[k].ref[1]), k)
        backs == CollectBackRelations(table.name, tables)
        Has(br) ==
            Wanted(ReverseFieldName(table.name, backs, br),
                   Relation("back", br.source, br.cols,
                            [i \in DOMAIN br.cols |->
                                FieldNameIn(tables, br.source, br.cols[i])],
                            ReferenceFields(tables, table.name, br.refCols), Absent))
        wanted == InRenderOrder(table, tables, Single, Composite, Has)
        taken == ToSet(columns) \cup {<<"table", "name">>}
    IN  Entity(table, columns, wanted,
               ClaimAll(wanted, taken,
                        LAMBDA w, names : ClaimBinding(w.preferred, names)))

EnumsIn(scope, tables) ==
    {<<scope.names[EnumKey(e.table, e.type.label)], e.type.kind, e.type.vals>> :
        e \in ToSet(SchemaEnums(tables))}

GormPackage(tables) ==
    LET File(scope) ==
            Rendering(<<scope.names>>,
                      [i \in DOMAIN tables |-> GormStruct(tables[i], tables, scope)],
                      EnumsIn(scope, tables))
    IN  File(PackageNames(tables))

----------------------------------------------------------------------------
(* Django: django/render.rs.                                               *)

\* MODEL_ATTRIBUTES, as far as columns of the instances are named after them.
ModelAttributes == {<<"pk">>, <<"object", "s">>, <<"check">>}
DjangoIdentifier(col) ==
    LET words == Words(col)
    IN  IF words \in ModelAttributes THEN Append(words, "field") ELSE words

\* Django relates to a unique column of a table without a composite key.
IsRelatable(fk, tables) ==
    LET known == Lookup(fk.ref[1], tables)
    IN  known # <<>> =>
            /\ Cardinality(PrimaryKeyColumns(known[1])) < 2
            /\ fk.refCols[1] \in PrimaryKeyColumns(known[1])
                                     \cup SingleColumnUniques(known[1])

\* The relation that a column is rendered as: an Option of a foreign key.
RelatableFk(table, col, tables) ==
    LET k == SingleColumnFk(table, col)
        fk == [i \in DOMAIN k |-> Fks(table)[k[i]]]
    IN  SelectSeq(fk, LAMBDA c : IsRelatable(c, tables))

\* claim_relation_field_name: the field and its attribute `{field}_id`.
ClaimRelationFieldName(preferred, taken) ==
    LET Free(name) == name \notin taken /\ Append(name, "id") \notin taken
    IN  IF Free(preferred) THEN preferred ELSE FirstFree(preferred, 2, taken, Free)

DjangoColumnFields(table, tables) ==
    FoldLeft(LAMBDA acc, col :
        LET isRelation == RelatableFk(table, col, tables) # Absent
            name == IF isRelation
                    THEN ClaimRelationFieldName(
                             DjangoIdentifier(InferRelationFieldName(col)), acc.taken)
                    ELSE ClaimBinding(DjangoIdentifier(col), acc.taken)
            attname == IF isRelation THEN Append(name, "id") ELSE name
        IN  [names |-> Append(acc.names, name),
             attnames |-> Append(acc.attnames, attname),
             taken |-> acc.taken \cup {name, attname}],
        [names |-> <<>>, attnames |-> <<>>, taken |-> {}], ColumnSeq(table))

\* The tables that a junction has a rendered ForeignKey to.
ReachedByForeignKey(junction, tables) ==
    {RelatableFk(junction, col, tables)[1].ref[1] :
        col \in {c \in ColumnNames(junction) :
                    RelatableFk(junction, c, tables) # Absent}}

\* many_to_many_targets: pairs of a target and its junction.
ManyToManyTargets(table, tables) ==
    FlattenSeq([i \in DOMAIN tables |->
        LET junction == tables[i]
            targets == JunctionTargets(table.name, junction)
            reached == ReachedByForeignKey(junction, tables)
        IN  IF junction.name = table.name \/ targets = Absent
               \/ table.name \notin reached
            THEN <<>>
            ELSE LET found == SelectSeq(targets[1], LAMBDA t :
                                 t \in reached /\ Lookup(t, tables) # <<>>)
                 IN  [n \in DOMAIN found |-> <<found[n], junction.name>>]])

\* The field that a key names when it is not the target's primary key.
ToField(fk, tables) ==
    LET known == Lookup(fk.ref[1], tables)
    IN  IF known = <<>> \/ fk.refCols[1] \in PrimaryKeyColumns(known[1]) THEN <<>>
        ELSE <<FieldFor(known[1], DjangoColumnFields(known[1], tables).names,
                        fk.refCols[1])>>

DjangoModel(table, tables) ==
    LET Twice(pairs, target) ==
            Cardinality({i \in DOMAIN pairs : pairs[i][1] = target}) > 1
        ManyToMany(pairs) == [i \in DOMAIN pairs |->
            Wanted(DjangoIdentifier(
                       IF Twice(pairs, pairs[i][1])
                       THEN Append(Pluralize(pairs[i][1]), "via") \o pairs[i][2]
                       ELSE Pluralize(pairs[i][1])),
                   Through(pairs[i][1], pairs[i][2]))]
        ForeignKeyAt(fields, i, fk) ==
            [n \in DOMAIN fk |->
                [field |-> fields.attnames[i],
                 relation |-> Relation("forward", fk[n].ref[1], fk[n].cols,
                                  <<fields.names[i]>>, ToField(fk[n], tables), Absent)]]
        ForeignKeys(fields) == FlattenSeq([i \in DOMAIN table.cols |->
            ForeignKeyAt(fields, i, RelatableFk(table, table.cols[i].name, tables))])
        Body(fields, wanted) ==
            [Entity(table, fields.names, wanted,
                    ClaimAll(wanted, fields.taken,
                             LAMBDA w, taken : ClaimBinding(w.preferred, taken)))
                EXCEPT !.members = ForeignKeys(fields) \o @]
    IN  Body(DjangoColumnFields(table, tables),
             ManyToMany(ManyToManyTargets(table, tables)))

DjangoModule(tables) ==
    LET File(scope) ==
            Rendering(<<scope.names>>,
                      [i \in DOMAIN tables |-> DjangoModel(tables[i], tables)],
                      EnumsIn(scope, tables))
    IN  File(CollectScope(tables))
=============================================================================
