------------------------------ MODULE Entities ------------------------------
(***************************************************************************)
(* What the ORM renderers share: names and how they are claimed            *)
(* (vespertide-naming, utils/common.rs, scope_names.rs) and the scans of a  *)
(* normalised schema (constraint_scan.rs, enum_scan.rs).                   *)
(*                                                                         *)
(* A database name is a sequence of words: author_id is <<"author", "id">>, *)
(* order-item is <<"order", "-", "item">>, a plural ends in the word "s".   *)
(* An identifier is a sequence of words too; its case is left out, since   *)
(* every scope uses one case.  A number appended without a separator is a   *)
(* word: name2 is <<"name", "2">>.  A schema is the sequence of tables     *)
(* that the exporter is given, each with its name.                         *)
(***************************************************************************)
EXTENDS Schema, FiniteSets, FiniteSetsExt, TLC

Some(seq, P(_)) == \E i \in DOMAIN seq : P(seq[i])

----------------------------------------------------------------------------
(* Names.                                                                  *)

\* to_pascal_case, to_camel_case and sanitize_identifier: `_` and `-` are one
\* separator, so two names can fold to one identifier.
Words(name) == SelectSeq(name, LAMBDA w : w # "-")

InferRelationFieldName(col) ==
    IF Len(col) > 1 /\ Last(col) = "id" /\ col[Len(col) - 1] # "-"
    THEN Front(col) ELSE col

Pluralize(name) == IF Last(name) = "s" THEN name ELSE Append(name, "s")

\* The smallest numbered variant that is free.
FirstFree(name, first, taken, Free(_)) ==
    LET Numbered(n) == Append(name, ToString(n))
    IN  Numbered(Min({n \in first .. first + 2 * Cardinality(taken) : Free(Numbered(n))}))

ClaimBinding(preferred, taken) ==
    LET Free(name) == name \notin taken
    IN  IF Free(preferred) THEN preferred ELSE FirstFree(preferred, 2, taken, Free)

\* Mutant: a field that repeats one that is taken.
ClaimFieldNameUnchecked(preferred, suffix, taken) == preferred

\* first_unused: the suffix comes before the numbers.
ClaimFieldName(preferred, suffix, taken) ==
    IF preferred \notin taken THEN preferred
    ELSE ClaimBinding(Append(preferred, suffix), taken)

\* Names claimed one after the other for a sequence of claimants.
ClaimAll(claimants, reserved, Claim(_, _)) ==
    FoldLeft(LAMBDA acc, c :
                 LET name == Claim(c, acc.taken)
                 IN  [names |-> Append(acc.names, name),
                      taken |-> acc.taken \cup {name}],
             [names |-> <<>>, taken |-> reserved], claimants).names

----------------------------------------------------------------------------
(* Scans of the constraints.                                               *)

OfKind(table, kind) == SelectSeq(table.cons, LAMBDA c : c.kind = kind)
Fks(table) == OfKind(table, "fk")
ColumnSeq(table) == [i \in DOMAIN table.cols |-> table.cols[i].name]
Lookup(name, tables) == SelectSeq(tables, LAMBDA t : t.name = name)

\* The columns of the first primary key.
PrimaryKeyOf(table) ==
    LET keys == OfKind(table, "pk") IN IF keys = <<>> THEN <<>> ELSE keys[1].cols

PrimaryKeyColumns(table) ==
    UNION {ToSet(c.cols) : c \in ToSet(OfKind(table, "pk"))}

SingleColumnUniques(table) ==
    {c.cols[1] : c \in {d \in ToSet(OfKind(table, "uq")) : Len(d.cols) = 1}}

\* single_column_fk_details: of several keys on one column the last counts.
\* An Option of the key's position among the table's foreign keys.
SingleColumnFk(table, col) ==
    LET fks == Fks(table)
        on == {k \in DOMAIN fks : fks[k].cols = <<col>>}
    IN  IF on = {} THEN Absent ELSE <<Max(on)>>

CompositeFks(table) ==
    LET fks == Fks(table)
    IN  SelectSeq([k \in DOMAIN fks |-> k], LAMBDA k : Len(fks[k].cols) > 1)

\* The tables that a junction links to `current`, as an Option.
JunctionTargets(current, junction) ==
    LET fks == Fks(junction)
        pk == PrimaryKeyColumns(junction)
        others == SelectSeq(fks, LAMBDA c : c.ref # <<current>>)
    IN  IF /\ Cardinality(pk) >= 2
           /\ Len(fks) >= 2
           /\ \A k \in DOMAIN fks : ToSet(fks[k].cols) \subseteq pk
           /\ Len(others) < Len(fks)
        THEN <<[i \in DOMAIN others |-> others[i].ref[1]]>>
        ELSE Absent

RelationSegment(cols) ==
    FlattenSeq([i \in DOMAIN cols |-> InferRelationFieldName(cols[i])])

\* Mutant: keys with one segment share a name.
FkRelationNamesUnnumbered(table) ==
    [k \in DOMAIN Fks(table) |->
        Words(table.name) \o Words(RelationSegment(Fks(table)[k].cols))]

\* fk_relation_names: repeats within one target are numbered in order.
FkRelationNames(table) ==
    LET fks == Fks(table)
        Base(k) == Words(table.name) \o Words(RelationSegment(fks[k].cols))
        Seen(k) == Cardinality({j \in 1 .. k : /\ fks[j].ref = fks[k].ref
                                               /\ Base(j) = Base(k)})
    IN  [k \in DOMAIN fks |-> IF Seen(k) = 1 THEN Base(k)
                              ELSE Append(Base(k), ToString(Seen(k)))]

\* Both ends name a relation when a table has several keys to one target or
\* references itself.
Ambiguous(table, ref) ==
    \/ table.name = ref
    \/ Len(SelectSeq(table.cons, LAMBDA c : References(c, ref))) > 1

RelationName(table, k) ==
    IF Ambiguous(table, Fks(table)[k].ref[1])
    THEN <<FkRelationNames(table)[k]>> ELSE Absent

IsOneToOne(source, cols) ==
    LET Covers(key) == Len(key) = Cardinality(ToSet(cols))
                       /\ ToSet(key) \subseteq ToSet(cols)
    IN  \/ Covers(PrimaryKeyOf(source))
        \/ \E u \in ToSet(OfKind(source, "uq")) : Covers(u.cols)

CollectBackRelations(target, tables) ==
    FlattenSeq([i \in DOMAIN tables |->
        LET source == tables[i]
            fks == Fks(source)
            here == SelectSeq([k \in DOMAIN fks |-> k],
                              LAMBDA k : fks[k].ref = <<target>>)
        IN  [n \in DOMAIN here |->
                [source |-> source.name, cols |-> fks[here[n]].cols,
                 refCols |-> fks[here[n]].refCols,
                 oneToOne |-> IsOneToOne(source, fks[here[n]].cols),
                 segment |-> RelationSegment(fks[here[n]].cols),
                 name |-> RelationName(source, here[n])]]])

----------------------------------------------------------------------------
(* Enums.                                                                  *)

\* collect_table_enums: the first declaration of a name wins.
CollectTableEnums(table) ==
    FoldLeft(LAMBDA acc, c :
                 IF IsEnum(c.type) /\ \A i \in DOMAIN acc : acc[i].label # c.type.label
                 THEN Append(acc, c.type) ELSE acc,
             <<>>, table.cols)

\* Every enum of the schema with the table that declares it.
SchemaEnums(tables) ==
    FlattenSeq([i \in DOMAIN tables |->
        LET enums == CollectTableEnums(tables[i])
        IN  [j \in DOMAIN enums |-> [table |-> tables[i].name, type |-> enums[j]]]])

----------------------------------------------------------------------------
(* ScopeNames: the names of a file that holds the whole schema, for GORM   *)
(* and Django.  A claim is looked up by what it names.                     *)

TableKey(table) == <<"table", table>>
EnumKey(table, enum) == <<"enum", table, enum>>
MemberKey(table, enum, i) == <<"member", table, enum, i>>

ClaimIn(scope, key, natural) ==
    IF key \in DOMAIN scope.names THEN scope
    ELSE LET name == ClaimBinding(natural, scope.taken)
         IN  [names |-> scope.names @@ (key :> name),
              taken |-> scope.taken \cup {name}]

IdentifiersSharedAcrossTables(tables) ==
    {Words(e.type.label) : e \in {d \in ToSet(SchemaEnums(tables)) :
        \E f \in ToSet(SchemaEnums(tables)) :
            f.table # d.table /\ Words(f.type.label) = Words(d.type.label)}}

CollectScope(tables) ==
    LET withTables == FoldLeft(
            LAMBDA s, t : ClaimIn(s, TableKey(t.name), Words(t.name)),
            [names |-> <<>>, taken |-> {}], tables)
        ClaimEnum(s, e) ==
            LET bare == Words(e.type.label)
                natural == IF \/ bare \in IdentifiersSharedAcrossTables(tables)
                              \/ bare \in s.taken
                           THEN s.names[TableKey(e.table)] \o bare ELSE bare
            IN  ClaimIn(s, EnumKey(e.table, e.type.label), natural)
    IN  FoldLeft(ClaimEnum, withTables, SchemaEnums(tables))

TypeIn(scope, table) ==
    IF TableKey(table) \in DOMAIN scope.names THEN scope.names[TableKey(table)]
    ELSE Words(table)

----------------------------------------------------------------------------
(* What a rendered file is abstracted to.  A relation member names the     *)
(* table on its other end, the fields it reads on the key's side and on    *)
(* the referenced side (empty when the ORM infers them), its label, and     *)
(* what it goes through; it remembers the columns of the key it was         *)
(* rendered for.                                                           *)

Relation(side, other, cols, keys, refs, label) ==
    [side |-> side, other |-> other, cols |-> cols, keys |-> keys,
     refs |-> refs, label |-> label, via |-> Absent]

Through(other, junction) ==
    [Relation("through", other, <<>>, <<>>, <<>>, Absent) EXCEPT !.via = <<junction>>]

\* A relation that still has to claim its name.
Wanted(preferred, relation) == [preferred |-> preferred, relation |-> relation]

\* A type: the fields of its columns, in order, and its relation members.
Entity(table, columns, wanted, names) ==
    [table |-> table.name, columns |-> columns,
     members |-> [i \in DOMAIN wanted |->
                     [field |-> names[i], relation |-> wanted[i].relation]]]

FieldsOf(entity) ==
    entity.columns \o [i \in DOMAIN entity.members |-> entity.members[i].field]

\* The field of a column of an entity.
FieldFor(table, columns, col) ==
    columns[CHOOSE i \in DOMAIN table.cols : table.cols[i].name = col]
=============================================================================
