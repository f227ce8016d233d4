------------------------------- MODULE SeaOrm -------------------------------
(***************************************************************************)
(* The SeaORM backend (seaorm/relations, seaorm/render.rs): one file for   *)
(* each table, whose relations are told apart by relation enums.  A        *)
(* relation's label is its relation_enum, its via is via or via_rel.       *)
(***************************************************************************)
EXTENDS Renderers

----------------------------------------------------------------------------
(* relations/fk_resolve.rs: a key to a column that is itself a key is      *)
(* followed to the end of the chain, or to where the chain closes.         *)

ResolveFkTarget(fk, tables) ==
    LET Follow(at, ignored) ==
            LET known == Lookup(at.table, tables)
                onward == IF known = <<>> \/ Len(at.cols) # 1 THEN <<>>
                          ELSE SelectSeq(Fks(known[1]), LAMBDA c : c.cols = at.cols)
                visited == at.visited \cup {<<at.table, at.cols[1]>>}
            IN  IF onward = <<>>
                   \/ <<onward[1].ref[1], onward[1].refCols[1]>> \in visited
                THEN at
                ELSE [table |-> onward[1].ref[1], cols |-> onward[1].refCols,
                      visited |-> visited]
    IN  FoldLeft(Follow,
                 [table |-> fk.ref[1], cols |-> fk.refCols, visited |-> {}],
                 FlattenSeq([i \in DOMAIN tables |-> Fks(tables[i])]))

----------------------------------------------------------------------------
(* relations/naming.rs.                                                    *)

GenerateRelationEnumName(cols) == Words(InferRelationFieldName(cols[1]))

UniqueRelationEnumName(preferred, source, base, used) ==
    IF preferred \notin used THEN preferred
    ELSE ClaimBinding(Words(source) \o base, used)

\* The name without the suffix, as an Option.
StripSuffix(col, suffix) ==
    LET n == Len(col) - Len(suffix)
    IN  IF n > 0 /\ SubSeq(col, n + 1, Len(col)) = suffix /\ col[n] # "-"
        THEN <<SubSeq(col, 1, n)>> ELSE Absent

\* The compact form, one word made of the table and the column, is left out.
InferFieldNameFromFkColumn(col, table, to) ==
    LET stripped == StripSuffix(col, to) \o StripSuffix(col, <<"id">>)
                        \o StripSuffix(col, <<"idx">>) \o <<col>>
        name == Words(stripped[1])
    IN  IF name = to THEN Words(table) ELSE name

\* unique_name numbers from 1, after a separator.
UniqueName(preferred, used) ==
    LET Free(name) == name \notin used
    IN  IF Free(preferred) THEN preferred ELSE FirstFree(preferred, 1, used, Free)

----------------------------------------------------------------------------
(* relations/mod.rs and relations/reverse.rs.                              *)

Others(table, tables) == SelectSeq(tables, LAMBDA t : t.name # table.name)
FksTo(source, table) ==
    SelectSeq(Fks(source), LAMBDA c : c.ref = <<table.name>>)
KnownTargets(targets, tables) ==
    SelectSeq(targets, LAMBDA t : Lookup(t, tables) # <<>>)

\* Every table that a relation of this one would point to, with repeats.
ReverseTargets(table, tables) ==
    LET others == Others(table, tables)
    IN  FlattenSeq([i \in DOMAIN others |->
            LET linked == JunctionTargets(table.name, others[i])
            IN  IF linked # Absent
                THEN <<others[i].name>> \o KnownTargets(linked[1], tables)
                ELSE [n \in DOMAIN FksTo(others[i], table) |-> others[i].name]])

SeaOneToOne(source, cols) ==
    LET pk == PrimaryKeyColumns(source)
    IN  \/ Len(cols) = Cardinality(pk) /\ ToSet(cols) \subseteq pk
        \/ Len(cols) = 1 /\ cols[1] \in SingleColumnUniques(source)

\* A relation that still needs its field and its relation enum.
Claimant(preferred, relation, source, base, repeated) ==
    [preferred |-> preferred, relation |-> relation, source |-> source,
     base |-> base, repeated |-> repeated]

JunctionRelations(junction, linked, tables) ==
    LET known == KnownTargets(linked, tables)
        ViaName(target) == Append(Words(target), "via") \o Words(junction.name)
    IN  <<Claimant(Words(Pluralize(junction.name)),
                  Relation("junction", junction.name, <<>>, <<>>, <<>>, Absent),
                  junction.name, Words(junction.name), FALSE)>>
        \o [i \in DOMAIN known |->
               Claimant(Append(Words(Pluralize(known[i])), "via")
                           \o Words(junction.name),
                       Through(known[i], junction.name),
                       junction.name, ViaName(known[i]), FALSE)]

DirectRelations(source, table) ==
    LET keys == FksTo(source, table)
        repeated == Len(keys) > 1
    IN  [n \in DOMAIN keys |->
            LET base == GenerateRelationEnumName(keys[n].cols)
                one == SeaOneToOne(source, keys[n].cols)
                plain == Words(IF one THEN source.name ELSE Pluralize(source.name))
            IN  Claimant(IF ~repeated THEN plain ELSE IF one THEN base ELSE base \o plain,
                        Relation("back", source.name, keys[n].cols, <<>>, <<>>, Absent),
                        source.name, base, repeated)]

\* collect_many_to_many_relations gives way when every key of the junction
\* points back at the table.
ReverseRelations(table, tables) ==
    LET others == Others(table, tables)
    IN  FlattenSeq([i \in DOMAIN others |->
            LET linked == JunctionTargets(table.name, others[i])
            IN  IF linked = Absent \/ linked = <<<<>>>>
                THEN DirectRelations(others[i], table)
                ELSE JunctionRelations(others[i], linked[1], tables)])

\* Forward relations point at the end of the chain.
ForwardRelations(table, tables) ==
    LET Forward(fk, resolved) ==
            Claimant(IF Len(fk.cols) = 1
                     THEN InferFieldNameFromFkColumn(fk.cols[1], resolved.table,
                                                     resolved.cols[1])
                     ELSE Words(resolved.table),
                     Relation("forward", resolved.table, fk.cols, WordsOfAll(fk.cols),
                              WordsOfAll(resolved.cols), Absent),
                     table.name, GenerateRelationEnumName(fk.cols), FALSE)
    IN  [k \in DOMAIN Fks(table) |->
            Forward(Fks(table)[k], ResolveFkTarget(Fks(table)[k], tables))]

\* A table that several relations point to, counted over both directions.
NeedsRelationEnum(w, targets) ==
    w.repeated \/ Cardinality({i \in DOMAIN targets : targets[i] = w.relation.other}) > 1

\* The relation enum of a claimant, <<>> when it needs none.
RelationEnumFor(w, targets, used) ==
    LET own == Words(w.source)
        preferred == IF w.relation.side = "through" \/ own \in used THEN w.base ELSE own
    IN  CASE ~NeedsRelationEnum(w, targets) -> <<>>
          [] w.relation.side # "forward" ->
                UniqueRelationEnumName(preferred, w.source, w.base, used)
          [] OTHER -> IF w.base \in used THEN w.base \o own ELSE w.base

\* A back relation names the relation enum that it expects at the other end.
Labelled(w, enum) ==
    [w.relation EXCEPT
        !.label = IF enum = <<>> THEN Absent ELSE <<enum>>,
        !.via = IF w.relation.side = "back" /\ enum # <<>> THEN <<w.base>> ELSE @]

\* relation_field_defs_with_schema: fields and relation enums are claimed for
\* the forward relations first.
ClaimRelations(table, columns, wanted, targets) ==
    LET Members(fields, enums) ==
            [i \in DOMAIN wanted |->
                [field |-> fields[i], relation |-> Labelled(wanted[i], enums[i])]]
    IN  [table |-> table.name, columns |-> columns,
         members |-> Members(
             ClaimAll(wanted, ToSet(columns),
                      LAMBDA w, used : UniqueName(w.preferred, used)),
             ClaimAll(wanted, {}, LAMBDA w, used : RelationEnumFor(w, targets, used)))]

SeaOrmModel(table, tables) ==
    LET Claim(forward) ==
            ClaimRelations(table, WordsOfAll(ColumnSeq(table)),
                           forward \o ReverseRelations(table, tables),
                           [k \in DOMAIN forward |-> forward[k].relation.other]
                               \o ReverseTargets(table, tables))
    IN  Claim(ForwardRelations(table, tables))

----------------------------------------------------------------------------
(* relations/self_ref.rs: the links of a junction whose keys all point     *)
(* back at the table.                                                      *)

SelfRefJunctions(table, tables) ==
    SelectSeq(Others(table, tables), LAMBDA j :
        JunctionTargets(table.name, j) = <<<<>>>>)

SelfRefLinks(table, tables) ==
    LET junctions == SelfRefJunctions(table, tables)
        Link(j, from, to) ==
            [name |-> Append(Words(from), "to") \o Append(Words(to), "via")
                          \o Words(j.name),
             junction |-> j.name,
             roles |-> {GenerateRelationEnumName(<<from>>),
                        GenerateRelationEnumName(<<to>>)}]
        Pairs(n) == SetToSeq({p \in (1 .. n) \X (1 .. n) : p[1] # p[2]})
    IN  FlattenSeq([i \in DOMAIN junctions |->
            LET fks == Fks(junctions[i])
                pairs == Pairs(Len(fks))
            IN  [n \in DOMAIN pairs |->
                    Link(junctions[i], fks[pairs[n][1]].cols[1],
                         fks[pairs[n][2]].cols[1])]])

----------------------------------------------------------------------------
(* render_entity_with_config_and_paths for every table.                    *)

RelationEnums(entity) ==
    LET labelled == SelectSeq(entity.members, LAMBDA m : m.relation.label # Absent)
    IN  [i \in DOMAIN labelled |-> labelled[i].relation.label[1]]

SeaOrmFiles(tables) ==
    LET Types(enums, links) == [i \in DOMAIN enums |-> Words(enums[i].label)]
                                   \o [i \in DOMAIN links |-> links[i].name]
        Files(entities) ==
            Rendering([i \in DOMAIN entities |-> RelationEnums(entities[i])]
                          \o [i \in DOMAIN tables |->
                                 Types(CollectTableEnums(tables[i]),
                                       SelfRefLinks(tables[i], tables))],
                      entities,
                      {<<Append(Words(e.table), "-") \o Words(e.type.label),
                         e.type.kind, e.type.vals>> : e \in ToSet(SchemaEnums(tables))})
    IN  Files([i \in DOMAIN tables |-> SeaOrmModel(tables[i], tables)])
=============================================================================
