----------------------------- MODULE Documents ------------------------------
(***************************************************************************)
(* A model file as the language server reads it: crates/vespertide-lsp/    *)
(* src/tree_util.rs over the trees of the JSON and YAML parsers (external: *)
(* tree-sitter), and the table definition that serde makes of it.          *)
(*                                                                         *)
(* A document is the sequence of its scalars in the order of the text.     *)
(* Each has the path of the pairs around it, outermost first; a step of a  *)
(* path is a key, with the position in the array when the value of the     *)
(* pair is one.  The text of a scalar is a sequence of words: one for a    *)
(* name, several for a CHECK expression or a reference like "user.id".     *)
(* A byte range is the position of a scalar and of a word in it.           *)
(***************************************************************************)
EXTENDS Schema, FiniteSets

CONSTANT Lexeme  \* word of a CHECK expression that is no column name ->
                 \* its kind, and for literals the sort and the rank

\* lex_check_expr: what a word of an expression is.
LexKind(word) == IF word \in DOMAIN Lexeme THEN Lexeme[word].kind ELSE "column"

Step(key, at) == [key |-> key, at |-> at]
Leaf(path, text) == [path |-> path, text |-> text]

EmptyArray == <<"[]">>

\* The first of several, as an Option.
HeadOf(s) == IF s = <<>> THEN Absent ELSE <<s[1]>>

----------------------------------------------------------------------------
(* tree_util.rs.  A mapping is the path that leads to it.                  *)

Within(leaf, mapping) == IsPrefix(mapping, leaf.path)

\* ancestor_pair and the mapping that the pair is in.
KeyOf(leaf) == Last(leaf.path).key
MappingOf(leaf) == Front(leaf.path)

IsTopLevelPair(leaf) == Len(leaf.path) = 1

\* enclosing_pair_with_key, ancestor_pair_with_key.
IsUnder(leaf, key) == \E i \in DOMAIN leaf.path : leaf.path[i].key = key

\* Positions of the scalars of a mapping, of one of its pairs, in order.
ScalarsOf(doc, mapping) == {i \in DOMAIN doc : Within(doc[i], mapping)}
ScalarsOfPair(doc, mapping, key) ==
    {i \in ScalarsOf(doc, mapping) :
        /\ Len(doc[i].path) > Len(mapping)
        /\ doc[i].path[Len(mapping) + 1].key = key}

HasPair(doc, mapping, key) == ScalarsOfPair(doc, mapping, key) # {}

\* Positions in the order of the text.
InOrder(doc, positions) ==
    SelectSeq([i \in DOMAIN doc |-> i], LAMBDA i : i \in positions)

First(positions) == CHOOSE i \in positions : \A j \in positions : i <= j

\* direct_child_value, find_pair_with_key and its like: the scalar that is
\* the value of a pair of the mapping itself, as an Option.
ChildScalar(doc, mapping, key) ==
    LET own == {i \in DOMAIN doc : doc[i].path = Append(mapping, Step(key, 0))}
    IN  IF own = {} THEN Absent ELSE <<First(own)>>

ChildValue(doc, mapping, key) ==
    LET at == ChildScalar(doc, mapping, key)
    IN  IF at = Absent THEN <<>> ELSE doc[at[1]].text

\* The values of an array, in order.
ArrayOf(doc, mapping, key) ==
    LET items == {i \in ScalarsOfPair(doc, mapping, key) :
                     /\ Len(doc[i].path) = Len(mapping) + 1
                     /\ doc[i].path[Len(mapping) + 1].at # 0}
        sorted == InOrder(doc, items)
    IN  [k \in DOMAIN sorted |-> doc[sorted[k]].text]

\* extract_top_level_name: find_outer_mapping, find_direct_name_value.
TopLevelName(doc) == ChildValue(doc, <<>>, "name")

\* find_columns_array, find_value_for_key and first_columns_value: the first
\* pair with the key in the order of the text, at whatever depth.
FirstPair(doc, key) ==
    LET under == {i \in DOMAIN doc : IsUnder(doc[i], key)}
        path == doc[First(under)].path
        depth == CHOOSE d \in DOMAIN path :
                    /\ path[d].key = key
                    /\ \A e \in 1..d - 1 : path[e].key # key
    IN  IF under = {} THEN Absent
        ELSE <<[mapping |-> SubSeq(path, 1, depth - 1), key |-> key]>>

\* The mappings in the value of a pair, in the order of the text: each is
\* represented by its path, and comes before the ones inside it.
MappingsOf(doc, pair) ==
    LET inside == ScalarsOfPair(doc, pair.mapping, pair.key)
        base == Len(pair.mapping)
        Opens(i, d) == \* the mapping at depth d is first met at scalar i
            /\ d > base
            /\ \A j \in inside : j < i => ~Within(doc[j], SubSeq(doc[i].path, 1, d))
        Opened(i) == SelectSeq([d \in 1..Len(doc[i].path) - 1 |-> d],
                               LAMBDA d : Opens(i, d))
        order == InOrder(doc, inside)
    IN  FlattenSeq([k \in DOMAIN order |->
            LET i == order[k]
            IN  [n \in DOMAIN Opened(i) |-> SubSeq(doc[i].path, 1, Opened(i)[n])]])

----------------------------------------------------------------------------
(* CHECK expressions.                                                      *)

ColumnWords(text) == {w \in DOMAIN text : LexKind(text[w]) = "column"}

\* is_check_constraint_pair, is_inside_constraints.
IsCheckExpr(doc, leaf) ==
    /\ KeyOf(leaf) = "expr"
    /\ ChildValue(doc, MappingOf(leaf), "type") = <<"check">>

----------------------------------------------------------------------------
(* The table definition: serde and TableDef::normalize.                    *)

\* The elements of a top-level array of mappings.
Elements(doc, key) ==
    {doc[i].path[1].at : i \in ScalarsOfPair(doc, <<>>, key)} \ {0}

ElementSeq(doc, key) ==
    [k \in 1..Cardinality(Elements(doc, key)) |-> <<Step(key, k)>>]

\* The simple types, and the fields that each kind of complex type has.
Known == {"integer", "text"}
Fields == [varchar |-> {"length"}, numeric |-> {"precision", "scale"},
           enum |-> {"name", "values"}]

TypeOf(doc, col) ==
    LET object == Append(col, Step("type", 0))
        values == ArrayOf(doc, object, "values")
        kind == ChildValue(doc, object, "kind")
    IN  IF ChildValue(doc, col, "type") # <<>>
        THEN SimpleType(ChildValue(doc, col, "type"))
        ELSE IF kind # <<"enum">> THEN SimpleType(kind)
        ELSE StringEnum(ChildValue(doc, object, "name"),
                        [k \in DOMAIN values |-> values[k][1]])

\* parse_foreign_key: an object, or the short form "table.column".
ForeignKeyOf(doc, col) ==
    LET object == Append(col, Step("foreign_key", 0))
        short == ChildValue(doc, col, "foreign_key")
    IN  IF ~HasPair(doc, col, "foreign_key") THEN Absent
        ELSE IF short # <<>>
        THEN <<ForeignKeyDef(<<short[1]>>, <<<<short[3]>>>>, "")>>
        ELSE <<ForeignKeyDef(ChildValue(doc, object, "ref_table"),
                             ArrayOf(doc, object, "ref_columns"), "")>>

\* A name is the text of its scalar.
ColumnDef(doc, col) ==
    [Column(ChildValue(doc, col, "name"), TypeOf(doc, col)) EXCEPT
        !.nullable = ChildValue(doc, col, "nullable") = <<"true">>,
        !.default = IF HasPair(doc, col, "default")
                    THEN <<ChildValue(doc, col, "default")>> ELSE Absent,
        !.pk = IF ChildValue(doc, col, "primary_key") = <<"true">>
               THEN "yes" ELSE "no",
        !.uq = IF ChildValue(doc, col, "unique") = <<"true">>
               THEN <<Absent>> ELSE <<>>,
        !.ix = IF ChildValue(doc, col, "index") = <<"true">>
               THEN <<Absent>> ELSE <<>>,
        !.fk = ForeignKeyOf(doc, col)]

TableConstraint(doc, con) ==
    LET kind == ChildValue(doc, con, "type")
        name == ChildValue(doc, con, "name")
        cols == ArrayOf(doc, con, "columns")
    IN  CASE kind = <<"unique">> -> Unique(name, cols)
          [] kind = <<"check">> -> Check(name, ChildValue(doc, con, "expr"))
          [] kind = <<"foreign_key">> ->
                ForeignKey(name, cols, ChildValue(doc, con, "ref_table"),
                           ArrayOf(doc, con, "ref_columns"), "")

\* A document is accepted when no required field is missing and every type
\* is known.  An empty string or an unknown key is fine with serde.
Parses(doc) ==
    /\ HasPair(doc, <<>>, "name")
    /\ HasPair(doc, <<>>, "columns")
    /\ \A k \in DOMAIN ElementSeq(doc, "columns") :
          LET col == ElementSeq(doc, "columns")[k]
              type == Append(col, Step("type", 0))
              fk == Append(col, Step("foreign_key", 0))
          IN  /\ HasPair(doc, col, "name") /\ HasPair(doc, col, "nullable")
              /\ \/ ChildValue(doc, col, "type") \in {<<t>> : t \in Known}
                 \/ \E kind \in DOMAIN Fields :
                       /\ ChildValue(doc, type, "kind") = <<kind>>
                       /\ \A f \in Fields[kind] : HasPair(doc, type, f)
              /\ \/ ~HasPair(doc, col, "foreign_key")
                 \/ Len(ChildValue(doc, col, "foreign_key")) = 3
                 \/ HasPair(doc, fk, "ref_table") /\ HasPair(doc, fk, "ref_columns")

TableDef(doc) ==
    LET cols == ElementSeq(doc, "columns")
        cons == ElementSeq(doc, "constraints")
    IN  Normalize([name |-> TopLevelName(doc),
                   cols |-> [k \in DOMAIN cols |-> ColumnDef(doc, cols[k])],
                   cons |-> [k \in DOMAIN cons |-> TableConstraint(doc, cons[k])]])
=============================================================================
