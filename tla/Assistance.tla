----------------------------- MODULE Assistance -----------------------------
(***************************************************************************)
(* What the language server proposes to write: crates/vespertide-lsp/src/  *)
(* completion and code_actions.rs.  A proposal for the value of a pair is  *)
(* the text that the scalar then has; an action is the text of the whole   *)
(* document after its edits.                                               *)
(***************************************************************************)
EXTENDS Diagnostics

CONSTANT Shortens  \* pairs of words, the first the beginning of the second

----------------------------------------------------------------------------
(* completion/values.rs                                                    *)

\* tables_in_workspace
TablesInWorkspace(ws) == DOMAIN ws.by_name \cup DOMAIN ws.tables

\* Mutant: the columns of the file although the document is open.
ColumnsOnDisk(ws, name) ==
    IF name \in DOMAIN ws.tables
    THEN ColumnNames(TableDef(ws.tables[name].doc)) ELSE {}

\* columns_of: an open document that parses before the file.
ColumnsOf(ws, name) ==
    LET doc == ws.docs[ws.by_name[name]]
        open == IF name \notin DOMAIN ws.by_name THEN {}
                ELSE IF Parses(doc) THEN ColumnNames(TableDef(doc)) ELSE {}
    IN  IF open # {} THEN open
        ELSE IF name \notin DOMAIN ws.tables THEN {}
        ELSE ColumnNames(TableDef(ws.tables[name].doc))

\* analyze_sibling_type: the type or the kind, and the values of an enum.
SiblingType(doc, col) ==
    LET object == Append(col, Step("type", 0))
    IN  [kind |-> IF HasPair(doc, object, "kind") THEN ChildValue(doc, object, "kind")
                  ELSE ChildValue(doc, col, "type"),
         values |-> ToSet(ArrayOf(doc, object, "values"))]

\* Mutant: a value that the enum does not have.
EnumCandidatesAll(type) ==
    {<<"'", v[1], "'">> : v \in type.values \cup {<<"status">>}}

EnumCandidates(type) == {<<"'", v[1], "'">> : v \in type.values}

\* type_candidates, default_values: null is always among them.
DefaultValues(type) ==
    {<<"null">>} \cup
    CASE type.kind = <<"enum">> -> EnumCandidates(type)
      [] type.kind \in {<<"text">>, <<"varchar">>} -> {<<"''">>}
      [] type.kind \in {<<"integer">>, <<"numeric">>} -> {<<"0">>}
      [] OTHER -> {<<"0">>, <<"true">>, <<"''">>}

----------------------------------------------------------------------------
(* completion/context.rs                                                   *)

\* classify_path: the texts proposed for a scalar, by the keys around it.
ValueOffers(ws, u, i) ==
    LET doc == ws.docs[u]
        leaf == doc[i]
        key == KeyOf(leaf)
        column == IsUnder(leaf, "columns")
    IN  CASE key = "type" /\ column -> {<<t>> : t \in Known}
          [] key \in {"nullable", "primary_key", "unique"} /\ column ->
                {<<"true">>, <<"false">>}
          [] key = "kind" /\ column /\ IsUnder(leaf, "type") ->
                {<<kind>> : kind \in DOMAIN Fields}
          [] key = "ref_table" -> TablesInWorkspace(ws)
          [] key = "ref_columns" ->
                ColumnsOf(ws, ChildValue(doc, MappingOf(leaf), "ref_table"))
          [] key = "default" /\ column ->
                DefaultValues(SiblingType(doc, MappingOf(leaf)))
          [] OTHER -> {}

\* current_table_columns, collect_column_names
CurrentTableColumns(doc) ==
    {ChildValue(doc, <<Step("columns", k)>>, "name") :
        k \in Elements(doc, "columns")} \ {<<>>}

\* token_expects_operand, keyword_expects_operand
ExpectsOperand(word) ==
    \/ LexKind(word) = "operator"
    \/ word \in {"(", ",", "AND", "OR", "NOT", "IN", "BETWEEN"}

\* check_expr_context, classify_check_expr_position: what may follow the
\* first w words of an expression, and what may replace the last of them.
CheckOffers(doc, i, w) ==
    LET text == doc[i].text
        cols == {c[1] : c \in CurrentTableColumns(doc)}
    IN  IF ~IsUnder(doc[i], "constraints") \/ KeyOf(doc[i]) # "expr"
        THEN [follow |-> {}, replace |-> {}]
        ELSE IF w = 0 THEN [follow |-> cols \cup {"NOT"}, replace |-> {}]
        ELSE IF LexKind(text[w]) = "column" /\ text[w] \notin cols
        THEN [follow |-> {}, replace |-> {c \in cols : <<text[w], c>> \in Shortens}]
        ELSE IF ExpectsOperand(text[w])
        THEN [follow |-> cols \cup {"NOT"}, replace |-> {}]
        ELSE [follow |-> {"=", "AND"}, replace |-> {}]

----------------------------------------------------------------------------
(* code_actions.rs: edits of one document.                                 *)

SetText(doc, i, text) == [doc EXCEPT ![i].text = text]

\* insert_pair_edit: before the closing brace.
InsertPair(doc, mapping, leaves) ==
    LET end == Max(ScalarsOf(doc, mapping))
    IN  SubSeq(doc, 1, end) \o leaves \o SubSeq(doc, end + 1, Len(doc))

\* Mutant: the pair before goes.
RemoveNeighbour(doc, mapping, key) ==
    RemoveAt(doc, First(ScalarsOfPair(doc, mapping, key)) - 1)

\* remove_pair_edit
RemovePair(doc, mapping, key) ==
    LET kept == InOrder(doc, DOMAIN doc \ ScalarsOfPair(doc, mapping, key))
    IN  [k \in DOMAIN kept |-> doc[kept[k]]]

\* replace_type_action: a scalar becomes an object.
ReplaceType(doc, mapping, leaves) ==
    LET i == ChildScalar(doc, mapping, "type")[1]
    IN  SubSeq(doc, 1, i - 1) \o leaves \o SubSeq(doc, i + 1, Len(doc))

Pair(mapping, key, text) == Leaf(Append(mapping, Step(key, 0)), text)

\* enclosing_column_object: the smallest object below a `columns`.
EnclosingColumn(doc, i) ==
    LET mapping == MappingOf(doc[i])
    IN  IF \E d \in DOMAIN mapping : mapping[d].key = "columns"
        THEN <<mapping>> ELSE Absent

Action(field, mapping, doc) == [field |-> field, at |-> mapping, doc |-> doc]

\* toggle_bool_flag: removed when true, else set to true.
ToggleBoolFlag(doc, mapping, flag) ==
    LET at == ChildScalar(doc, mapping, flag)
    IN  IF at = Absent
        THEN InsertPair(doc, mapping, <<Pair(mapping, flag, <<"true">>)>>)
        ELSE IF doc[at[1]].text = <<"true">> THEN RemovePair(doc, mapping, flag)
        ELSE SetText(doc, at[1], <<"true">>)

\* toggle_nullable
ToggleNullable(doc, mapping) ==
    LET at == ChildScalar(doc, mapping, "nullable")
        flipped == [true |-> <<"false">>, false |-> <<"true">>]
    IN  IF at = Absent
        THEN {InsertPair(doc, mapping, <<Pair(mapping, "nullable", <<"false">>)>>)}
        ELSE {SetText(doc, at[1], flipped[word]) :
                word \in {w \in DOMAIN flipped : doc[at[1]].text = <<w>>}}

FlagToggles(doc, mapping) ==
    {Action(flag, mapping, ToggleBoolFlag(doc, mapping, flag)) :
        flag \in {"primary_key", "unique", "index"}}
    \cup {Action("nullable", mapping, new) : new \in ToggleNullable(doc, mapping)}

\* type_conversions
TypeConversions(doc, mapping) ==
    LET type == Append(mapping, Step("type", 0))
        simple == ChildValue(doc, mapping, "type")
    IN  CASE simple = <<"text">> ->
                {Action("type", mapping, ReplaceType(doc, mapping,
                    <<Pair(type, "kind", <<"varchar">>),
                      Pair(type, "length", <<"255">>)>>))}
          [] simple = <<"integer">> ->
                {Action("type", mapping, ReplaceType(doc, mapping,
                    <<Pair(type, "kind", <<"numeric">>),
                      Pair(type, "precision", <<"10">>),
                      Pair(type, "scale", <<"2">>)>>))}
          [] OTHER -> {}

\* The value in quotes in a default.
Extracted(default) == default[2]

\* enum_extraction: a default in quotes becomes the only value of an enum.
EnumExtraction(doc, mapping) ==
    LET type == Append(mapping, Step("type", 0))
        default == ChildValue(doc, mapping, "default")
        name == ChildValue(doc, mapping, "name")
    IN  IF Len(default) # 3 \/ ChildScalar(doc, mapping, "type") = Absent THEN {}
        ELSE {Action("type", mapping, ReplaceType(doc, mapping,
                <<Pair(type, "kind", <<"enum">>),
                  Pair(type, "name", <<name[1] \o "_kind">>),
                  Leaf(Append(type, Step("values", 1)), <<Extracted(default)>>)>>))}

\* fk_skeleton
FkSkeleton(doc, mapping) ==
    LET fk == Append(mapping, Step("foreign_key", 0))
    IN  IF HasPair(doc, mapping, "foreign_key") THEN {}
        ELSE {Action("foreign_key", mapping, InsertPair(doc, mapping,
                <<Pair(fk, "ref_table", <<>>),
                  Leaf(Append(fk, Step("ref_columns", 1)), <<"id">>),
                  Pair(fk, "on_delete", <<"cascade">>)>>))}

\* swap_reversed_between, literal_greater: whether word w is a BETWEEN with
\* bounds of one sort, the first the greater.
Reversed(text, w) ==
    /\ text[w] = "BETWEEN" /\ (w = 1 \/ text[w - 1] # "NOT")
    /\ w + 3 <= Len(text) /\ text[w + 2] = "AND"
    /\ {LexKind(text[w + 1]), LexKind(text[w + 3])} \subseteq {"number", "string"}
    /\ Lexeme[text[w + 1]].sort = Lexeme[text[w + 3]].sort
    /\ Lexeme[text[w + 1]].rank > Lexeme[text[w + 3]].rank

\* check_expr_actions
CheckExprActions(doc, i) ==
    LET text == doc[i].text
        Swapped(w) == [text EXCEPT ![w + 1] = text[w + 3], ![w + 3] = text[w + 1]]
    IN  IF ~IsCheckExpr(doc, doc[i]) THEN {}
        ELSE {Action("expr", MappingOf(doc[i]), SetText(doc, i, Swapped(w))) :
                w \in {v \in DOMAIN text : Reversed(text, v)}}

\* compute: only for JSON.
CodeActions(doc, i, format) ==
    LET column == EnclosingColumn(doc, i)
    IN  IF format # "json" THEN {}
        ELSE CheckExprActions(doc, i) \cup
             IF column = Absent THEN {}
             ELSE FlagToggles(doc, column[1]) \cup TypeConversions(doc, column[1])
                  \cup EnumExtraction(doc, column[1]) \cup FkSkeleton(doc, column[1])
=============================================================================
