---------------------------- MODULE Presentation ----------------------------
(***************************************************************************)
(* What the language server shows of a document without being asked to     *)
(* change it: crates/vespertide-lsp/src/file_features.rs, symbols.rs,      *)
(* inlay_hints.rs, hover and semantic_tokens.  Each of them reads the tree *)
(* of the document on its own and finds the table, the columns and the     *)
(* references in it by keys; none of them uses the definition serde makes. *)
(***************************************************************************)
EXTENDS Navigation

CONSTANT FormatOf  \* Uri -> "json", or "yaml" for a file in block style

----------------------------------------------------------------------------
(* Outline and workspace symbols.                                          *)

\* direct_column_objects of the table's own `columns`, as the places of the
\* names in them.
ColumnNameScalars(doc) ==
    LET cols == ElementSeq(doc, "columns")
        named == SelectSeq(cols, LAMBDA m : ChildScalar(doc, m, "name") # Absent)
    IN  [k \in DOMAIN named |-> ChildScalar(doc, named[k], "name")[1]]

\* compute_document_symbols: the table, then its columns.
Outline(doc) ==
    LET name == ChildScalar(doc, <<>>, "name")
    IN  IF name = Absent THEN <<>> ELSE name \o ColumnNameScalars(doc)

\* extract_raw_symbols
RawSymbols(doc) ==
    LET names == Outline(doc)
        Symbol(k) == IF k = 1 THEN TableSymbol(doc[names[1]].text)
                     ELSE ColumnSymbol(TopLevelName(doc), doc[names[k]].text)
    IN  {[at |-> names[k], symbol |-> Symbol(k)] : k \in DOMAIN names}

\* build_workspace_symbol_list: the open documents, and the files of tables
\* found on disk that are not open.
WorkspaceSymbols(ws) ==
    UNION {{[uri |-> u, symbol |-> r.symbol] : r \in RawSymbols(TextOf(ws, u))} :
              u \in Scanned(ws)}

----------------------------------------------------------------------------
(* documentHighlight: the strings equal to the one under the cursor.       *)

\* compute_document_highlight, collect_matching_strings.  Keys are strings
\* too: a key is known by the path that ends in it.
Highlights(doc, i) ==
    LET target == doc[i].text
        keys == UNION {{SubSeq(doc[j].path, 1, d) : d \in DOMAIN doc[j].path} :
                          j \in DOMAIN doc}
    IN  [values |-> {j \in DOMAIN doc : doc[j].text = target},
         keys |-> {p \in keys : <<Last(p).key>> = target}]

----------------------------------------------------------------------------
(* Inlay hints.                                                            *)

IsTrue(doc, mapping, key) == ChildValue(doc, mapping, key) = <<"true">>

\* foreign_key_target: only the object form, and its first column.
ForeignKeyTarget(doc, col) ==
    LET object == Append(col, Step("foreign_key", 0))
        cols == ArrayOf(doc, object, "ref_columns")
    IN  IF ~HasPair(doc, object, "ref_table") \/ cols = <<>> THEN Absent
        ELSE <<<<ChildValue(doc, object, "ref_table"), cols[1]>>>>

\* column_to_hint: the flags that are set.
TagsOf(doc, col) ==
    {flag \in {"primary_key", "unique", "index"} : IsTrue(doc, col, flag)}

ColumnHint(doc, col) ==
    [at |-> col, tags |-> TagsOf(doc, col), target |-> ForeignKeyTarget(doc, col)]

\* The columns that compute sees: the direct elements of the first `columns`
\* in the text.
HintedColumns(doc) ==
    LET pair == FirstPair(doc, "columns")
        inside == MappingsOf(doc, pair[1])
    IN  IF pair = Absent THEN {}
        ELSE {inside[k] : k \in {j \in DOMAIN inside :
                 Len(inside[j]) = Len(pair[1].mapping) + 1}}

ColumnHints(doc) ==
    {h \in {ColumnHint(doc, col) : col \in HintedColumns(doc)} :
        h.tags # {} \/ h.target # Absent}

\* column_type_label, build_column_type_map, emit_check_expr_type_hints: the
\* type of each column that a CHECK expression names.
TypeLabel(doc, col) ==
    LET object == Append(col, Step("type", 0))
    IN  IF HasPair(doc, object, "kind") THEN ChildValue(doc, object, "kind")
        ELSE ChildValue(doc, col, "type")

CheckHints(doc) ==
    LET typed == {col \in HintedColumns(doc) : TypeLabel(doc, col) # <<>>}
        exprs == {i \in DOMAIN doc : /\ KeyOf(doc[i]) = "expr"
                                     /\ Len(doc[i].path) = 2
                                     /\ doc[i].path[1].key = "constraints"}
    IN  {[scalar |-> i, word |-> w, type |-> TypeLabel(doc, col)] :
            <<i, w, col>> \in {<<j, v, c>> \in UNION {
                    {j} \X ColumnWords(doc[j].text) \X typed : j \in exprs} :
                ChildValue(doc, c, "name") = <<doc[j].text[v]>>}}

----------------------------------------------------------------------------
(* Hover.                                                                  *)

\* hover::foreign_key: the columns of a table by name, from an open document
\* before a file; an open one that does not parse has none to show.
TargetPreview(ws, name) ==
    IF name \in DOMAIN ws.by_name
    THEN LET doc == ws.docs[ws.by_name[name]]
         IN  [found |-> "open", cols |->
                 IF Parses(doc) THEN ColumnNames(TableDef(doc)) ELSE {}]
    ELSE IF name \in DOMAIN ws.tables
    THEN [found |-> "disk", cols |-> ColumnNames(TableDef(ws.tables[name].doc))]
    ELSE [found |-> "no", cols |-> {}]

\* hover::column: the smallest mapping below a `columns` that has a name and
\* a type.
HoveredColumn(doc, i) ==
    LET path == doc[i].path
        around == {d \in 1..Len(path) - 1 :
                     /\ \E e \in 1..d : path[e].key = "columns"
                     /\ HasPair(doc, SubSeq(path, 1, d), "name")
                     /\ HasPair(doc, SubSeq(path, 1, d), "type")}
        depth == CHOOSE d \in around : \A e \in around : e <= d
    IN  IF around = {} THEN Absent ELSE <<SubSeq(path, 1, depth)>>

\* compute_with_workspace_tables: what kind of hover, and what it is about.
Hover(ws, u, i) ==
    LET doc == ws.docs[u]
        leaf == doc[i]
        column == HoveredColumn(doc, i)
    IN  IF KeyOf(leaf) = "expr" /\ IsUnder(leaf, "constraints")
        THEN [kind |-> "check", about |-> leaf.text]
        ELSE IF IsUnder(leaf, "ref_table")
        THEN [kind |-> "target", about |-> TargetPreview(ws, leaf.text).cols]
        ELSE IF column # Absent
        THEN [kind |-> "column", about |-> ChildValue(doc, column[1], "name")]
        ELSE [kind |-> "none", about |-> <<>>]

----------------------------------------------------------------------------
(* Semantic tokens.                                                        *)

Token(i, w, length, type, mod) ==
    [scalar |-> i, word |-> w, length |-> length, type |-> type, mod |-> mod]

IsAbove(leaf, key) == \E d \in 1..Len(leaf.path) - 1 : leaf.path[d].key = key

\* Ctx::inside_complex_type_object
InComplexType(leaf) ==
    \E d \in 1..Len(leaf.path) - 1 :
        leaf.path[d].key = "type" /\ \E e \in 1..d - 1 : leaf.path[e].key = "columns"

\* classify_default_value: YAML has one kind of scalar only.
DefaultToken(text, format) ==
    IF format = "yaml" \/ Len(text) # 1 THEN "string"
    ELSE IF text[1] \in {"true", "false", "null"} THEN "keyword"
    ELSE IF LexKind(text[1]) = "number" THEN "number" ELSE "string"

\* classify_pair and recurse_into_value: the class and the modifier of a
\* scalar by the keys above it.
PairClass(leaf, format) ==
    LET key == KeyOf(leaf)
        fk == IsAbove(leaf, "foreign_key")
    IN  CASE key = "name" /\ IsTopLevelPair(leaf) -> <<"class", "declaration">>
          [] key = "name" /\ IsAbove(leaf, "columns") /\ ~InComplexType(leaf) ->
                <<"property", "declaration">>
          [] key = "name" /\ InComplexType(leaf) /\ IsAbove(leaf, "values") ->
                <<"enumMember", "">>
          [] key = "type" /\ IsAbove(leaf, "columns") -> <<"type", "">>
          [] key \in {"kind", "values"} /\ InComplexType(leaf) -> <<"enumMember", "">>
          [] key = "ref_table" /\ fk -> <<"class", "definition">>
          [] key = "ref_columns" /\ fk /\ Last(leaf.path).at # 0 ->
                <<"property", "definition">>
          [] key \in {"on_delete", "on_update"} /\ fk -> <<"enumMember", "">>
          [] key = "default" /\ IsAbove(leaf, "columns") ->
                <<DefaultToken(leaf.text, format), "">>
          [] OTHER -> Absent

\* The same in YAML, where an item of a list in block style is wrapped in a
\* node that recurse_value does not look into.
ScalarClass(leaf, format) ==
    IF \/ leaf.text \in {<<>>, EmptyArray}
       \/ format = "yaml" /\ Last(leaf.path).at # 0
    THEN Absent ELSE PairClass(leaf, format)

\* emit_check_expr_tokens, token_kind_to_idx: one token for each word.
WordClass == [column |-> "property", keyword |-> "keyword",
              operator |-> "keyword", number |-> "number", string |-> "string"]

CheckTokens(doc, i) ==
    LET text == doc[i].text
        coloured == SelectSeq([w \in DOMAIN text |-> w],
                              LAMBDA w : LexKind(text[w]) \in DOMAIN WordClass)
    IN  [k \in DOMAIN coloured |->
            Token(i, coloured[k], 1, WordClass[LexKind(text[coloured[k]])], "")]

\* classify
Classify(doc, format) ==
    FlattenSeq([i \in DOMAIN doc |->
        IF KeyOf(doc[i]) = "expr" /\ IsAbove(doc[i], "constraints")
        THEN CheckTokens(doc, i)
        ELSE LET class == ScalarClass(doc[i], format)
             IN  IF class = Absent THEN <<>>
                 ELSE <<Token(i, 1, Len(doc[i].text), class[1], class[2])>>])

\* position_at (external: lsp-textdocument) for a text in which every pair of
\* the table and every element of its arrays is on a line of its own.
LineOf(doc, i) ==
    Cardinality({SubSeq(doc[j].path, 1, 1) : j \in 1..i})
StartOfWord(doc, i, w) ==
    LET before == {j \in 1..i - 1 : doc[j].path[1] = doc[i].path[1]}
    IN  w + FoldSet(LAMBDA j, sum : sum + Len(doc[j].text) + 1, 0, before)

\* Mutant: the start is always relative to the token before.
DeltaWithin(previous, line, start) ==
    [line |-> line - previous.line, start |-> start - previous.start]

\* The delta to the token before: a new line starts from its first column.
Delta(previous, line, start) ==
    [line |-> line - previous.line,
     start |-> IF line = previous.line THEN start - previous.start ELSE start]

\* encode: sorted by position, each relative to the one before.
Encode(doc, tokens) ==
    LET placed == [k \in DOMAIN tokens |->
            [line |-> LineOf(doc, tokens[k].scalar),
             start |-> StartOfWord(doc, tokens[k].scalar, tokens[k].word),
             type |-> tokens[k].type]]
        Before(a, b) == IF a.line = b.line THEN a.start < b.start
                        ELSE a.line < b.line
        sorted == SortSeq(placed, Before)
        Previous(k) == IF k = 1 THEN [line |-> 0, start |-> 0] ELSE sorted[k - 1]
    IN  [k \in DOMAIN sorted |->
            [delta |-> Delta(Previous(k), sorted[k].line, sorted[k].start),
             type |-> sorted[k].type]]

\* What the client makes of it (external: the protocol).
Decode(data) ==
    LET at[k \in 0..Len(data)] ==
            IF k = 0 THEN [line |-> 0, start |-> 0]
            ELSE LET d == data[k].delta
                 IN  [line |-> at[k - 1].line + d.line,
                      start |-> IF d.line = 0 THEN at[k - 1].start + d.start
                                ELSE d.start]
    IN  {[line |-> at[k].line, start |-> at[k].start, type |-> data[k].type] :
            k \in DOMAIN data}
=============================================================================
