----------------------------- MODULE Navigation -----------------------------
(***************************************************************************)
(* Finding and renaming what a name stands for: crates/vespertide-lsp/src/ *)
(* references, rename.rs, definition and check_expr_locate.rs.  Two pieces *)
(* of code decide independently what a name means: the resolver for the    *)
(* place under the cursor, the search for every place in the workspace.    *)
(*                                                                         *)
(* A workspace ws has the open documents docs and the files disk (Uri to   *)
(* document, or <<>>), the index by_name of the open ones, and tables, the *)
(* files that were found to parse, by name.                                *)
(***************************************************************************)
EXTENDS Documents

CONSTANT Uri  \* model files, numbered in the order of their URIs

\* A place in the text; scalar 0 is the start of the file.
Site(u, i, w) == [uri |-> u, scalar |-> i, word |-> w]
StartOf(u) == Site(u, 0, 0)

\* ReferenceSymbol.
TableSymbol(name) == [kind |-> "table", table |-> name, name |-> name]
ColumnSymbol(table, name) ==
    [kind |-> "column", table |-> table, name |-> name]

Open(ws) == {u \in Uri : ws.docs[u] # <<>>}
TextOf(ws, u) == IF u \in Open(ws) THEN ws.docs[u] ELSE ws.disk[u]

----------------------------------------------------------------------------
(* references/resolver.rs                                                  *)

\* resolve_check_expr_column: the column name under the cursor.
ResolveCheckExpr(doc, i, w) ==
    IF w \in ColumnWords(doc[i].text) /\ HasPair(doc, <<>>, "name")
    THEN <<ColumnSymbol(TopLevelName(doc), <<doc[i].text[w]>>)>> ELSE Absent

\* resolve: the symbol of word w of scalar i, as an Option.
Resolve(doc, i, w) ==
    LET leaf == doc[i]
        key == KeyOf(leaf)
        fk == MappingOf(leaf)
    IN  CASE leaf.text \in {<<>>, EmptyArray} -> Absent
          [] key = "ref_table" -> <<TableSymbol(leaf.text)>>
          [] key = "name" /\ IsTopLevelPair(leaf) -> <<TableSymbol(leaf.text)>>
          [] key = "name" /\ HasPair(doc, <<>>, "name") ->
                <<ColumnSymbol(TopLevelName(doc), leaf.text)>>
          [] key = "ref_columns" /\ HasPair(doc, fk, "ref_table") ->
                <<ColumnSymbol(ChildValue(doc, fk, "ref_table"), leaf.text)>>
          [] IsCheckExpr(doc, leaf) -> ResolveCheckExpr(doc, i, w)
          [] OTHER -> Absent

----------------------------------------------------------------------------
(* references/search.rs                                                    *)

\* is_column_pair: any named object below the top level of the table.
IsColumnPair(doc, leaf, table) ==
    /\ ~IsTopLevelPair(leaf)
    /\ HasPair(doc, <<>>, "name") /\ TopLevelName(doc) = table

SiblingRefTableMatches(doc, leaf, table) ==
    /\ HasPair(doc, MappingOf(leaf), "ref_table")
    /\ ChildValue(doc, MappingOf(leaf), "ref_table") = table

CheckOwningTableMatches(doc, table) ==
    HasPair(doc, <<>>, "name") /\ TopLevelName(doc) = table

\* Mutant: the columns of every reference are the same symbol.
InspectAnyTarget(doc, i, w, symbol, declaration) ==
    /\ KeyOf(doc[i]) \in {"ref_columns", "ref_table"}
    /\ doc[i].text = symbol.name

\* inspect_pair: whether word w of scalar i is an occurrence.
InspectPair(doc, i, w, symbol, declaration) ==
    LET leaf == doc[i]
        key == KeyOf(leaf)
    IN  IF symbol.kind = "table"
        THEN /\ leaf.text = symbol.name
             /\ \/ key = "ref_table"
                \/ key = "name" /\ declaration /\ IsTopLevelPair(leaf)
        ELSE \/ /\ key = "ref_columns" /\ Last(leaf.path).at # 0
                /\ leaf.text = symbol.name
                /\ SiblingRefTableMatches(doc, leaf, symbol.table)
             \/ /\ key = "name" /\ declaration /\ leaf.text = symbol.name
                /\ IsColumnPair(doc, leaf, symbol.table)
             \/ /\ IsCheckExpr(doc, leaf)
                /\ CheckOwningTableMatches(doc, symbol.table)
                /\ w \in ColumnWords(leaf.text) /\ <<leaf.text[w]>> = symbol.name

\* collect_in_document: the occurrences in one text.
CollectInDocument(doc, symbol, declaration) ==
    {<<i, w>> \in UNION {{i} \X DOMAIN doc[i].text : i \in DOMAIN doc} :
        InspectPair(doc, i, w, symbol, declaration)}

ScannedOpenOnly(ws) == Open(ws)

\* The texts that find_all reads: the open documents, and the files of the
\* tables found on disk that are not open.
Scanned(ws) ==
    Open(ws) \cup {ws.tables[n].uri : n \in
        {m \in DOMAIN ws.tables : /\ ws.tables[m].uri \notin Open(ws)
                                  /\ ws.disk[ws.tables[m].uri] # <<>>}}

FindAll(ws, symbol, declaration) ==
    {Site(u, h[1], h[2]) : <<u, h>> \in UNION {
        {u} \X CollectInDocument(TextOf(ws, u), symbol, declaration) :
            u \in Scanned(ws)}}

----------------------------------------------------------------------------
(* rename.rs                                                               *)

\* is_valid_identifier: not empty, no white space, quotes or punctuation.
IsValidIdentifier(name) ==
    name # <<>> /\ \A w \in DOMAIN name : name[w] \notin {" ", "'", ",", "[]"}

\* compute: the places to replace, none when there is nothing to rename.
RenameSites(ws, site, name) ==
    LET symbol == Resolve(TextOf(ws, site.uri), site.scalar, site.word)
    IN  IF ~IsValidIdentifier(name) \/ symbol = Absent THEN {}
        ELSE IF symbol[1].name = name THEN {}
        ELSE FindAll(ws, symbol[1], TRUE)

\* The text after the edits of one file.
Replace(doc, hits, name) ==
    [i \in DOMAIN doc |->
        [doc[i] EXCEPT !.text = [w \in DOMAIN @ |->
            IF <<i, w>> \in hits THEN name[1] ELSE @[w]]]]

\* rename_impl, lowered_rename_changes: the new text of each file that has
\* edits.
RenameChanges(ws, site, name) ==
    LET sites == RenameSites(ws, site, name)
    IN  [u \in {s.uri : s \in sites} |->
            Replace(TextOf(ws, u),
                    {<<s.scalar, s.word>> : s \in {t \in sites : t.uri = u}},
                    name)]

----------------------------------------------------------------------------
(* definition/foreign_key.rs                                               *)

\* find_top_level_name_range, with the first name at any depth as fallback.
FindTopLevelName(doc) ==
    LET named == {i \in DOMAIN doc : KeyOf(doc[i]) = "name"}
    IN  IF ChildScalar(doc, <<>>, "name") # Absent
        THEN ChildScalar(doc, <<>>, "name")
        ELSE IF named = {} THEN Absent ELSE <<First(named)>>

\* find_column_name_range: the first object below the first `columns` whose
\* name is the column's.
FindColumnName(doc, column) ==
    LET pair == FirstPair(doc, "columns")
        found == SelectSeq(MappingsOf(doc, pair[1]),
                     LAMBDA m : ChildValue(doc, m, "name") = column)
    IN  IF pair = Absent THEN Absent
        ELSE IF found = <<>> THEN Absent
        ELSE ChildScalar(doc, found[1], "name")

\* resolve_target: an open document that declares the table, or the start
\* of the file that does.
ResolveTarget(ws, symbol) ==
    IF symbol.table \in DOMAIN ws.by_name
    THEN LET u == ws.by_name[symbol.table]
             at == IF symbol.kind = "table" THEN FindTopLevelName(ws.docs[u])
                   ELSE FindColumnName(ws.docs[u], symbol.name)
         IN  <<IF at = Absent THEN StartOf(u) ELSE Site(u, at[1], 1)>>
    ELSE IF symbol.table \in DOMAIN ws.tables
    THEN <<StartOf(ws.tables[symbol.table].uri)>>
    ELSE Absent

\* try_definition, for a cursor in scalar i of an open document.
Definition(ws, u, i) ==
    LET doc == ws.docs[u]
        leaf == doc[i]
    IN  IF IsUnder(leaf, "ref_table")
           /\ ResolveTarget(ws, TableSymbol(leaf.text)) # Absent
        THEN ResolveTarget(ws, TableSymbol(leaf.text))
        ELSE IF IsUnder(leaf, "ref_columns") /\ leaf.text # EmptyArray
                /\ HasPair(doc, MappingOf(leaf), "ref_table")
        THEN ResolveTarget(ws, ColumnSymbol(
                 ChildValue(doc, MappingOf(leaf), "ref_table"), leaf.text))
        ELSE Absent
=============================================================================
