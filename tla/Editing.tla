------------------------------ MODULE Editing -------------------------------
(***************************************************************************)
(* A user at work in an editor: files are opened, changed, saved and       *)
(* closed; symbols are renamed, completions accepted and code actions      *)
(* applied.  After each of these the language server has read the          *)
(* notification (its interleavings are the subject of LanguageServer).     *)
(*                                                                         *)
(* The properties compare what the features say of one document with one   *)
(* another and with the table definitions: nothing in the code shares the  *)
(* reading of a document between them.                                     *)
(***************************************************************************)
EXTENDS Assistance, Presentation

CONSTANTS
    Disks,     \* what the models directory may hold at the start
    Drafts,    \* Uri -> texts the user may type
    NewNames,  \* names a symbol is renamed to
    MaxEvents, \* bound: opens, changes and closes before an edit
    MaxEdits   \* bound: renames, accepted completions and code actions

VARIABLES
    disk,     \* Uri -> document of the file, or <<>>
    docs,     \* DocumentStore: Uri -> document, or <<>>
    by_uri,   \* WorkspaceIndex
    by_name,
    tables,   \* WorkspaceTables: name -> file and its text
    events,   \* number of events and of edits so far
    last      \* the last edit, or what else was done

vars == <<disk, docs, by_uri, by_name, tables, events, last>>

ws == [docs |-> docs, disk |-> disk, by_name |-> by_name, tables |-> tables]

NoEdit == [kind |-> "event"]

----------------------------------------------------------------------------
(* The workspace of the server.                                            *)

\* WorkspaceTables::refresh: the files that parse; of two with one name the
\* one that is listed last.
CollectModels(files) ==
    LET good == {u \in Uri : files[u] # <<>> /\ Parses(files[u])}
        names == {TopLevelName(files[u]) : u \in good}
    IN  {t \in [names -> {[uri |-> u, doc |-> files[u]] : u \in good}] :
            \A n \in names : TopLevelName(t[n].doc) = n}

Without(index, name, u) ==
    LET kept == {n \in DOMAIN index : ~(n = name /\ index[n] = u)}
    IN  [n \in kept |-> index[n]]

\* WorkspaceIndex::upsert of one document after the other, and remove when
\* there is no text any more.
Reindexed(index, u, doc) ==
    LET old == index.by_uri[u]
        name == IF doc = <<>> THEN <<>> ELSE TopLevelName(doc)
        rest == Without(index.by_name, old, u)
    IN  [by_uri |-> [index.by_uri EXCEPT ![u] = name],
         by_name |-> IF name = <<>> THEN rest
                     ELSE [n \in DOMAIN rest \cup {name} |->
                              IF n = name THEN u ELSE rest[n]]]

\* did_open, did_change and did_close for the documents that a step changes,
\* in the order of their URIs, and the refresh that ends each of them.  A
\* directory that has not changed is listed in the same order.
Notify(texts, files) ==
    LET changed == SelectSeq([u \in Uri |-> u], LAMBDA u : texts[u] # docs[u])
        index == FoldSeq(LAMBDA u, acc : Reindexed(acc, u, texts[u]),
                         [by_uri |-> by_uri, by_name |-> by_name], changed)
    IN  /\ docs' = texts
        /\ disk' = files
        /\ by_uri' = index.by_uri
        /\ by_name' = index.by_name
        /\ IF files = disk THEN tables' = tables
           ELSE tables' \in CollectModels(files)

Event ==
    /\ events.user < MaxEvents /\ events.edits = 0
    /\ events' = [events EXCEPT !.user = @ + 1]
    /\ last' = NoEdit

Init ==
    /\ disk \in Disks
    /\ docs = [u \in Uri |-> <<>>]
    /\ by_uri = [u \in Uri |-> <<>>]
    /\ by_name = << >>
    /\ tables \in CollectModels(disk)
    /\ events = [user |-> 0, edits |-> 0]
    /\ last = NoEdit

DidOpen(u) ==
    /\ Event
    /\ docs[u] = <<>> /\ disk[u] # <<>>
    /\ Notify([docs EXCEPT ![u] = disk[u]], disk)

DidChange(u) ==
    /\ Event
    /\ docs[u] # <<>>
    /\ \E doc \in Drafts[u] \ {docs[u]} : Notify([docs EXCEPT ![u] = doc], disk)

\* A save is not counted: the next one needs a change.
DidSave(u) ==
    /\ events.edits = 0
    /\ last' = NoEdit
    /\ UNCHANGED events
    /\ docs[u] # <<>> /\ docs[u] # disk[u]
    /\ Notify(docs, [disk EXCEPT ![u] = docs[u]])

DidClose(u) ==
    /\ Event
    /\ docs[u] # <<>>
    /\ Notify([docs EXCEPT ![u] = <<>>], disk)

----------------------------------------------------------------------------
(* Edits that the server computes and the editor applies.                  *)

Edit(record) ==
    /\ events' = [events EXCEPT !.edits = @ + 1]
    /\ last' = record

\* rename: the editor opens the files with edits that are not open.
Rename ==
    /\ events.edits < MaxEdits
    /\ \E u \in Open(ws) : \E i \in DOMAIN docs[u] : \E w \in DOMAIN docs[u][i].text :
       \E name \in NewNames :
           LET changes == RenameChanges(ws, Site(u, i, w), name)
           IN  /\ changes # << >>
               /\ Edit([kind |-> "rename", site |-> Site(u, i, w), name |-> name])
               /\ Notify([v \in Uri |-> IF v \in DOMAIN changes THEN changes[v]
                                        ELSE docs[v]], disk)

\* The scalar with an accepted proposal: in [] it becomes the first element.
Accepted(leaf, text) ==
    IF leaf.text = EmptyArray
    THEN Leaf(Append(MappingOf(leaf), Step(KeyOf(leaf), 1)), text)
    ELSE Leaf(leaf.path, text)

\* completion, for a cursor in the value of a pair.
AcceptValue ==
    /\ events.edits < MaxEdits
    /\ \E u \in Open(ws) : \E i \in DOMAIN docs[u] :
       \E text \in ValueOffers(ws, u, i) \ {docs[u][i].text} :
           /\ Edit([kind |-> "value", site |-> Site(u, i, 1)])
           /\ Notify([docs EXCEPT ![u][i] = Accepted(@, text)], disk)

\* completion in a CHECK expression, for a cursor after word w.
AcceptWord ==
    /\ events.edits < MaxEdits
    /\ \E u \in Open(ws) : \E i \in DOMAIN docs[u] : \E w \in 0..Len(docs[u][i].text) :
           LET text == docs[u][i].text
               offers == CheckOffers(docs[u], i, w)
               new == {SubSeq(text, 1, w) \o <<o>> \o SubSeq(text, w + 1, Len(text)) :
                          o \in offers.follow}
                      \cup {[text EXCEPT ![w] = o] : o \in offers.replace}
           IN  \E t \in new :
                   /\ Edit([kind |-> "word", site |-> Site(u, i, w)])
                   /\ Notify([docs EXCEPT ![u][i].text = t], disk)

CodeAction ==
    /\ events.edits < MaxEdits
    /\ \E u \in Open(ws) : \E i \in DOMAIN docs[u] :
       \E a \in CodeActions(docs[u], i, FormatOf[u]) :
           /\ Edit([kind |-> "action", site |-> Site(u, i, 1), field |-> a.field,
                    at |-> a.at])
           /\ Notify([docs EXCEPT ![u] = a.doc], disk)

Next ==
    \/ \E u \in Uri : DidOpen(u)
    \/ \E u \in Uri : DidChange(u)
    \/ \E u \in Uri : DidSave(u)
    \/ \E u \in Uri : DidClose(u)
    \/ Rename
    \/ AcceptValue
    \/ AcceptWord
    \/ CodeAction

Spec == Init /\ [][Next]_vars

----------------------------------------------------------------------------
(* Names, references and renames.                                          *)

Places(doc) == UNION {{i} \X DOMAIN doc[i].text : i \in DOMAIN doc}

\* The search for occurrences and the resolver of the place under the cursor
\* are written twice: an occurrence of a symbol is exactly a place that
\* resolves to it (references/resolver.rs, references/search.rs).
SymbolsAgree ==
    \A u \in Open(ws) :
        LET doc == docs[u]
            At(p) == Resolve(doc, p[1], p[2])
        IN  \A symbol \in {At(p) : p \in Places(doc)} \ {Absent} :
                CollectInDocument(doc, symbol[1], TRUE)
                    = {p \in Places(doc) : At(p) = symbol}

IsFresh(name) ==
    \A u \in Uri : \A i \in DOMAIN TextOf(ws, u) :
        ~Contains(TextOf(ws, u)[i].text, name[1])

RenamedSymbol(site) ==
    Resolve(TextOf(ws, site.uri), site.scalar, site.word)[1]

\* A rename to a name that occurs nowhere is undone, in every file, by the
\* rename back from the same place: no file is edited twice, none is left
\* out in one direction only (rename.rs, handler_rename.rs).
RenameIsUndone ==
    last'.kind = "rename" /\ IsFresh(last'.name) =>
        LET back == RenameChanges(ws', last'.site, RenamedSymbol(last'.site).name)
        IN  \A u \in Uri : docs'[u] # docs[u] =>
                u \in DOMAIN back /\ back[u] = TextOf(ws, u)

\* Uses that the search does not know: the short form of a foreign key, and
\* the columns of a constraint.
UsedOtherwise(symbol) ==
    \E u \in Uri : \E i \in DOMAIN TextOf(ws, u) :
        LET leaf == TextOf(ws, u)[i]
        IN  \/ KeyOf(leaf) = "columns" /\ leaf.text = symbol.name
            \/ KeyOf(leaf) = "foreign_key" /\ Contains(leaf.text, symbol.name[1])

\* The first fault of each table.
FaultsIn(w) ==
    LET entries == WorkspaceTables(w)
        map == TableMap(entries)
    IN  {<<entries[k].uri, FirstFault(entries[k].table, map)[1].code>> :
            k \in {j \in DOMAIN entries :
                     FirstFault(entries[j].table, map) # <<>>}}

\* A rename to a new name gives no table a fault that it did not have, as
\* long as the symbol is only used where the search looks for it.
RenameKeepsFaults ==
    last'.kind = "rename" /\ IsFresh(last'.name)
            /\ ~UsedOtherwise(RenamedSymbol(last'.site))
        => FaultsIn(ws') \subseteq FaultsIn(ws)

EnumTypeNames(doc) ==
    {ChildValue(doc, <<Step("columns", k), Step("type", 0)>>, "name") :
        k \in Elements(doc, "columns")}

OwnColumnsFirst(doc) ==
    FirstPair(doc, "columns") = <<[mapping |-> <<>>, key |-> "columns"]>>

IsColumnName(leaf) ==
    Len(leaf.path) = 2 /\ leaf.path[1].key = "columns" /\ KeyOf(leaf) = "name"

\* Go to definition ends at the declaration of what the cursor is on, in an
\* open document also when it is not saved; it misses a column only when an
\* enum type has its name or a constraint lists columns before the table
\* does (definition/foreign_key.rs).
DefinitionAgrees ==
    \A u \in Open(ws) : \A i \in DOMAIN docs[u] :
        LET target == Definition(ws, u, i)
            symbol == Resolve(docs[u], i, 1)[1]
            doc == docs[target[1].uri]
            leaf == doc[target[1].scalar]
            found == target # Absent /\ target[1].scalar # 0
        IN  /\ found => leaf.text = symbol.name /\ TopLevelName(doc) = symbol.table
            /\ found /\ symbol.kind = "column"
                    /\ symbol.name \notin EnumTypeNames(doc) => IsColumnName(leaf)
            /\ target # Absent /\ target[1].uri \in Open(ws) /\ OwnColumnsFirst(doc)
                    /\ Parses(doc) /\ symbol.kind = "column"
                    /\ symbol.table \in DOMAIN by_name
                    /\ symbol.name \in ColumnNames(TableDef(doc)) => found

----------------------------------------------------------------------------
(* Diagnostics.                                                            *)

\* Names that more than one table has.
Ambiguous(entries) ==
    {entries[k].table.name : k \in
        Duplicated([j \in DOMAIN entries |-> entries[j].table.name])}

\* The open documents that are validated as tables, by their first fault.
Faulty(entries) ==
    LET map == TableMap(entries)
        Faults(e) == {[uri |-> e.uri, doc |-> e.doc, table |-> e.table, fault |-> f] :
                        f \in ToSet(FirstFault(e.table, map))}
    IN  UNION {Faults(entries[k]) : k \in
            {j \in DOMAIN entries : /\ entries[j].doc = docs[entries[j].uri]
                                    /\ CollectAll(entries[j].doc) = {}}}

\* The first fault of a table in an open document is shown: there, or, when
\* a fault is looked up by a name that several tables have, in another open
\* document of that name.  A reference without columns is lost when the
\* table it refers to, which it is reported under, is not open
\* (emit_workspace_location_violation; validate/foreign_keys.rs).
FaultsAreShown(entries, faulty) ==
    \A f \in faulty :
        LET shown == {u \in Open(ws) : /\ TopLevelName(docs[u]) = f.table.name
                                       /\ \/ u = f.uri
                                          \/ f.table.name \in Ambiguous(entries)}
        IN  f.fault.constraint # <<<<"ForeignKey (ref_columns)">>>> =>
                \E u \in shown : \E d \in ComputeWorkspace(entries, docs[u], u) :
                    d.code = f.fault.code /\ d.severity = "error"

\* A fault of a column is underlined in that column.  The locator takes the
\* first object of that name below the first `columns`: an enum type with
\* the name, or a constraint before the columns, misleads it (locator.rs).
AnchorsAreRight(faulty) ==
    \A f \in faulty :
        LET column == f.fault.column
            place == Locate(f.doc, f.fault)
        IN  /\ column # Absent /\ OwnColumnsFirst(f.doc)
            /\ column[1] \in ColumnNames(f.table) \ EnumTypeNames(f.doc)
            => /\ Len(place.mapping) > 0
               /\ place.mapping[1].key = "columns"
               /\ ChildValue(f.doc, SubSeq(place.mapping, 1, 1), "name") = column[1]

----------------------------------------------------------------------------
(* Completion.                                                             *)

\* The name is of an open document that does not parse, or only in the file
\* of one that is open under another name.
Stale(entries, name) ==
    /\ name \in TablesInWorkspace(ws)
    /\ name \notin {entries[k].table.name : k \in DOMAIN entries}

\* The columns that are proposed for a reference, those that the hover of
\* the table lists and those that the validation knows are the same, though
\* each merges the open documents and the files on its own
\* (completion/values.rs, hover/foreign_key.rs, diagnostics/validation).
PreviewsAgree(entries) ==
    LET map == TableMap(entries)
    IN  \A name \in (DOMAIN map \cap TablesInWorkspace(ws)) \ Ambiguous(entries) :
            (name \in DOMAIN by_name => Parses(docs[by_name[name]])) =>
                /\ ColumnsOf(ws, name) = map[name]
                /\ TargetPreview(ws, name).cols = map[name]

\* A value taken from the completion list brings no error at its place: the
\* list and the validation are computed from different readings of the
\* workspace (completion/context.rs, completion/values.rs).
AcceptedOffersValidate ==
    last'.kind = "value" =>
        LET u == last'.site.uri
            leaf == docs'[u][last'.site.scalar]
            place == Place(MappingOf(leaf), KeyOf(leaf))
            table == ChildValue(docs'[u], MappingOf(leaf), "ref_table")
            Shown(w) == ComputeWorkspace(WorkspaceTables(w), w.docs[u], u)
        IN  \/ /\ table # <<>>
               /\ \/ Stale(WorkspaceTables(ws), table)
                  \/ table \in Ambiguous(WorkspaceTables(ws'))
            \/ table \in DOMAIN by_name /\ ~Parses(docs[by_name[table]])
            \/ \A d \in Shown(ws') \ Shown(ws) :
                  d.place = place => d.severity # "error"

\* A word taken from the list in a CHECK expression adds no name that is not
\* a column of the table (check_expr_context, collect_column_names).
AcceptedWordsAreColumns ==
    last'.kind = "word" =>
        LET u == last'.site.uri
            i == last'.site.scalar
            Names(text) == {<<text[w]>> : w \in ColumnWords(text)}
        IN  Parses(docs[u]) =>
                Names(docs'[u][i].text)
                    \subseteq Names(docs[u][i].text) \cup ColumnNames(TableDef(docs[u]))

----------------------------------------------------------------------------
(* Code actions.                                                           *)

\* What an action is about, as a field of the column definition.
FieldOf == [primary_key |-> "pk", unique |-> "uq", index |-> "ix",
            nullable |-> "nullable", type |-> "type", foreign_key |-> "fk"]

IsColumnAction(u) ==
    /\ last'.kind = "action" /\ u = last'.site.uri
    /\ last'.field # "expr" /\ Len(last'.at) = 1
    /\ Parses(docs[u])

\* An action on a column changes, in the table that serde reads, exactly the
\* field it names: the edits are made in the text, pair by pair, and have to
\* leave a document that still parses, with every other column as it was and
\* no default that the new type rejects (code_actions.rs).
ActionsKeepTables ==
    \A u \in Uri : IsColumnAction(u) =>
        LET old == ColumnDef(docs[u], last'.at)
            new == ColumnDef(docs'[u], last'.at)
            t == TableDef(docs'[u])
        IN  /\ Parses(docs'[u])
            /\ {f \in DOMAIN old : old[f] # new[f]} = {FieldOf[last'.field]}
            /\ \A k \in Elements(docs[u], "columns") : <<Step("columns", k)>> # last'.at =>
                  ColumnDef(docs[u], <<Step("columns", k)>>)
                      = ColumnDef(docs'[u], <<Step("columns", k)>>)
            /\ TableDef(docs[u]).name = t.name
            /\ Len(ColumnFaults(t, new)) <= Len(ColumnFaults(t, old))

\* A toggle applied twice is no change of the table, whether the flag was
\* absent, true or false at first.
TogglesAreUndone ==
    \A u \in Uri : IsColumnAction(u) /\ last'.field \in {"primary_key", "unique", "index"} =>
        ColumnDef(ToggleBoolFlag(docs'[u], last'.at, last'.field), last'.at)
            = ColumnDef(docs[u], last'.at)

\* The swap of reversed bounds ends: each one leaves one BETWEEN less that
\* it is offered for (swap_reversed_between, literal_greater).
SwapsSettle ==
    last'.kind = "action" /\ last'.field = "expr" =>
        LET u == last'.site.uri
            i == last'.site.scalar
            Offered(text) == Cardinality({w \in DOMAIN text : Reversed(text, w)})
        IN  Offered(docs'[u][i].text) = Offered(docs[u][i].text) - 1

----------------------------------------------------------------------------
(* What is shown.                                                          *)

\* What the editor colours, after the tokens were sent.
Coloured(doc, format) == Decode(Encode(doc, Classify(doc, format)))

\* Names that one of the two sides does not know: those of constraints and
\* in their references, those of enum types, and the items of YAML lists.
NotColoured(leaf, format) ==
    \/ leaf.path[1].key = "constraints" /\ KeyOf(leaf) # "expr"
    \/ IsUnder(leaf, "type") /\ KeyOf(leaf) = "name"
    \/ Last(leaf.path).at # 0 /\ format = "yaml"

\* The names that the editor colours as a table or a column are those that
\* can be followed and renamed, at the place where they are in the text:
\* the tokens are sent relative to one another (semantic_tokens/encode.rs,
\* classify_json.rs, classify_yaml.rs, references/resolver.rs).
ColoursMatchSymbols ==
    \A u \in Open(ws) :
        LET doc == docs[u]
            seen == Coloured(doc, FormatOf[u])
            Colour(p) ==
                LET line == LineOf(doc, p[1])
                    start == StartOfWord(doc, p[1], p[2])
                IN  {t.type : t \in {s \in seen : s.line = line /\ s.start = start}}
            IsColour == [table |-> {"class"}, column |-> {"property"}]
        IN  \A p \in Places(doc) : ~NotColoured(doc[p[1]], FormatOf[u]) =>
                LET symbol == Resolve(doc, p[1], p[2])
                IN  Colour(p) \cap {"class", "property"} =
                        IF symbol = Absent THEN {} ELSE IsColour[symbol[1].kind]

\* The outline lists the table and then its columns, in their order, as they
\* are in the definition, wherever in the text the name is written.
OutlineMatchesTables ==
    \A u \in Open(ws) : Parses(docs[u]) =>
        LET names == Outline(docs[u])
            t == TableDef(docs[u])
        IN  [k \in DOMAIN names |-> docs[u][names[k]].text]
                = <<t.name>> \o [k \in DOMAIN t.cols |-> t.cols[k].name]

\* The workspace symbols are the tables and the columns of the definitions
\* that the validation merges: an open document replaces its file.
SymbolsCoverTables(entries) ==
    LET Usable == {u \in Uri : u \in Open(ws) => Parses(docs[u])}
        OfEntry(e) == {[uri |-> e.uri, symbol |-> s] : s \in
            {TableSymbol(e.table.name)}
            \cup {ColumnSymbol(e.table.name, c) : c \in ColumnNames(e.table)}}
    IN  {s \in WorkspaceSymbols(ws) : s.uri \in Usable}
            = UNION {OfEntry(entries[k]) : k \in
                {j \in DOMAIN entries : entries[j].uri \in Usable}}

FlagsOf(c) ==
    {flag \in {"primary_key", "unique", "index"} :
        \/ flag = "primary_key" /\ c.pk # "no"
        \/ flag = "unique" /\ c.uq # <<>>
        \/ flag = "index" /\ c.ix # <<>>}

\* The columns that should have a hint: those with a flag, or a reference.
WithHints(doc, defs) ==
    {k \in DOMAIN defs :
        \/ FlagsOf(defs[k]) # {}
        \/ /\ defs[k].fk # Absent /\ defs[k].fk[1].refCols # <<>>
           /\ HasPair(doc, <<Step("columns", k), Step("foreign_key", 0)>>, "ref_table")}

\* The hints say of each column what its definition says: the flags that are
\* set and the first column it refers to; and at each column in a CHECK
\* expression the type of it (inlay_hints.rs).
HintsMatchTables ==
    \A u \in Open(ws) : Parses(docs[u]) /\ OwnColumnsFirst(docs[u]) =>
        LET doc == docs[u]
            At(k) == <<Step("columns", k)>>
            defs == [k \in Elements(doc, "columns") |-> ColumnDef(doc, At(k))]
        IN  /\ ColumnHints(doc) =
                  {[at |-> At(k), tags |-> FlagsOf(defs[k]),
                    target |-> ForeignKeyTarget(doc, At(k))] : k \in WithHints(doc, defs)}
            /\ \A h \in CheckHints(doc) : \E k \in DOMAIN defs :
                  /\ defs[k].name = <<doc[h.scalar].text[h.word]>>
                  /\ IF IsEnum(defs[k].type) THEN h.type = <<"enum">>
                     ELSE defs[k].type = SimpleType(h.type)

\* A hover in a column, its type or its reference is about that column: the
\* objects inside it have names of their own (hover/column.rs).
HoversAgree ==
    \A u \in Open(ws) : Parses(docs[u]) => \A i \in DOMAIN docs[u] :
        LET leaf == docs[u][i]
            column == SubSeq(leaf.path, 1, 1)
        IN  leaf.path[1].key = "columns" /\ ~IsUnder(leaf, "ref_table")
            => Hover(ws, u, i) =
                  [kind |-> "column", about |-> ChildValue(docs[u], column, "name")]

----------------------------------------------------------------------------
(* What the runs check.                                                    *)

\* The resolver, the search for occurrences and go to definition agree about
\* what each name in each open document stands for.
NamesAgree == SymbolsAgree /\ DefinitionAgrees

\* A rename to a new name can be undone from the same place, and brings no
\* fault into any table.
RenamesAreSafe == [][RenameIsUndone /\ RenameKeepsFaults]_vars

\* The first fault of each open table is shown, and in the right column.
FaultsArePlaced ==
    LET entries == WorkspaceTables(ws)
        faulty == Faulty(entries)
    IN  FaultsAreShown(entries, faulty) /\ AnchorsAreRight(faulty)

\* What completion offers is what the validation accepts.
OffersAreValid == [][AcceptedOffersValidate /\ AcceptedWordsAreColumns]_vars

\* A code action changes one field of the definition and nothing else, a
\* toggle is its own inverse, and a swap is not offered for its result.
ActionsAreSafe == [][ActionsKeepTables /\ TogglesAreUndone /\ SwapsSettle]_vars

\* Completion, hover, hints, outline and symbols show the columns and flags
\* of the definitions that the validation uses, and the colours are on the
\* names that can be followed and renamed.
ViewsAgree ==
    LET entries == WorkspaceTables(ws)
    IN  /\ PreviewsAgree(entries) /\ SymbolsCoverTables(entries)
        /\ HoversAgree /\ HintsMatchTables /\ OutlineMatchesTables
        /\ ColoursMatchSymbols
=============================================================================
