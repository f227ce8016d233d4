--------------------------- MODULE LanguageServer ---------------------------
(***************************************************************************)
(* The state of the language server (crates/vespertide-lsp): the open      *)
(* documents, the index of table names, the tables read from disk, the     *)
(* caches in front of them, and the notification handlers that publish     *)
(* diagnostics for one document after another.                             *)
(*                                                                         *)
(* The handlers are futures of one task (external: tower-lsp-server), so a *)
(* step of the model runs a handler from one await to the next, and the    *)
(* only awaits are those of publish_diagnostics.  Messages to the client   *)
(* keep their order, so shown is what the client ends up displaying.       *)
(*                                                                         *)
(* What is computed is represented by what it is computed from: the        *)
(* diagnostics of a document are its text, the tables they were validated  *)
(* against and the drift entries with the text they were anchored in.      *)
(***************************************************************************)
EXTENDS Naturals, Sequences, FiniteSets, SequencesExt

CONSTANTS
    Uri,         \* model files, each with the document the editor opens it as
    Text,        \* contents of such a file
    Table,       \* table names
    NameOf,      \* Text -> the top-level name, or None
    Valid,       \* texts that parse as a table definition
    Length,      \* Text -> length in bytes
    StemOf,      \* Uri -> the table name its file name suggests
    Nested,      \* files in a subdirectory of the models directory
    Workspaces,  \* what the models directory may hold at the start
    Projects,    \* kinds of workspace explored: "none", "standard", "custom"
    MaxHandlers, \* notifications handled at a time
    Slots,       \* capacity of a RingCache
    MaxInbox,    \* bound: notifications the server has not taken yet
    Restored,    \* bound: what other programs write to a file, None to delete it
    Now,         \* time stamp of what is written during the run; older ones are lower
    MaxEvents,   \* bound: what the editor and other programs do
    MaxWrites,   \* bound: changes of the disk, other than by saving
    MaxBusy,     \* bound: handlers suspended when a request is answered
    None

ASSUME ServerAssumption ==
    /\ NameOf \in [Text -> Table \cup {None}]
    /\ Valid \subseteq {t \in Text : NameOf[t] # None}
    /\ Length \in [Text -> Nat]
    /\ StemOf \in [Uri -> Table \cup {None}]
    /\ Nested \subseteq Uri
    /\ None \notin Text \cup Table \cup Uri \cup [text : Text, version : Nat]
    /\ None \notin Seq(Uri) \cup (Nat \X Nat)
    /\ None \notin [key : Nat \X Nat,
                    value : [models : [Table -> Text \cup {None}],
                             baseline : [Table -> Text \cup {None}]]]
    /\ Now \in Nat
    /\ IsFiniteSet(Uri)
    /\ Restored \subseteq Text \cup {None}
    /\ Workspaces \subseteq [Uri -> Text \cup {None}]
    /\ {MaxHandlers, Slots} \subseteq Nat \ {0}

VARIABLES
    project,    \* no vespertide.json, the default directories, or others
    disk,       \* Uri -> text of the file, or None
    mtime,      \* Uri -> its modification time
    applied,    \* the baseline: Table -> the text the migrations stand for
    applied_at, \* newest modification time in the migrations directory
    watch,      \* changed files the client has not reported yet
    editor,     \* Uri -> text and version of the buffer, or None
    inbox,      \* notifications on their way to the server
    handlers,   \* handlers suspended at an await
    store,      \* DocumentStore: Uri -> text and version, or None
    index,      \* WorkspaceIndex: by_name and by_uri
    tables,     \* WorkspaceTables: Table -> file and text, or None
    generation, \* counts the refreshes of tables
    parsed,     \* tree_cache: Uri -> text and mtime, or None
    digest,     \* DOCSTORE_FINGERPRINT_CACHE
    workspace,  \* workspace_tables_cache
    loaded,     \* DriftCache.state
    drifts,     \* DriftCache.drifts
    symbols,    \* WORKSPACE_SYMBOLS_CACHE, oldest entry first
    filtered,   \* FILTERED_SYMBOLS_CACHE, for one query
    shown,      \* Uri -> diagnostics the client displays
    counts,     \* events, and writes among them, so far
    claim,      \* ghost: Table -> document that declared the name last
    opens,      \* ghost: Uri -> how often the document was opened
    ghost       \* ghost: unseen and rewritten, see Write

diskVars == <<disk, mtime, applied, applied_at, watch>>
docVars == <<store, index, claim, opens>>
tableVars == <<tables, generation, parsed>>
cacheVars == <<digest, workspace, loaded, drifts, symbols, filtered>>
vars == <<project, diskVars, editor, inbox, handlers, docVars, tableVars,
          cacheVars, shown, counts, ghost>>

Files == {u \in Uri : disk[u] # None}
Open(docs) == {u \in Uri : docs[u] # None}
Newest(times) == IF times = {} THEN 0 ELSE Max(times)

----------------------------------------------------------------------------
(* DocumentStore and WorkspaceIndex.                                       *)

\* DocumentState holds the text with the version the client gave it.
Document(t, v) == [text |-> t, version |-> v]

\* DocumentStore::update_full changes a document only if it is open.
UpdateFull(docs, u, t, v) ==
    IF docs[u] = None THEN docs ELSE [docs EXCEPT ![u] = Document(t, v)]

ReleaseAnyway(idx, u) ==
    LET old == idx.by_uri[u]
    IN  [by_uri |-> [idx.by_uri EXCEPT ![u] = None],
         by_name |-> IF old # None THEN [idx.by_name EXCEPT ![old] = None]
                     ELSE idx.by_name]

\* Forgets the name a document declared, unless another document took the
\* name over in the meantime.
Release(idx, u) ==
    LET old == idx.by_uri[u]
    IN  [by_uri |-> [idx.by_uri EXCEPT ![u] = None],
         by_name |-> IF old # None /\ idx.by_name[old] = u
                     THEN [idx.by_name EXCEPT ![old] = None]
                     ELSE idx.by_name]

\* WorkspaceIndex::upsert.
Upsert(idx, u, name) ==
    LET rest == Release(idx, u)
    IN  IF name = None THEN rest
        ELSE [by_uri |-> [rest.by_uri EXCEPT ![u] = name],
              by_name |-> [rest.by_name EXCEPT ![name] = u]]

\* Backend::reindex: the document as the store has it now.
Reindex(idx, docs, u) ==
    IF docs[u] = None THEN idx ELSE Upsert(idx, u, NameOf[docs[u].text])

----------------------------------------------------------------------------
(* WorkspaceTables.                                                        *)

\* collect_models: the files that parse, by table name.  Of two files with
\* one name the one that read_dir lists last stays.
CollectModels ==
    LET declares(n) == {u \in Files : disk[u] \in Valid /\ NameOf[disk[u]] = n}
    IN  {t \in [Table -> {[uri |-> u, text |-> disk[u]] : u \in Files} \cup {None}] :
            \A n \in Table :
                IF declares(n) = {} THEN t[n] = None
                ELSE \E u \in declares(n) : t[n] = [uri |-> u, text |-> disk[u]]}

\* WorkspaceTables::refresh, from a handler whose document has a
\* vespertide.json above it; without one the handler skips the call.
Refresh ==
    IF project = "none" THEN UNCHANGED tableVars
    ELSE /\ tables' \in CollectModels
         /\ generation' = generation + 1
         /\ parsed' = [u \in Uri |-> None]

\* cached_parse of a file: its text, from the cache while the modification
\* time is the same.
CachedParse(u) ==
    IF parsed[u] # None /\ parsed[u].mtime = mtime[u] THEN parsed[u]
    ELSE [text |-> disk[u], mtime |-> mtime[u]]

----------------------------------------------------------------------------
(* docstore_fingerprint.  A hash stands for what was hashed.               *)

Digest(docs) == [u \in Uri |-> IF docs[u] = None THEN None ELSE docs[u].text]

\* What the cached fingerprint is compared by.
Shape(docs) ==
    [u \in Uri |-> IF docs[u] = None THEN None
                   ELSE <<docs[u].version, Length[docs[u].text]>>]

FingerprintHit(docs) == digest # None /\ digest.shape = Shape(docs)

DocstoreFingerprint(docs) ==
    IF FingerprintHit(docs) THEN digest.fingerprint ELSE Digest(docs)

StoreFingerprint(docs) ==
    digest' = IF FingerprintHit(docs) THEN digest
              ELSE [shape |-> Shape(docs), fingerprint |-> Digest(docs)]

----------------------------------------------------------------------------
(* collect_workspace_tables.                                               *)

\* build_workspace_tables: the open documents that parse, and the tables
\* found on disk in files that are not among them.
BuildWorkspaceTables(docs, disks) ==
    LET open == {[uri |-> u, text |-> docs[u].text] :
                    u \in {v \in Open(docs) : docs[v].text \in Valid}}
    IN  open \cup {disks[n] : n \in {m \in Table : /\ disks[m] # None
                        /\ \A e \in open : e.uri # disks[m].uri}}

\* The cached list when it is for this fingerprint and generation.
\* ghost: a cached value remembers the documents it was computed from.
ListHit(docs, gen) ==
    /\ workspace # None
    /\ workspace.fingerprint = DocstoreFingerprint(docs)
    /\ workspace.generation = gen

WorkspaceEntry(docs, disks, gen) ==
    IF ListHit(docs, gen) THEN workspace
    ELSE [fingerprint |-> DocstoreFingerprint(docs), generation |-> gen,
          value |-> BuildWorkspaceTables(docs, disks), docs |-> Digest(docs)]

----------------------------------------------------------------------------
(* drift::compute_with_cache.                                              *)

\* max_mtime_in_dir of <root>/models, whatever directory the configuration
\* names, without its subdirectories; and of <root>/migrations.
MtimeKey ==
    <<IF project = "custom" THEN 0
      ELSE Newest({mtime[u] : u \in Files \ Nested}), applied_at>>

\* load_models_from_dir: every file must parse.  Two may declare one table.
Loads == \A u \in Files : disk[u] \in Valid

Twins == \E u, v \in Files : u # v /\ NameOf[disk[u]] = NameOf[disk[v]]

\* The tables by name, as diff_schemas collects them: of two with one name the
\* one that read_dir lists last stays.
LoadedModels ==
    LET declared(n) == {disk[u] : u \in {v \in Files : NameOf[disk[v]] = n}}
    IN  {models \in [Table -> {disk[u] : u \in Files} \cup {None}] :
            \A n \in Table : IF declared(n) = {} THEN models[n] = None
                             ELSE models[n] \in declared(n)}

\* The two sides of the comparison as they can be read from the disk now.
LoadedStates == {[models |-> m, baseline |-> applied] : m \in LoadedModels}

\* loaded_state_with_cache: what is remembered, or else what is read; None
\* when a file cannot be loaded.
LoadedEntries ==
    IF loaded # None /\ loaded.key = MtimeKey THEN {loaded}
    ELSE IF Loads THEN {[key |-> MtimeKey, value |-> s] : s \in LoadedStates}
    ELSE {None}

\* The file of a table: the index, or a file named after the table.
Locate(idx, n) ==
    IF idx.by_name[n] # None THEN idx.by_name[n]
    ELSE IF \E u \in Files : StemOf[u] = n
         THEN CHOOSE u \in Files : StemOf[u] = n ELSE None

\* source_and_tree: the open document, or else the file.
Source(docs, u) == IF docs[u] # None THEN docs[u].text ELSE disk[u]

\* One entry for each table the migrations and the models differ in, in the
\* document it is anchored to.
Drifts(state, docs, idx) ==
    {[uri |-> Locate(idx, n), table |-> n, applied |-> state.baseline[n],
      model |-> state.models[n], source |-> Source(docs, Locate(idx, n))] :
        n \in {m \in Table : /\ state.baseline[m] # state.models[m]
                             /\ Locate(idx, m) # None
                             /\ Source(docs, Locate(idx, m)) # None}}

\* What compute_with_cache returns, with the two caches after the call, when
\* entry is what loaded_state_with_cache returns.
\* ghost: the cached entries remember the documents and the index of names.
DriftKeyWithoutText(docs) == <<MtimeKey, Open(docs)>>
DriftKey(docs) == <<MtimeKey, DocstoreFingerprint(docs)>>

DriftResult(docs, idx, entry) ==
    IF project = "none"
    THEN [value |-> {}, state |-> loaded, result |-> drifts]
    ELSE IF drifts # None /\ drifts.key = DriftKey(docs)
    THEN [value |-> drifts.value, state |-> loaded, result |-> drifts]
    ELSE IF entry = None
    THEN [value |-> {}, state |-> loaded, result |-> drifts]
    ELSE LET found == Drifts(entry.value, docs, idx)
         IN  [value |-> found, state |-> entry,
              result |-> [key |-> DriftKey(docs), value |-> found,
                          docs |-> Digest(docs), names |-> idx.by_name]]

----------------------------------------------------------------------------
(* Diagnostics.                                                            *)

NoDiagnostics == [text |-> None, against |-> {}, drift |-> {}]

DiagnosticsAnyway(u, docs, entry, found) ==
    [text |-> Source(docs, u), against |-> entry.value,
     drift |-> {d \in found : d.uri = u}]

\* Backend::compute_lsp_diagnostics.  Cross-file validation needs a text
\* that parses; a document that is not open has no diagnostics.
ComputeLspDiagnostics(u, docs, entry, found) ==
    IF docs[u] = None THEN NoDiagnostics
    ELSE [text |-> docs[u].text,
          against |-> IF docs[u].text \in Valid THEN entry.value ELSE {},
          drift |-> {d \in found : d.uri = u}]

\* Backend::publish, after the changes the handler has just made.
Publish(u) ==
    /\ \E state \in LoadedEntries :
        LET entry == WorkspaceEntry(store', tables', generation')
            drift == DriftResult(store', index', state)
        IN  /\ shown' = [shown EXCEPT ![u] =
                            ComputeLspDiagnostics(u, store', entry, drift.value)]
            /\ workspace' = entry
            /\ loaded' = drift.state
            /\ drifts' = drift.result
    /\ StoreFingerprint(store')
    /\ UNCHANGED <<symbols, filtered>>

----------------------------------------------------------------------------
(* Handlers.  todo is what the handler publishes when it goes on: the list *)
(* of the other open documents, taken when it gets there, or its rest.     *)

Suspend(u, todo) == handlers' = Append(handlers, [uri |-> u, todo |-> todo])

RelatedNone(u) == {}
Related(u) == Open(store) \ {u}

\* DidOpen, DidChange, DidSave and DidClose: the head of the inbox is
\* handled up to the first await.
Receive(kind) ==
    /\ inbox # <<>> /\ Head(inbox).kind = kind
    /\ Len(handlers) < MaxHandlers
    /\ inbox' = Tail(inbox)
    /\ UNCHANGED <<project, diskVars, editor, counts, ghost>>

\* ghost: u declares its name last.
Claim(u, docs) ==
    claim' = IF docs[u] = None \/ NameOf[docs[u].text] = None THEN claim
             ELSE [claim EXCEPT ![NameOf[docs[u].text]] = u]

DidOpen ==
    LET m == Head(inbox)
    IN  /\ Receive("open")
        /\ store' = [store EXCEPT ![m.uri] = Document(m.text, m.version)]
        /\ index' = Reindex(index, store', m.uri)
        /\ Claim(m.uri, store')
        /\ opens' = [opens EXCEPT ![m.uri] = @ + 1]
        /\ Refresh
        /\ Publish(m.uri)
        /\ Suspend(m.uri, None)

DidChange ==
    LET m == Head(inbox)
    IN  /\ Receive("change")
        /\ store' = UpdateFull(store, m.uri, m.text, m.version)
        /\ index' = Reindex(index, store', m.uri)
        /\ Claim(m.uri, store')
        /\ UNCHANGED opens
        /\ Refresh
        /\ Publish(m.uri)
        /\ Suspend(m.uri, None)

DidSave ==
    LET m == Head(inbox)
    IN  /\ Receive("save")
        /\ UNCHANGED docVars
        /\ Refresh
        /\ Publish(m.uri)
        /\ Suspend(m.uri, None)

\* The document leaves the store and the index, and its diagnostics are
\* cleared.
DidClose ==
    LET m == Head(inbox)
    IN  /\ Receive("close")
        /\ store' = [store EXCEPT ![m.uri] = None]
        /\ index' = Release(index, m.uri)
        /\ UNCHANGED <<claim, opens>>
        /\ Refresh
        /\ shown' = [shown EXCEPT ![m.uri] = NoDiagnostics]
        /\ Suspend(m.uri, None)
        /\ UNCHANGED cacheVars

\* publish_related and the loop of did_change_watched_files: the next
\* document of the list, which the handler has taken at its first step.
Resume ==
    \E i \in DOMAIN handlers :
        LET h == handlers[i]
            list == IF h.todo = None THEN SetToSeq(Related(h.uri))
                    ELSE h.todo
        IN  /\ UNCHANGED <<project, diskVars, editor, inbox, docVars, tableVars,
                           counts, ghost>>
            /\ \/ /\ list # <<>>
                  /\ handlers' = [handlers EXCEPT ![i].todo = Tail(list)]
                  /\ Publish(Head(list))
               \/ /\ list = <<>>
                  /\ handlers' = RemoveAt(handlers, i)
                  /\ UNCHANGED <<cacheVars, shown>>

\* did_change_watched_files.  Without a root it returns; it looks for
\* changes in <root>/models and <root>/migrations only, which is what the
\* registered glob matches too.
DidChangeWatchedFiles ==
    /\ Receive("watched")
    /\ UNCHANGED docVars
    /\ IF project = "none"
       THEN UNCHANGED <<tableVars, cacheVars, handlers, shown>>
       ELSE /\ Refresh
            /\ LET list == SetToSeq(Open(store))
               IN  IF list = <<>>
                   THEN UNCHANGED <<cacheVars, handlers, shown>>
                   ELSE /\ Publish(Head(list))
                        /\ Suspend(None, Tail(list))

----------------------------------------------------------------------------
(* workspace/symbol.                                                       *)

\* RingCache::get_or_compute: the entry of the key, or a new one, before
\* which the oldest entry goes when the ring is full.
GetOrCompute(ring, key, value) ==
    IF \E i \in DOMAIN ring : ring[i].key = key THEN ring
    ELSE Append(IF Len(ring) >= Slots THEN Tail(ring) ELSE ring,
                [key |-> key, value |-> value])

ValueOf(ring, key) ==
    ring[CHOOSE i \in DOMAIN ring : ring[i].key = key].value

\* build_workspace_symbol_list: the symbols of the open documents, and of
\* the disk tables whose file is not open.
DiskTables == {n \in Table : tables[n] # None /\ disk[tables[n].uri] # None}
DiskOnly == {n \in Table : /\ tables[n] # None /\ store[tables[n].uri] = None
                           /\ disk[tables[n].uri] # None}
SymbolList ==
    {[uri |-> u, text |-> store[u].text] : u \in Open(store)}
    \cup {[uri |-> tables[n].uri, text |-> CachedParse(tables[n].uri).text] :
             n \in DiskOnly}

\* compute_shared with the query that matches everything: the filtered
\* result, from the flat list, each cached by the fingerprint alone.
Symbol ==
    LET key == DocstoreFingerprint(store)
        filteredHit == \E i \in DOMAIN filtered : filtered[i].key = key
        flatHit == \E i \in DOMAIN symbols : symbols[i].key = key
    IN  /\ Len(handlers) <= MaxBusy
        /\ symbols' = IF filteredHit THEN symbols
                      ELSE GetOrCompute(symbols, key, SymbolList)
        /\ filtered' = IF filteredHit THEN filtered
                       ELSE GetOrCompute(filtered, key, ValueOf(symbols', key))
        /\ parsed' = IF filteredHit \/ flatHit THEN parsed
                     ELSE [u \in Uri |->
                             IF \E n \in DiskOnly : tables[n].uri = u
                             THEN CachedParse(u) ELSE parsed[u]]
        /\ UNCHANGED <<project, diskVars, editor, inbox, handlers, docVars,
                       tables, generation, workspace, loaded, drifts, shown,
                       counts, ghost>>
        /\ StoreFingerprint(store)

----------------------------------------------------------------------------
(* The editor and the disk (external).                                     *)

serverVars == <<project, handlers, docVars, tableVars, cacheVars, shown>>

Edit(messages) ==
    /\ counts.events < MaxEvents /\ Len(inbox) < MaxInbox
    /\ counts' = [counts EXCEPT !.events = @ + 1]
    /\ inbox' = inbox \o messages
    /\ UNCHANGED serverVars

\* A buffer starts at version 1 with the text of its file.
EditorOpen(u) ==
    /\ editor[u] = None /\ disk[u] # None
    /\ editor' = [editor EXCEPT ![u] = Document(disk[u], 1)]
    /\ Edit(<<[kind |-> "open", uri |-> u, text |-> disk[u], version |-> 1]>>)
    /\ UNCHANGED <<diskVars, ghost>>

EditorChange(u, t) ==
    /\ editor[u] # None /\ editor[u].text # t
    /\ editor' = [editor EXCEPT ![u] = Document(t, @.version + 1)]
    /\ Edit(<<[kind |-> "change", uri |-> u, text |-> t,
               version |-> editor[u].version + 1]>>)
    /\ UNCHANGED <<diskVars, ghost>>

EditorClose(u) ==
    /\ editor[u] # None
    /\ editor' = [editor EXCEPT ![u] = None]
    /\ Edit(<<[kind |-> "close", uri |-> u]>>)
    /\ UNCHANGED <<diskVars, ghost>>

\* A change of a file in the models directory.  The client's watcher sees
\* it when the directory is called models.  unseen: the newest time stamp
\* the drift cache compares did not advance.
Write(u, content, time) ==
    /\ disk' = [disk EXCEPT ![u] = content]
    /\ mtime' = [mtime EXCEPT ![u] = time]
    /\ watch' = (watch \/ project # "custom")
    /\ ghost' = [ghost EXCEPT
                   !.rewritten = TRUE,
                   !.unseen = @ \/ project = "custom" \/ u \in Nested
                                \/ content = None \/ time <= MtimeKey[1]]
    /\ UNCHANGED <<applied, applied_at>>

EditorSave(u) ==
    /\ editor[u] # None /\ disk[u] # editor[u].text
    /\ Edit(<<[kind |-> "save", uri |-> u]>>)
    /\ Write(u, editor[u].text, Now)
    /\ UNCHANGED editor

Outside ==
    /\ counts.events < MaxEvents /\ counts.writes < MaxWrites
    /\ counts' = [events |-> counts.events + 1, writes |-> counts.writes + 1]
    /\ UNCHANGED <<serverVars, editor, inbox>>

\* Another program writes, restores or deletes a model file.
DiskWrite(u, content, time) ==
    /\ disk[u] # content
    /\ (content = None => time = 0)
    /\ Outside
    /\ Write(u, content, time)

\* vespertide revision writes a migration that brings the baseline up to the
\* models, which it loads with validate_schema: a name may not occur twice.
\* Or a checkout takes the migrations away.
MigrationsChange(baseline, time) ==
    /\ applied # baseline
    /\ Outside
    /\ applied' = baseline /\ applied_at' = time
    /\ watch' = TRUE
    /\ ghost' = [ghost EXCEPT !.unseen = @ \/ time <= applied_at]
    /\ UNCHANGED <<disk, mtime>>

\* The client reports the changes its watcher has collected.
ClientReports ==
    /\ watch /\ Len(inbox) < MaxInbox
    /\ watch' = FALSE
    /\ inbox' = Append(inbox, [kind |-> "watched"])
    /\ UNCHANGED <<serverVars, disk, mtime, applied, applied_at, editor, counts,
                   ghost>>

Environment ==
    \/ \E u \in Uri : EditorOpen(u) \/ EditorSave(u) \/ EditorClose(u)
    \/ \E u \in Uri, t \in Text : EditorChange(u, t)
    \/ \E u \in Uri, c \in Restored, time \in 0..Now : DiskWrite(u, c, time)
    \/ Loads /\ ~Twins /\ \E models \in LoadedModels : MigrationsChange(models, Now)
    \/ MigrationsChange([n \in Table |-> None], 0)

Handle == DidOpen \/ DidChange \/ DidSave \/ DidClose \/ DidChangeWatchedFiles

Next == Handle \/ Resume \/ Symbol \/ Environment \/ ClientReports

----------------------------------------------------------------------------
(* The server after initialize, which has read the models directory.       *)

Init ==
    /\ project \in Projects
    /\ disk \in Workspaces
    /\ mtime = [u \in Uri |-> 0]
    \* Only in a project with the standard directories are they looked at.
    /\ applied \in {[n \in Table |-> None]} \cup
                   (IF project = "standard" THEN LoadedModels ELSE {})
    /\ applied_at = 0
    /\ watch = FALSE
    /\ editor = [u \in Uri |-> None]
    /\ inbox = <<>> /\ handlers = <<>>
    /\ store = [u \in Uri |-> None]
    /\ index = [by_name |-> [n \in Table |-> None],
                by_uri |-> [u \in Uri |-> None]]
    /\ IF project = "none" THEN tables = [n \in Table |-> None]
       ELSE tables \in CollectModels
    /\ generation = 0
    /\ parsed = [u \in Uri |-> None]
    /\ digest = None /\ workspace = None /\ loaded = None /\ drifts = None
    /\ symbols = <<>> /\ filtered = <<>>
    /\ shown = [u \in Uri |-> NoDiagnostics]
    /\ counts = [events |-> 0, writes |-> 0]
    /\ claim = [n \in Table |-> None]
    /\ opens = [u \in Uri |-> 0]
    /\ ghost = [unseen |-> FALSE, rewritten |-> FALSE]

Spec == Init /\ [][Next]_vars

----------------------------------------------------------------------------
(* Properties.                                                             *)

\* Nothing is on its way to the server and no handler is suspended.
Settled == inbox = <<>> /\ handlers = <<>> /\ ~watch

\* docstore_fingerprint is remembered by the versions and lengths of the
\* documents, and a document that is opened again starts its versions afresh.
\* Then the fingerprint can be that of other documents, and a result that was
\* filed under it is found later when the fingerprint is right again.  The
\* drift entries also depend on which document declared a name last, which
\* no key says: closing and opening one of two that declare it changes that.
Reopened == \E u \in Uri : opens[u] > 1

ListStale ==
    ListHit(store, generation) /\ workspace.docs # Digest(store) /\ Reopened

DriftStale ==
    /\ drifts # None /\ drifts.key = DriftKey(store) /\ Reopened
    /\ drifts.docs # Digest(store) \/ drifts.names # index.by_name

\* Whatever way the handlers of several notifications interleave at their
\* awaits, in the end every open document shows the diagnostics of the text
\* the editor has, validated against the tables as they are now: the other
\* open documents, and what is on disk for files that are not open.
OpenIsCurrent ==
    Settled => \A u \in Open(store) :
        /\ store[u] = editor[u]
        /\ shown[u].text = store[u].text
        /\ (store[u].text \in Valid /\ ~ListStale) =>
              shown[u].against = BuildWorkspaceTables(store, tables)
        /\ project = "standard" => tables \in CollectModels

\* In the end the drift entries that the open documents show are those of one
\* reading of the models and the migrations on disk, anchored in the texts the
\* editor has.  Of two files with one table name the reading has either.  Two
\* things can keep an old result alive: a change on disk that does not
\* advance the time stamps the cache is keyed by, and an entry of other
\* documents under the fingerprint of these.
DriftSettles ==
    (Settled /\ ~ghost.unseen /\ ~DriftStale) =>
        \E found \in IF project # "none" /\ Loads
                     THEN {Drifts(s, store, index) : s \in LoadedStates} ELSE {{}} :
            \A u \in Open(store) : shown[u].drift = {d \in found : d.uri = u}

\* A document that is not open shows nothing, even when a handler that
\* listed it as open publishes it after it was closed.
ClosedIsClear == \A u \in Uri : store[u] = None => shown[u] = NoDiagnostics

\* Diagnostics settle on what the editor shows, for open and closed documents,
\* although every handler publishes after an await and without a version.
DiagnosticsSettle == OpenIsCurrent /\ ClosedIsClear

\* A table name leads to the document that declared it last, for as long as
\* that document is open and declares it, and to none after that.
IndexFollowsClaim ==
    \A n \in Table :
        index.by_name[n] =
            IF claim[n] # None /\ store[claim[n]] # None
               /\ NameOf[store[claim[n]].text] = n
            THEN claim[n] ELSE None

\* A request for symbols that the caches answer gets those of the open
\* documents and of the files that are not open, unless the disk changed
\* since the server started or two files declare one table: the caches are
\* keyed by the open documents alone.
SymbolsCurrent ==
    \A i \in DOMAIN filtered :
        filtered[i].key = DocstoreFingerprint(store) =>
          \/ ghost.rewritten
          \/ Twins
          \/ filtered[i].value =
                {[uri |-> u, text |-> store[u].text] : u \in Open(store)}
                \cup {tables[n] : n \in {m \in Table :
                        tables[m] # None /\ store[tables[m].uri] = None}}
=============================================================================
