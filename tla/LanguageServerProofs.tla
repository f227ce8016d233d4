------------------------ MODULE LanguageServerProofs ------------------------
(***************************************************************************)
(* Proofs about the language server, for every set of documents, tables    *)
(* and texts and any number of suspended handlers.                         *)
(***************************************************************************)
EXTENDS LanguageServer, FiniteSetTheorems, WellFoundedInduction, TLAPS

Documents == [text : Text, version : Nat]

\* What the client sends.
Message ==
    [kind : {"open", "change"}, uri : Uri, text : Text, version : Nat]
    \cup [kind : {"save", "close"}, uri : Uri]
    \cup [kind : {"watched"}]

TypeInv ==
    /\ disk \in [Uri -> Text \cup {None}]
    /\ editor \in [Uri -> Documents \cup {None}]
    /\ inbox \in Seq(Message)
    /\ handlers \in Seq([uri : Uri \cup {None}, todo : Seq(Uri) \cup {None}])
    /\ store \in [Uri -> Documents \cup {None}]
    /\ index \in [by_name : [Table -> Uri \cup {None}],
                  by_uri : [Uri -> Table \cup {None}]]
    /\ claim \in [Table -> Uri \cup {None}]
    /\ opens \in [Uri -> Nat]
    /\ shown = [u \in Uri |-> shown[u]]
    /\ generation \in Nat

\* The server's own account of the names its documents declare.
NamesKept ==
    \A u \in Uri :
        index.by_uri[u] = IF store[u] = None THEN None
                          ELSE NameOf[store[u].text]

\* inbox[i] opens, changes or closes u.
About(i, u) ==
    inbox[i].kind \in {"open", "change", "close"} /\ inbox[i].uri = u

\* Between i and j the inbox has nothing about u.
NoneBetween(i, j, u) == \A k \in DOMAIN inbox : i < k /\ k < j => ~About(k, u)

\* With nothing about u on its way the server has what the editor has.
Delivered ==
    \A u \in Uri :
        (\A i \in DOMAIN inbox : ~About(i, u)) => store[u] = editor[u]

\* What is last about u brings what the editor has.
LatestIsEditor ==
    \A u \in Uri, i \in DOMAIN inbox :
        About(i, u) /\ NoneBetween(i, Len(inbox) + 1, u) =>
            editor[u] = IF inbox[i].kind = "close" THEN None
                        ELSE Document(inbox[i].text, inbox[i].version)

\* A change comes for a document that is open by then, with a later version
\* and another text: than the store has, if nothing about u is before it,
ChangeFitsStore ==
    \A u \in Uri, i \in DOMAIN inbox :
        inbox[i].kind = "change" /\ About(i, u) /\ NoneBetween(0, i, u) =>
            /\ store[u] # None /\ store[u].version < inbox[i].version
            /\ store[u].text # inbox[i].text

\* or else than what is before it.
ChangesFollow ==
    \A u \in Uri, j \in DOMAIN inbox, i \in DOMAIN inbox :
        (/\ i < j /\ About(i, u) /\ About(j, u) /\ NoneBetween(i, j, u)
         /\ inbox[j].kind = "change") =>
            /\ inbox[i].kind # "close" /\ inbox[i].version < inbox[j].version
            /\ inbox[i].text # inbox[j].text

InboxFollowsEditor ==
    Delivered /\ LatestIsEditor /\ ChangeFitsStore /\ ChangesFollow

\* A handler is going to publish u.
Covered(u) ==
    \E i \in DOMAIN handlers :
        IF handlers[i].todo = None THEN handlers[i].uri # u
        ELSE \E k \in DOMAIN handlers[i].todo : handlers[i].todo[k] = u

TextsShown == \A u \in Uri : store[u] # None => shown[u].text = store[u].text

\* The list of tables for given texts of the open documents.
TablesFor(texts, disks) ==
    LET open == {[uri |-> u, text |-> texts[u]] :
                    u \in {v \in Uri : texts[v] # None /\ texts[v] \in Valid}}
    IN  open \cup {disks[n] : n \in {m \in Table : /\ disks[m] # None
                        /\ \A e \in open : e.uri # disks[m].uri}}

\* The cached list is that of the documents it remembers.
ListKept ==
    workspace # None =>
        /\ workspace.generation \in 0..generation
        /\ workspace.generation = generation =>
              workspace.value = TablesFor(workspace.docs, tables)

ListOfOthers ==
    ListHit(store, generation) /\ workspace.docs # Digest(store)

\* Every open document shows the tables as they are, or will, or the list
\* found for it is that of other documents.
AgainstShown ==
    \A u \in Open(store) :
        store[u].text \in Valid =>
           \/ Covered(u) \/ ListOfOthers
           \/ shown[u].against = BuildWorkspaceTables(store, tables)

\* A document the editor never opened is not in the store.
OpenedOnly(docs, times) == \A u \in Uri : times[u] = 0 => docs[u] = None

\* Documents as they were: unless one was opened again since, its version has
\* only grown.
EarlierThan(d, docs, times) ==
    \A u \in Uri :
        /\ times[u] = 0 => d[u] = None
        /\ (times[u] <= 1 /\ d[u] # None /\ docs[u] # None) =>
              /\ d[u].version <= docs[u].version
              /\ d[u].version = docs[u].version => d[u].text = docs[u].text

\* What the remembered digest was taken from.
DigestOf(d) ==
    /\ digest.shape = Shape(d) /\ digest.fingerprint = Digest(d)
    /\ EarlierThan(d, store, opens)

\* Unless a document was opened again the fingerprint is that of the documents.
FingerprintKept ==
    /\ OpenedOnly(store, opens)
    /\ digest # None => \E d \in [Uri -> Documents \cup {None}] : DigestOf(d)
    /\ workspace # None /\ ~Reopened => workspace.fingerprint = workspace.docs

\* In a project with the standard directories the client reports what the
\* tables do not have.
TablesFollowDisk ==
    project = "standard" =>
        \/ tables \in CollectModels \/ watch
        \/ \E i \in DOMAIN inbox : inbox[i].kind = "watched"

----------------------------------------------------------------------------
(* Types.                                                                  *)

LEMMA HeadMessage ==
    ASSUME TypeInv, inbox # <<>>
    PROVE  /\ Head(inbox) \in Message /\ Tail(inbox) \in Seq(Message)
           /\ Head(inbox).kind \in {"open", "change"} =>
                 /\ Head(inbox).uri \in Uri
                 /\ Head(inbox).text \in Text
                 /\ Head(inbox).version \in Nat
           /\ Head(inbox).kind \in {"save", "close"} => Head(inbox).uri \in Uri
<1>1. inbox \in Seq(Message)  BY DEF TypeInv
<1>2. Head(inbox) \in Message /\ Tail(inbox) \in Seq(Message)  BY <1>1
<1> QED  BY <1>2 DEF Message

LEMMA UpsertType ==
    ASSUME NEW idx \in [by_name : [Table -> Uri \cup {None}],
                        by_uri : [Uri -> Table \cup {None}]],
           NEW u \in Uri, NEW name \in Table \cup {None}
    PROVE  /\ Release(idx, u) \in [by_name : [Table -> Uri \cup {None}],
                                   by_uri : [Uri -> Table \cup {None}]]
           /\ Upsert(idx, u, name) \in [by_name : [Table -> Uri \cup {None}],
                                        by_uri : [Uri -> Table \cup {None}]]
  BY DEF Release, Upsert

LEMMA TypeInvInit == Init => TypeInv
<1> SUFFICES ASSUME Init PROVE TypeInv  OBVIOUS
<1> USE ServerAssumption DEF Init
<1>1. disk \in [Uri -> Text \cup {None}]  OBVIOUS
<1>2. inbox \in Seq(Message)
      /\ handlers \in Seq([uri : Uri \cup {None}, todo : Seq(Uri) \cup {None}])
  OBVIOUS
<1> QED  BY <1>1, <1>2 DEF TypeInv

\* SetToSeq lists every element of a finite set.
LEMMA SetToSeqLists ==
    ASSUME NEW S, IsFiniteSet(S)
    PROVE  /\ SetToSeq(S) \in Seq(S)
           /\ \A x \in S : \E k \in DOMAIN SetToSeq(S) : SetToSeq(S)[k] = x
<1> DEFINE n == Cardinality(S)
           q == SetToSeq(S)
<1>1. n \in Nat /\ ExistsBijection(1..n, S)  BY FS_CardinalityType
<1>2. PICK f \in [1..n -> S] : IsInjective(f)
  <2>1. PICK f \in Bijection(1..n, S) : TRUE  BY <1>1 DEF ExistsBijection
  <2> QED  BY <2>1 DEF Bijection, Injection
<1>3. q \in [1..n -> S] /\ IsInjective(q)  BY <1>2 DEF SetToSeq
<1>4. q \in Seq(S)  BY <1>1, <1>3
<1>5. ASSUME NEW x \in S, \A k \in 1..n : q[k] # x PROVE FALSE
  <2> DEFINE R == S \ {x}
  <2>1. IsFiniteSet(R) /\ Cardinality(R) = n - 1  BY FS_RemoveElement
  <2>2. IsFiniteSet(1..n) /\ Cardinality(1..n) = n  BY <1>1, FS_Interval
  <2>3. q \in [1..n -> R]  BY <1>3, <1>5
  <2>4. Cardinality(R) < Cardinality(1..n)  BY <1>1, <2>1, <2>2
  <2> HIDE DEF n, q, R
  <2>5. \E i, j \in 1..n : i # j /\ q[i] = q[j]
    BY <2>1, <2>2, <2>3, <2>4, FS_PigeonHole
  <2> QED  BY <1>3, <2>5 DEF IsInjective
<1> HIDE DEF q
<1>6. DOMAIN q = 1..n  BY <1>3
<1> QED  BY <1>4, <1>5, <1>6 DEF q

LEMMA ElementOf ==
    ASSUME NEW S, NEW s \in Seq(S), NEW i \in DOMAIN s
    PROVE  s[i] \in S
  OBVIOUS

LEMMA TailLists ==
    ASSUME NEW S, NEW s \in Seq(S), s # <<>>
    PROVE  /\ Head(s) \in S /\ Tail(s) \in Seq(S)
           /\ Len(Tail(s)) = Len(s) - 1
           /\ \A i \in DOMAIN Tail(s) :
                 i + 1 \in DOMAIN s /\ Tail(s)[i] = s[i + 1]
           /\ \A i \in DOMAIN s : i = 1 \/ i - 1 \in DOMAIN Tail(s)
  OBVIOUS

LEMMA AppendLists ==
    ASSUME NEW S, NEW s \in Seq(S), NEW e \in S
    PROVE  /\ Append(s, e) \in Seq(S)
           /\ DOMAIN Append(s, e) = 1..(Len(s) + 1)
           /\ \A i \in DOMAIN s : i \in DOMAIN Append(s, e) /\ Append(s, e)[i] = s[i]
           /\ Append(s, e)[Len(s) + 1] = e
  OBVIOUS

LEMMA RemoveAtLists ==
    ASSUME NEW S, NEW s \in Seq(S), NEW i \in DOMAIN s
    PROVE  /\ RemoveAt(s, i) \in Seq(S)
           /\ \A j \in DOMAIN s \ {i} :
                 \E k \in DOMAIN RemoveAt(s, i) : RemoveAt(s, i)[k] = s[j]
<1> DEFINE front == SubSeq(s, 1, i - 1)
           back == SubSeq(s, i + 1, Len(s))
<1>1. /\ front \in Seq(S) /\ Len(front) = i - 1
      /\ \A j \in 1..(i - 1) : front[j] = s[j]
  OBVIOUS
<1>2. /\ back \in Seq(S) /\ Len(back) = Len(s) - i
      /\ \A j \in 1..(Len(s) - i) : back[j] = s[i + j]
  OBVIOUS
<1> HIDE DEF front, back
<1>3. /\ front \o back \in Seq(S) /\ Len(front \o back) = Len(s) - 1
      /\ \A k \in 1..(Len(s) - 1) :
            (front \o back)[k] = IF k < i THEN front[k] ELSE back[k - (i - 1)]
  BY <1>1, <1>2
<1>4. ASSUME NEW j \in DOMAIN s \ {i}
      PROVE  \E k \in 1..(Len(s) - 1) : (front \o back)[k] = s[j]
  <2>0. Len(s) \in Nat /\ i \in 1..Len(s) /\ j \in 1..Len(s) /\ j # i  OBVIOUS
  <2>1. CASE j < i
    BY <2>1, <1>1, <1>3
  <2>2. CASE j > i
    <3>1. j - 1 \in 1..(Len(s) - 1) /\ ~(j - 1 < i)  BY <2>2
    <3>2. (j - 1) - (i - 1) = j - i  OBVIOUS
    <3>3. (front \o back)[j - 1] = back[j - i]  BY <3>1, <3>2, <1>3
    <3>4. j - i \in 1..(Len(s) - i) /\ i + (j - i) = j  BY <2>2
    <3>5. back[j - i] = s[j]  BY <3>4, <1>2
    <3> QED  BY <3>1, <3>3, <3>5
  <2>3. j < i \/ j > i  BY <2>0
  <2> QED  BY <2>1, <2>2, <2>3
<1>5. RemoveAt(s, i) = front \o back  BY DEF RemoveAt, front, back
<1>6. DOMAIN (front \o back) = 1..(Len(s) - 1)  BY <1>3
<1> QED  BY <1>3, <1>4, <1>5, <1>6

LEMMA LenProperty == \A S : \A s \in Seq(S) : Len(s) \in Nat
  OBVIOUS

----------------------------------------------------------------------------
(* What the actions do to the documents, the inbox and the handlers.       *)

\* What the environment does leaves the server as it is.
LEMMA EnvironmentStep ==
    ASSUME Environment \/ ClientReports
    PROVE  UNCHANGED serverVars
  BY DEF Environment, ClientReports, EditorOpen, EditorSave, EditorClose,
         EditorChange, DiskWrite, MigrationsChange, Edit, Outside

\* A message on its way: the inbox grows by one.
LEMMA Sends ==
    ASSUME TypeInv, NEW m \in Message, inbox' = Append(inbox, m)
    PROVE  /\ inbox' \in Seq(Message)
           /\ DOMAIN inbox' = 1..(Len(inbox) + 1)
           /\ \A i \in DOMAIN inbox : i \in DOMAIN inbox' /\ inbox'[i] = inbox[i]
           /\ inbox'[Len(inbox) + 1] = m
  BY AppendLists DEF TypeInv

LEMMA RefreshType ==
    ASSUME generation \in Nat, Refresh
    PROVE  generation' \in Nat
  BY DEF Refresh, tableVars

LEMMA PublishType ==
    ASSUME shown = [u \in Uri |-> shown[u]], NEW v, Publish(v)
    PROVE  shown' = [u \in Uri |-> shown'[u]]
  BY DEF Publish

LEMMA SuspendType ==
    ASSUME TypeInv, NEW u \in Uri \cup {None}, NEW todo \in Seq(Uri) \cup {None},
           Suspend(u, todo)
    PROVE  /\ handlers' \in Seq([uri : Uri \cup {None}, todo : Seq(Uri) \cup {None}])
           /\ DOMAIN handlers' = 1..(Len(handlers) + 1)
           /\ \A i \in DOMAIN handlers : handlers'[i] = handlers[i]
           /\ handlers'[Len(handlers) + 1] = [uri |-> u, todo |-> todo]
<1>1. [uri |-> u, todo |-> todo] \in [uri : Uri \cup {None}, todo : Seq(Uri) \cup {None}]
  OBVIOUS
<1> QED  BY <1>1, AppendLists DEF Suspend, TypeInv

\* The list a resumed handler goes through.
ListOf(h) == IF h.todo = None THEN SetToSeq(Related(h.uri)) ELSE h.todo

LEMMA ListOfType ==
    ASSUME TypeInv, NEW i \in DOMAIN handlers
    PROVE  /\ ListOf(handlers[i]) \in Seq(Uri)
           /\ \A u \in Open(store) :
                 (IF handlers[i].todo = None THEN handlers[i].uri # u
                  ELSE \E k \in DOMAIN handlers[i].todo : handlers[i].todo[k] = u)
                 => \E k \in DOMAIN ListOf(handlers[i]) : ListOf(handlers[i])[k] = u
<1> DEFINE H == [uri : Uri \cup {None}, todo : Seq(Uri) \cup {None}]
<1>0. handlers \in Seq(H)  BY DEF TypeInv
<1> HIDE DEF H
<1>1. handlers[i] \in H  BY <1>0, ElementOf
<1> USE DEF H
<1>2. CASE handlers[i].todo = None
  <2> DEFINE R == Related(handlers[i].uri)
  <2>1. R \subseteq Uri  BY DEF Related, Open
  <2>2. IsFiniteSet(R)  BY <2>1, ServerAssumption, FS_Subset
  <2>3. /\ SetToSeq(R) \in Seq(R)
        /\ \A x \in R : \E k \in DOMAIN SetToSeq(R) : SetToSeq(R)[k] = x
    BY <2>2, SetToSeqLists
  <2>4. SetToSeq(R) \in Seq(Uri)  BY <2>1, <2>3
  <2>5. \A u \in Open(store) : handlers[i].uri # u => u \in R  BY DEF Related
  <2>6. ListOf(handlers[i]) = SetToSeq(R)  BY <1>2 DEF ListOf
  <2> HIDE DEF R
  <2> QED  BY <1>2, <2>3, <2>4, <2>5, <2>6
<1>3. CASE handlers[i].todo # None
  BY <1>1, <1>3 DEF ListOf
<1> QED  BY <1>2, <1>3

\* A step of a suspended handler.
LEMMA ResumeStep ==
    ASSUME TypeInv, Resume
    PROVE  \E i \in DOMAIN handlers :
              \/ /\ ListOf(handlers[i]) # <<>>
                 /\ handlers' = [handlers EXCEPT ![i].todo = Tail(ListOf(handlers[i]))]
                 /\ Publish(Head(ListOf(handlers[i])))
              \/ /\ ListOf(handlers[i]) = <<>>
                 /\ handlers' = RemoveAt(handlers, i)
                 /\ UNCHANGED <<cacheVars, shown>>
  BY DEF Resume, ListOf

LEMMA ResumeType ==
    ASSUME TypeInv, Resume
    PROVE  /\ handlers' \in Seq([uri : Uri \cup {None}, todo : Seq(Uri) \cup {None}])
           /\ shown' = [u \in Uri |-> shown'[u]]
<1> DEFINE H == [uri : Uri \cup {None}, todo : Seq(Uri) \cup {None}]
<1>1. PICK i \in DOMAIN handlers :
         \/ /\ ListOf(handlers[i]) # <<>>
            /\ handlers' = [handlers EXCEPT ![i].todo = Tail(ListOf(handlers[i]))]
            /\ Publish(Head(ListOf(handlers[i])))
         \/ /\ handlers' = RemoveAt(handlers, i)
            /\ UNCHANGED <<cacheVars, shown>>
  BY ResumeStep
<1>2. handlers \in Seq(H)  BY DEF TypeInv
<1>3. ListOf(handlers[i]) \in Seq(Uri)  BY ListOfType
<1>4. CASE /\ ListOf(handlers[i]) # <<>>
           /\ handlers' = [handlers EXCEPT ![i].todo = Tail(ListOf(handlers[i]))]
           /\ Publish(Head(ListOf(handlers[i])))
  <2>1. Tail(ListOf(handlers[i])) \in Seq(Uri)  BY <1>3, <1>4
  <2>2. handlers[i] \in H
    <3> HIDE DEF H
    <3> QED  BY <1>2, ElementOf
  <2>3. [handlers[i] EXCEPT !.todo = Tail(ListOf(handlers[i]))] \in H
    BY <2>1, <2>2
  <2>4. handlers' \in Seq(H)
    <3> HIDE DEF H
    <3> QED  BY <1>2, <1>4, <2>3
  <2> QED  BY <1>4, <2>4, PublishType DEF TypeInv
<1>5. CASE /\ handlers' = RemoveAt(handlers, i)
           /\ UNCHANGED <<cacheVars, shown>>
  BY <1>2, <1>5, RemoveAtLists DEF TypeInv
<1> QED  BY <1>1, <1>4, <1>5

\* The index keeps its shape, whatever document is indexed.
LEMMA ReindexType ==
    ASSUME TypeInv, NEW docs \in [Uri -> Documents \cup {None}], NEW u \in Uri
    PROVE  /\ Reindex(index, docs, u) \in
                 [by_name : [Table -> Uri \cup {None}],
                  by_uri : [Uri -> Table \cup {None}]]
           /\ Release(index, u) \in
                 [by_name : [Table -> Uri \cup {None}],
                  by_uri : [Uri -> Table \cup {None}]]
<1>1. index \in [by_name : [Table -> Uri \cup {None}],
                 by_uri : [Uri -> Table \cup {None}]]
  BY DEF TypeInv
<1>2. docs[u] # None => NameOf[docs[u].text] \in Table \cup {None}
  BY ServerAssumption DEF Documents
<1> QED  BY <1>1, <1>2, UpsertType DEF Reindex

\* What a notification about a document brings is typed as the rest.
LEMMA StoreType ==
    ASSUME TypeInv, NEW u \in Uri, NEW t \in Text, NEW v \in Nat
    PROVE  /\ [store EXCEPT ![u] = Document(t, v)] \in [Uri -> Documents \cup {None}]
           /\ [store EXCEPT ![u] = None] \in [Uri -> Documents \cup {None}]
           /\ UpdateFull(store, u, t, v) \in [Uri -> Documents \cup {None}]
  BY DEF TypeInv, UpdateFull, Document, Documents

LEMMA ClaimType ==
    ASSUME TypeInv, NEW docs \in [Uri -> Documents \cup {None}], NEW u \in Uri,
           Claim(u, docs)
    PROVE  claim' \in [Table -> Uri \cup {None}]
<1>1. docs[u] # None => NameOf[docs[u].text] \in Table \cup {None}
  BY ServerAssumption DEF Documents
<1> QED  BY <1>1 DEF Claim, TypeInv

LEMMA WriteType ==
    ASSUME TypeInv, NEW u \in Uri, NEW c \in Text \cup {None}, NEW time,
           Write(u, c, time)
    PROVE  disk' \in [Uri -> Text \cup {None}]
  BY DEF TypeInv, Write

\* The parts of TypeInv that no step of the environment concerns.
ServerType ==
    /\ handlers \in Seq([uri : Uri \cup {None}, todo : Seq(Uri) \cup {None}])
    /\ store \in [Uri -> Documents \cup {None}]
    /\ index \in [by_name : [Table -> Uri \cup {None}],
                  by_uri : [Uri -> Table \cup {None}]]
    /\ claim \in [Table -> Uri \cup {None}]
    /\ opens \in [Uri -> Nat]
    /\ shown = [u \in Uri |-> shown[u]]
    /\ generation \in Nat

LEMMA ReceiveType ==
    ASSUME TypeInv, NEW kind, Receive(kind), ServerType'
    PROVE  TypeInv'
  BY HeadMessage DEF Receive, TypeInv, ServerType, diskVars

LEMMA EnvironmentType ==
    ASSUME TypeInv, UNCHANGED serverVars,
           disk' \in [Uri -> Text \cup {None}],
           editor' \in [Uri -> Documents \cup {None}],
           inbox' \in Seq(Message)
    PROVE  TypeInv'
  BY DEF TypeInv, serverVars, docVars, tableVars

LEMMA TypeInvStep == TypeInv /\ [Next]_vars => TypeInv'
<1> SUFFICES ASSUME TypeInv, [Next]_vars PROVE TypeInv'  OBVIOUS
<1>1. CASE DidOpen
  <2> DEFINE m == Head(inbox)
  <2>1. m.uri \in Uri /\ m.text \in Text /\ m.version \in Nat
    BY <1>1, HeadMessage DEF DidOpen, Receive
  <2>2. store' = [store EXCEPT ![m.uri] = Document(m.text, m.version)]
    BY <1>1 DEF DidOpen
  <2>3. store' \in [Uri -> Documents \cup {None}]  BY <2>1, <2>2, StoreType
  <2> HIDE DEF m
  <2>4. /\ index' = Reindex(index, store', m.uri) /\ Claim(m.uri, store')
        /\ opens' = [opens EXCEPT ![m.uri] = @ + 1]
        /\ Refresh /\ Publish(m.uri) /\ Suspend(m.uri, None) /\ Receive("open")
    BY <1>1 DEF DidOpen, m
  <2>5. opens' \in [Uri -> Nat]  BY <2>1, <2>4 DEF TypeInv
  <2>6. ServerType'
    BY <2>1, <2>3, <2>4, <2>5, ReindexType, ClaimType, RefreshType, PublishType,
       SuspendType DEF ServerType, TypeInv
  <2> QED  BY <2>4, <2>6, ReceiveType
<1>2. CASE DidChange
  <2> DEFINE m == Head(inbox)
  <2>1. m.uri \in Uri /\ m.text \in Text /\ m.version \in Nat
    BY <1>2, HeadMessage DEF DidChange, Receive
  <2>2. store' = UpdateFull(store, m.uri, m.text, m.version)
    BY <1>2 DEF DidChange
  <2>3. store' \in [Uri -> Documents \cup {None}]  BY <2>1, <2>2, StoreType
  <2> HIDE DEF m
  <2>4. /\ index' = Reindex(index, store', m.uri) /\ Claim(m.uri, store')
        /\ opens' = opens
        /\ Refresh /\ Publish(m.uri) /\ Suspend(m.uri, None) /\ Receive("change")
    BY <1>2 DEF DidChange, m
  <2>5. ServerType'
    BY <2>1, <2>3, <2>4, ReindexType, ClaimType, RefreshType, PublishType,
       SuspendType DEF ServerType, TypeInv
  <2> QED  BY <2>4, <2>5, ReceiveType
<1>3. CASE DidSave
  <2> DEFINE m == Head(inbox)
  <2>1. m.uri \in Uri  BY <1>3, HeadMessage DEF DidSave, Receive
  <2> HIDE DEF m
  <2>2. /\ Refresh /\ Publish(m.uri) /\ Suspend(m.uri, None) /\ Receive("save")
        /\ UNCHANGED docVars
    BY <1>3 DEF DidSave, m
  <2>3. ServerType'
    BY <2>1, <2>2, RefreshType, PublishType, SuspendType
    DEF ServerType, TypeInv, docVars
  <2> QED  BY <2>2, <2>3, ReceiveType
<1>4. CASE DidClose
  <2> DEFINE m == Head(inbox)
  <2>1. m.uri \in Uri  BY <1>4, HeadMessage DEF DidClose, Receive
  <2>2. store' = [store EXCEPT ![m.uri] = None]  BY <1>4 DEF DidClose
  <2>3. store' \in [Uri -> Documents \cup {None}]
    BY <2>1, <2>2 DEF TypeInv
  <2> HIDE DEF m
  <2>4. /\ index' = Release(index, m.uri) /\ UNCHANGED <<claim, opens>>
        /\ Refresh /\ Suspend(m.uri, None) /\ Receive("close")
        /\ shown' = [shown EXCEPT ![m.uri] = NoDiagnostics]
    BY <1>4 DEF DidClose, m
  <2>5. index' \in [by_name : [Table -> Uri \cup {None}],
                    by_uri : [Uri -> Table \cup {None}]]
    BY <2>1, <2>3, <2>4, ReindexType
  <2>6. ServerType'
    BY <2>1, <2>3, <2>4, <2>5, RefreshType, SuspendType DEF ServerType, TypeInv
  <2> QED  BY <2>4, <2>6, ReceiveType
<1>5. CASE DidChangeWatchedFiles
  <2> DEFINE list == SetToSeq(Open(store))
  <2>1. Receive("watched") /\ UNCHANGED docVars
    BY <1>5 DEF DidChangeWatchedFiles
  <2>2. \/ UNCHANGED <<tableVars, cacheVars, handlers, shown>>
        \/ Refresh /\ UNCHANGED <<cacheVars, handlers, shown>>
        \/ /\ Refresh /\ list # <<>>
           /\ Publish(Head(list)) /\ Suspend(None, Tail(list))
    BY <1>5 DEF DidChangeWatchedFiles
  <2>3. IsFiniteSet(Open(store)) /\ Open(store) \subseteq Uri
    BY ServerAssumption, FS_Subset DEF Open
  <2>4. list \in Seq(Uri)  BY <2>3, SetToSeqLists
  <2> HIDE DEF list
  <2>5. ServerType'
    BY <2>1, <2>2, <2>4, RefreshType, PublishType, SuspendType, TailLists
    DEF ServerType, TypeInv, docVars, tableVars
  <2> QED  BY <2>1, <2>5, ReceiveType
<1>6. CASE Resume
  <2>1. UNCHANGED <<disk, editor, inbox, docVars, tableVars>>
    BY <1>6 DEF Resume, diskVars
  <2> QED  BY <1>6, <2>1, ResumeType DEF TypeInv, docVars, tableVars
<1>7. CASE Symbol
  BY <1>7 DEF Symbol, TypeInv, docVars, diskVars
<1>8. ASSUME NEW u \in Uri, EditorOpen(u) PROVE TypeInv'
  <2> DEFINE m == [kind |-> "open", uri |-> u, text |-> disk[u], version |-> 1]
  <2>1. /\ disk[u] # None /\ editor' = [editor EXCEPT ![u] = Document(disk[u], 1)]
        /\ Edit(<<m>>) /\ UNCHANGED disk
    BY <1>8 DEF EditorOpen, diskVars
  <2>2. disk[u] \in Text /\ m \in Message  BY <2>1 DEF TypeInv, Message
  <2> HIDE DEF m
  <2>3. inbox' \in Seq(Message)  BY <2>1, <2>2 DEF Edit, TypeInv
  <2>4. editor' \in [Uri -> Documents \cup {None}]
    BY <2>1, <2>2 DEF TypeInv, Document, Documents
  <2> QED  BY <2>1, <2>3, <2>4, EnvironmentType DEF Edit, TypeInv
<1>9. ASSUME NEW u \in Uri, EditorSave(u) PROVE TypeInv'
  <2> DEFINE m == [kind |-> "save", uri |-> u]
  <2>1. /\ editor[u] # None /\ Write(u, editor[u].text, Now)
        /\ Edit(<<m>>) /\ UNCHANGED editor
    BY <1>9 DEF EditorSave
  <2>2. m \in Message  BY DEF Message
  <2> HIDE DEF m
  <2>3. inbox' \in Seq(Message)  BY <2>1, <2>2 DEF Edit, TypeInv
  <2>4. disk' \in [Uri -> Text \cup {None}]
    BY <2>1, WriteType DEF TypeInv, Documents
  <2> QED  BY <2>1, <2>3, <2>4, EnvironmentType DEF Edit, TypeInv
<1>10. ASSUME NEW u \in Uri, EditorClose(u) PROVE TypeInv'
  <2> DEFINE m == [kind |-> "close", uri |-> u]
  <2>1. /\ editor' = [editor EXCEPT ![u] = None] /\ Edit(<<m>>) /\ UNCHANGED disk
    BY <1>10 DEF EditorClose, diskVars
  <2>2. m \in Message  BY DEF Message
  <2> HIDE DEF m
  <2>3. inbox' \in Seq(Message)  BY <2>1, <2>2 DEF Edit, TypeInv
  <2> QED  BY <2>1, <2>3, EnvironmentType DEF Edit, TypeInv
<1>11. ASSUME NEW u \in Uri, NEW t \in Text, EditorChange(u, t) PROVE TypeInv'
  <2> DEFINE m == [kind |-> "change", uri |-> u, text |-> t,
                   version |-> editor[u].version + 1]
  <2>1. /\ editor[u] # None
        /\ editor' = [editor EXCEPT ![u] = Document(t, @.version + 1)]
        /\ Edit(<<m>>) /\ UNCHANGED disk
    BY <1>11 DEF EditorChange, diskVars
  <2>2. editor[u].version + 1 \in Nat  BY <2>1 DEF TypeInv, Documents
  <2>3. m \in Message  BY <2>2 DEF Message
  <2> HIDE DEF m
  <2>4. inbox' \in Seq(Message)  BY <2>1, <2>3 DEF Edit, TypeInv
  <2>5. editor' \in [Uri -> Documents \cup {None}]
    BY <2>1, <2>2 DEF TypeInv, Document, Documents
  <2> QED  BY <2>1, <2>4, <2>5, EnvironmentType DEF Edit, TypeInv
<1>12. ASSUME NEW u \in Uri, NEW c \in Restored, NEW time \in 0..Now,
              DiskWrite(u, c, time)
       PROVE  TypeInv'
  <2>1. c \in Text \cup {None}  BY ServerAssumption
  <2>2. disk' \in [Uri -> Text \cup {None}]
    BY <1>12, <2>1, WriteType DEF DiskWrite
  <2> QED  BY <1>12, <2>2, EnvironmentType DEF DiskWrite, Outside, TypeInv
<1>13. ASSUME NEW baseline, NEW time, MigrationsChange(baseline, time) PROVE TypeInv'
  BY <1>13, EnvironmentType DEF MigrationsChange, Outside, TypeInv
<1>14. CASE ClientReports
  <2>1. [kind |-> "watched"] \in Message  BY DEF Message
  <2>2. inbox' \in Seq(Message)  BY <1>14, <2>1, Sends DEF ClientReports
  <2> QED  BY <1>14, <2>2, EnvironmentType DEF ClientReports, TypeInv
<1>15. CASE UNCHANGED vars
  BY <1>15 DEF TypeInv, vars, diskVars, docVars, tableVars
<1> QED
  BY <1>1, <1>2, <1>3, <1>4, <1>5, <1>6, <1>7, <1>8, <1>9, <1>10, <1>11, <1>12,
     <1>13, <1>14, <1>15 DEF Next, Handle, Environment

\* The server's variables keep their shape.
THEOREM ServerIsTyped == Spec => []TypeInv
<1>1. TypeInv /\ [Next]_vars => TypeInv'  BY TypeInvStep
<1> QED  BY <1>1, TypeInvInit, PTL DEF Spec

----------------------------------------------------------------------------
(* The index of table names.                                               *)

\* The three handlers that change a document.
DocumentStep == DidOpen \/ DidChange \/ DidClose

LEMMA OtherStep ==
    ASSUME [Next]_vars, ~DocumentStep
    PROVE  UNCHANGED docVars
<1>1. CASE Environment \/ ClientReports
  BY <1>1, EnvironmentStep DEF serverVars
<1> QED
  BY <1>1 DEF DocumentStep, Next, Handle, DidSave, DidChangeWatchedFiles,
     Resume, Symbol, vars

\* u becomes the document d, which declares a name or none.
LEMMA DeclareKeeps ==
    ASSUME TypeInv, NamesKept, IndexFollowsClaim, NEW u \in Uri,
           NEW d \in Documents, store' = [store EXCEPT ![u] = d],
           index' = Reindex(index, store', u), Claim(u, store')
    PROVE  NamesKept' /\ IndexFollowsClaim'
<1> DEFINE name == NameOf[d.text]
           old == index.by_uri[u]
<1>1. store'[u] = d /\ d # None /\ \A v \in Uri \ {u} : store'[v] = store[v]
  BY ServerAssumption DEF TypeInv, Documents
<1>2. name \in Table \cup {None} /\ old \in Table \cup {None} /\ None \notin Table
  BY ServerAssumption DEF TypeInv, Documents
<1>3. index' = Upsert(index, u, name) /\ index.by_name \in [Table -> Uri \cup {None}]
      /\ index.by_uri \in [Uri -> Table \cup {None}]
  BY <1>1 DEF Reindex, TypeInv
<1>4. claim' = IF name = None THEN claim ELSE [claim EXCEPT ![name] = u]
  BY <1>1 DEF Claim
<1> DEFINE rest == Release(index, u)
<1>5. /\ rest.by_name \in [Table -> Uri \cup {None}]
      /\ rest.by_uri \in [Uri -> Table \cup {None}]
      /\ rest.by_uri[u] = None
      /\ \A v \in Uri \ {u} : rest.by_uri[v] = index.by_uri[v]
      /\ \A n \in Table :
            rest.by_name[n] = IF n = old /\ index.by_name[n] = u THEN None
                              ELSE index.by_name[n]
  BY <1>2, <1>3 DEF Release
<1>6. /\ index'.by_name = IF name = None THEN rest.by_name
                          ELSE [rest.by_name EXCEPT ![name] = u]
      /\ index'.by_uri = IF name = None THEN rest.by_uri
                         ELSE [rest.by_uri EXCEPT ![u] = name]
  <2> HIDE DEF name
  <2>1. CASE name = None
    <3>1. index' = rest  BY <1>3, <2>1 DEF Upsert
    <3> QED  BY <2>1, <3>1
  <2>2. CASE name # None
    <3>1. index' = [by_uri |-> [rest.by_uri EXCEPT ![u] = name],
                    by_name |-> [rest.by_name EXCEPT ![name] = u]]
      BY <1>3, <2>2 DEF Upsert
    <3> DEFINE uris == [rest.by_uri EXCEPT ![u] = name]
               names == [rest.by_name EXCEPT ![name] = u]
    <3>2. index' = [by_uri |-> uris, by_name |-> names]  BY <3>1
    <3> HIDE DEF uris, names
    <3>3. index'.by_uri = uris /\ index'.by_name = names  BY <3>2
    <3> QED  BY <2>2, <3>3 DEF uris, names
  <2> QED  BY <2>1, <2>2
<1> HIDE DEF rest, name
<1>7. /\ index'.by_uri[u] = name
      /\ \A v \in Uri \ {u} : index'.by_uri[v] = index.by_uri[v]
  BY <1>2, <1>5, <1>6
<1>8. \A n \in Table :
         index'.by_name[n] = IF n = name THEN u
                             ELSE IF n = old /\ index.by_name[n] = u THEN None
                             ELSE index.by_name[n]
  BY <1>2, <1>5, <1>6
<1>9. NamesKept'
  BY <1>1, <1>7 DEF NamesKept, name
<1>10. ASSUME NEW n \in Table
      PROVE  index'.by_name[n] =
                IF claim'[n] # None /\ store'[claim'[n]] # None
                   /\ NameOf[store'[claim'[n]].text] = n
                THEN claim'[n] ELSE None
  <2>1. claim[n] \in Uri \cup {None} /\ None \notin Uri
    BY ServerAssumption DEF TypeInv
  <2>2. CASE n = name
    <3>1. claim'[n] = u  BY <1>2, <1>4, <2>2 DEF TypeInv
    <3> QED  BY <1>1, <1>8, <2>1, <2>2, <3>1 DEF name
  <2>3. CASE n # name
    <3>1. claim'[n] = claim[n]  BY <1>2, <1>4, <2>3 DEF TypeInv
    <3>2. index.by_name[n] =
             IF claim[n] # None /\ store[claim[n]] # None
                /\ NameOf[store[claim[n]].text] = n
             THEN claim[n] ELSE None
      BY DEF IndexFollowsClaim
    <3>3. CASE claim[n] = u
      <4>1. store[u] # None /\ NameOf[store[u].text] = n => old = n
        BY DEF NamesKept
      <4> QED  BY <1>1, <1>8, <2>1, <2>3, <3>1, <3>2, <3>3, <4>1 DEF name
    <3>4. CASE claim[n] # u
      <4>1. index.by_name[n] # u  BY <2>1, <3>2, <3>4
      <4> QED  BY <1>1, <1>8, <2>1, <2>3, <3>1, <3>2, <3>4, <4>1
    <3> QED  BY <3>3, <3>4
  <2> QED  BY <2>2, <2>3
<1>11. IndexFollowsClaim'  BY <1>10 DEF IndexFollowsClaim
<1> QED  BY <1>9, <1>11

LEMMA CloseKeeps ==
    ASSUME TypeInv, NamesKept, IndexFollowsClaim, NEW u \in Uri,
           store' = [store EXCEPT ![u] = None],
           index' = Release(index, u), claim' = claim
    PROVE  NamesKept' /\ IndexFollowsClaim'
<1> DEFINE old == index.by_uri[u]
<1>1. store'[u] = None /\ \A v \in Uri \ {u} : store'[v] = store[v]
  BY DEF TypeInv
<1>2. /\ index.by_name \in [Table -> Uri \cup {None}]
      /\ index.by_uri \in [Uri -> Table \cup {None}]
      /\ old \in Table \cup {None} /\ None \notin Table
  BY ServerAssumption DEF TypeInv
<1>3. /\ index'.by_uri[u] = None
      /\ \A v \in Uri \ {u} : index'.by_uri[v] = index.by_uri[v]
  BY <1>2 DEF Release
<1>4. \A n \in Table :
         index'.by_name[n] = IF n = old /\ index.by_name[n] = u THEN None
                             ELSE index.by_name[n]
  BY <1>2 DEF Release
<1>5. NamesKept'  BY <1>1, <1>3 DEF NamesKept
<1>6. ASSUME NEW n \in Table
      PROVE  index'.by_name[n] =
                IF claim[n] # None /\ store'[claim[n]] # None
                   /\ NameOf[store'[claim[n]].text] = n
                THEN claim[n] ELSE None
  <2>1. claim[n] \in Uri \cup {None} /\ None \notin Uri
    BY ServerAssumption DEF TypeInv
  <2>2. index.by_name[n] =
           IF claim[n] # None /\ store[claim[n]] # None
              /\ NameOf[store[claim[n]].text] = n
           THEN claim[n] ELSE None
    BY DEF IndexFollowsClaim
  <2>3. CASE claim[n] = u
    <3>1. store[u] # None /\ NameOf[store[u].text] = n => old = n
      BY DEF NamesKept
    <3> QED  BY <1>1, <1>4, <2>1, <2>2, <2>3, <3>1
  <2>4. CASE claim[n] # u
    <3>1. index.by_name[n] # u  BY <2>1, <2>2, <2>4
    <3> QED  BY <1>1, <1>4, <2>1, <2>2, <2>4, <3>1
  <2> QED  BY <2>3, <2>4
<1>7. IndexFollowsClaim'  BY <1>6 DEF IndexFollowsClaim
<1> QED  BY <1>5, <1>7

\* What a handler does to the documents: u is opened or changed, u is closed,
\* or a change of a document that is not open is dropped.
LEMMA DocumentEffect ==
    ASSUME TypeInv, DocumentStep
    PROVE  \E u \in Uri :
              \/ \E d \in Documents :
                    /\ store' = [store EXCEPT ![u] = d]
                    /\ index' = Reindex(index, store', u) /\ Claim(u, store')
              \/ /\ store' = [store EXCEPT ![u] = None]
                 /\ index' = Release(index, u) /\ claim' = claim
              \/ UNCHANGED docVars
<1> DEFINE m == Head(inbox)
<1>1. CASE DidOpen
  <2>1. m.uri \in Uri /\ m.text \in Text /\ m.version \in Nat
    BY <1>1, HeadMessage DEF DidOpen, Receive
  <2>2. Document(m.text, m.version) \in Documents
    BY <2>1 DEF Document, Documents
  <2>3. /\ store' = [store EXCEPT ![m.uri] = Document(m.text, m.version)]
        /\ index' = Reindex(index, store', m.uri) /\ Claim(m.uri, store')
    BY <1>1 DEF DidOpen
  <2> QED  BY <2>1, <2>2, <2>3
<1>2. CASE DidChange
  <2>1. m.uri \in Uri /\ m.text \in Text /\ m.version \in Nat
    BY <1>2, HeadMessage DEF DidChange, Receive
  <2>2. Document(m.text, m.version) \in Documents
    BY <2>1 DEF Document, Documents
  <2>3. /\ store' = UpdateFull(store, m.uri, m.text, m.version)
        /\ index' = Reindex(index, store', m.uri) /\ Claim(m.uri, store')
        /\ opens' = opens
    BY <1>2 DEF DidChange
  <2>4. CASE store[m.uri] = None
    <3>1. store' = store  BY <2>3, <2>4 DEF UpdateFull
    <3>2. UNCHANGED docVars  BY <2>3, <2>4, <3>1 DEF Reindex, Claim, docVars
    <3> QED  BY <2>1, <3>2
  <2>5. CASE store[m.uri] # None
    <3>1. store' = [store EXCEPT ![m.uri] = Document(m.text, m.version)]
      BY <2>3, <2>5 DEF UpdateFull
    <3> QED  BY <2>1, <2>2, <2>3, <3>1
  <2> QED  BY <2>4, <2>5
<1>3. CASE DidClose
  <2>1. m.uri \in Uri  BY <1>3, HeadMessage DEF DidClose, Receive
  <2>2. /\ store' = [store EXCEPT ![m.uri] = None]
        /\ index' = Release(index, m.uri) /\ claim' = claim
    BY <1>3 DEF DidClose
  <2> QED  BY <2>1, <2>2
<1> QED  BY <1>1, <1>2, <1>3 DEF DocumentStep

IndexInv == TypeInv /\ NamesKept /\ IndexFollowsClaim

LEMMA IndexInvInit == Init => IndexInv
<1> SUFFICES ASSUME Init PROVE IndexInv  OBVIOUS
<1>1. TypeInv  BY TypeInvInit
<1>2. NamesKept /\ IndexFollowsClaim  BY DEF Init, NamesKept, IndexFollowsClaim
<1> QED  BY <1>1, <1>2 DEF IndexInv

LEMMA IndexInvStep == IndexInv /\ [Next]_vars => IndexInv'
<1> SUFFICES ASSUME IndexInv, [Next]_vars PROVE IndexInv'  OBVIOUS
<1> USE DEF IndexInv
<1>1. TypeInv'  BY TypeInvStep
<1>2. CASE UNCHANGED docVars
  BY <1>1, <1>2 DEF docVars, NamesKept, IndexFollowsClaim
<1>3. CASE DocumentStep
  BY <1>1, <1>2, <1>3, DocumentEffect, DeclareKeeps, CloseKeeps
<1> QED  BY <1>2, <1>3, OtherStep

\* A table name leads to the document that declared it last, in whatever
\* order any number of documents are opened, changed and closed.
THEOREM IndexIsRight == Spec => []IndexFollowsClaim
<1>1. IndexInv => IndexFollowsClaim  BY DEF IndexInv
<1> QED  BY <1>1, IndexInvInit, IndexInvStep, PTL DEF Spec

----------------------------------------------------------------------------
(* The inbox and the editor.                                               *)

\* The head of the inbox is taken: what was about i + 1 is about i.
LEMMA Shifted ==
    ASSUME TypeInv, inbox # <<>>, inbox' = Tail(inbox)
    PROVE  /\ Len(inbox) \in Nat /\ DOMAIN inbox = 1..Len(inbox)
           /\ Len(inbox') = Len(inbox) - 1 /\ DOMAIN inbox' = 1..(Len(inbox) - 1)
           /\ \A i \in DOMAIN inbox' : i + 1 \in DOMAIN inbox /\ inbox'[i] = inbox[i + 1]
           /\ \A u \in Uri, i \in DOMAIN inbox' : About(i, u)' <=> About(i + 1, u)
           /\ \A u \in Uri, i, j \in Nat :
                 NoneBetween(i, j, u)' <=> NoneBetween(i + 1, j + 1, u)
<1>1. inbox \in Seq(Message)  BY DEF TypeInv
<1>2. /\ Len(inbox) \in Nat /\ DOMAIN inbox = 1..Len(inbox)
      /\ Len(inbox') = Len(inbox) - 1 /\ DOMAIN inbox' = 1..(Len(inbox) - 1)
      /\ \A i \in DOMAIN inbox' : i + 1 \in DOMAIN inbox /\ inbox'[i] = inbox[i + 1]
      /\ \A i \in DOMAIN inbox : i = 1 \/ i - 1 \in DOMAIN inbox'
  BY <1>1, TailLists
<1>3. \A u \in Uri, i \in DOMAIN inbox' : About(i, u)' <=> About(i + 1, u)
  BY <1>2 DEF About
<1>4. ASSUME NEW u \in Uri, NEW i \in Nat, NEW j \in Nat
      PROVE  NoneBetween(i, j, u)' <=> NoneBetween(i + 1, j + 1, u)
  <2>1. ASSUME NoneBetween(i, j, u)', NEW k \in DOMAIN inbox,
               i + 1 < k, k < j + 1
        PROVE  ~About(k, u)
    <3>1. k \in Nat /\ k # 1  BY <1>2, <2>1
    <3>2. k - 1 \in DOMAIN inbox' /\ i < k - 1 /\ k - 1 < j /\ (k - 1) + 1 = k
      BY <1>2, <2>1, <3>1
    <3>3. ~(About(k - 1, u)')  BY <2>1, <3>2 DEF NoneBetween
    <3>4. About(k - 1, u)' <=> About((k - 1) + 1, u)  BY <1>3, <3>2
    <3> QED  BY <3>2, <3>3, <3>4
  <2>2. ASSUME NoneBetween(i + 1, j + 1, u), NEW k \in DOMAIN inbox', i < k, k < j
        PROVE  ~(About(k, u)')
    <3>1. k + 1 \in DOMAIN inbox /\ i + 1 < k + 1 /\ k + 1 < j + 1
      BY <1>2, <2>2
    <3>2. ~About(k + 1, u)  BY <2>2, <3>1 DEF NoneBetween
    <3> QED  BY <1>3, <3>2
  <2> QED  BY <2>1, <2>2 DEF NoneBetween
<1> QED  BY <1>2, <1>3, <1>4

\* What handling the head leaves in the store.
HeadTaken(docs) ==
    \A u \in Uri :
        docs[u] = IF ~About(1, u) THEN store[u]
                  ELSE IF Head(inbox).kind = "close" THEN None
                  ELSE Document(Head(inbox).text, Head(inbox).version)

LEMMA InboxTaken ==
    ASSUME TypeInv, InboxFollowsEditor, inbox # <<>>, inbox' = Tail(inbox),
           editor' = editor, HeadTaken(store')
    PROVE  InboxFollowsEditor'
<1>0. /\ Len(inbox) \in Nat /\ DOMAIN inbox = 1..Len(inbox)
      /\ Len(inbox') = Len(inbox) - 1 /\ DOMAIN inbox' = 1..(Len(inbox) - 1)
      /\ \A i \in DOMAIN inbox' : i + 1 \in DOMAIN inbox /\ inbox'[i] = inbox[i + 1]
      /\ \A u \in Uri, i \in DOMAIN inbox' : About(i, u)' <=> About(i + 1, u)
      /\ \A u \in Uri, i, j \in Nat :
            NoneBetween(i, j, u)' <=> NoneBetween(i + 1, j + 1, u)
  BY Shifted
<1> USE <1>0
<1>1. Head(inbox) = inbox[1] /\ 1 \in DOMAIN inbox
  <2>1. inbox \in Seq(Message)  BY DEF TypeInv
  <2> QED  BY <2>1
<1>2. ASSUME NEW u \in Uri, \A i \in DOMAIN inbox' : ~(About(i, u)')
      PROVE  store'[u] = editor'[u]
  <2>1. ASSUME NEW i \in DOMAIN inbox, i # 1 PROVE ~About(i, u)
    <3>0. Len(inbox) \in Nat /\ i \in 1..Len(inbox) /\ i # 1  BY <2>1
    <3>1. i - 1 \in DOMAIN inbox' /\ (i - 1) + 1 = i
      <4>1. i - 1 \in 1..(Len(inbox) - 1) /\ (i - 1) + 1 = i
        <5> HIDE <1>0
        <5> QED  BY <3>0
      <4> QED  BY <4>1
    <3>2. About(i - 1, u)' <=> About((i - 1) + 1, u)  BY <3>1
    <3> QED  BY <1>2, <3>1, <3>2
  <2>2. CASE About(1, u)
    <3>1. NoneBetween(1, Len(inbox) + 1, u)  BY <2>1 DEF NoneBetween
    <3> QED  BY <1>1, <2>2, <3>1 DEF InboxFollowsEditor,
    Delivered, LatestIsEditor, ChangeFitsStore, ChangesFollow, HeadTaken
  <2>3. CASE ~About(1, u)
    BY <1>1, <2>1, <2>3 DEF InboxFollowsEditor,
    Delivered, LatestIsEditor, ChangeFitsStore, ChangesFollow, HeadTaken
  <2> QED  BY <2>2, <2>3
<1>3. ASSUME NEW u \in Uri, NEW i \in DOMAIN inbox', About(i, u)',
             NoneBetween(i, Len(inbox) + 1, u)'
      PROVE  editor'[u] = IF inbox'[i].kind = "close" THEN None
                          ELSE Document(inbox'[i].text, inbox'[i].version)
  <2>1. NoneBetween(i + 1, (Len(inbox') + 1) + 1, u) /\ (Len(inbox') + 1) + 1 = Len(inbox) + 1
    BY <1>3
  <2>2. /\ About(i + 1, u) /\ NoneBetween(i + 1, Len(inbox) + 1, u)
        /\ i + 1 \in DOMAIN inbox /\ inbox'[i] = inbox[i + 1]
    BY <1>3, <2>1
  <2>3. editor[u] = IF inbox[i + 1].kind = "close" THEN None
                    ELSE Document(inbox[i + 1].text, inbox[i + 1].version)
    BY <2>2 DEF InboxFollowsEditor, LatestIsEditor
  <2> QED  BY <2>2, <2>3
<1>4. ASSUME NEW u \in Uri, NEW i \in DOMAIN inbox', inbox'[i].kind = "change",
             About(i, u)', NoneBetween(0, i, u)'
      PROVE  /\ store'[u] # None /\ store'[u].version < inbox'[i].version
             /\ store'[u].text # inbox'[i].text
  <2>1. NoneBetween(0 + 1, i + 1, u) /\ About(i + 1, u) /\ i + 1 \in DOMAIN inbox
        /\ inbox[i + 1].kind = "change" /\ 1 < i + 1
    BY <1>4
  <2>2. CASE About(1, u)
    <3>0. NoneBetween(1, i + 1, u)  BY <2>1
    <3>1. /\ Head(inbox).kind # "close" /\ Head(inbox).version < inbox[i + 1].version
          /\ Head(inbox).text # inbox[i + 1].text
      BY <1>1, <2>1, <2>2, <3>0 DEF InboxFollowsEditor, ChangesFollow
    <3>2. store'[u] = Document(Head(inbox).text, Head(inbox).version)
      BY <2>2, <3>1 DEF HeadTaken
    <3>3. Head(inbox).text \in Text /\ Head(inbox).version \in Nat
      BY <1>1, <2>2, <3>1, HeadMessage DEF About
    <3>4. /\ store'[u] # None /\ store'[u].version = Head(inbox).version
          /\ store'[u].text = Head(inbox).text
      BY <3>2, <3>3, ServerAssumption DEF Document
    <3> QED  BY <3>1, <3>4
  <2>3. CASE ~About(1, u)
    <3>1. NoneBetween(0, i + 1, u)
      BY <2>1, <2>3 DEF NoneBetween
    <3> QED  BY <2>1, <2>3, <3>1 DEF InboxFollowsEditor, ChangeFitsStore, HeadTaken
  <2> QED  BY <2>2, <2>3
<1>5. ASSUME NEW u \in Uri, NEW j \in DOMAIN inbox', NEW i \in DOMAIN inbox',
             i < j, About(i, u)', About(j, u)', NoneBetween(i, j, u)',
             inbox'[j].kind = "change"
      PROVE  /\ inbox'[i].kind # "close" /\ inbox'[i].version < inbox'[j].version
             /\ inbox'[i].text # inbox'[j].text
  <2>1. /\ i + 1 < j + 1 /\ About(i + 1, u) /\ About(j + 1, u)
        /\ NoneBetween(i + 1, j + 1, u) /\ inbox[j + 1].kind = "change"
        /\ i + 1 \in DOMAIN inbox /\ j + 1 \in DOMAIN inbox
    BY <1>5
  <2> QED  BY <2>1 DEF InboxFollowsEditor, ChangesFollow
<1> QED  BY <1>2, <1>3, <1>4, <1>5 DEF InboxFollowsEditor,
    Delivered, LatestIsEditor, ChangeFitsStore, ChangesFollow

\* m opens, changes or closes u.
Concerns(m, u) == m.kind \in {"open", "change", "close"} /\ m.uri = u

\* The editor as it is when it sends m.
Announces(m) ==
    \A u \in Uri :
        IF Concerns(m, u)
        THEN /\ editor'[u] = IF m.kind = "close" THEN None
                             ELSE Document(m.text, m.version)
             /\ m.kind = "change" => /\ editor[u] # None
                                     /\ editor[u].version < m.version
                                     /\ editor[u].text # m.text
        ELSE editor'[u] = editor[u]

LEMMA InboxSent ==
    ASSUME TypeInv, InboxFollowsEditor, NEW m \in Message,
           inbox' = Append(inbox, m), store' = store, Announces(m)
    PROVE  InboxFollowsEditor'
<1>1. inbox \in Seq(Message)  BY DEF TypeInv
<1>0. PICK N \in Nat : N = Len(inbox) + 1  BY <1>1
<1>2. /\ Len(inbox) \in Nat /\ DOMAIN inbox = 1..Len(inbox)
      /\ DOMAIN inbox' = 1..N /\ Len(inbox') = N
      /\ N \in DOMAIN inbox' /\ N \notin DOMAIN inbox
      /\ \A i \in DOMAIN inbox : i < N /\ i \in DOMAIN inbox' /\ inbox'[i] = inbox[i]
      /\ \A i \in DOMAIN inbox' : i = N \/ i \in DOMAIN inbox
      /\ inbox'[N] = m
  BY <1>0, <1>1
<1>3. /\ \A u \in Uri, i \in DOMAIN inbox : About(i, u)' <=> About(i, u)
      /\ \A u \in Uri : About(N, u)' <=> Concerns(m, u)
  BY <1>2 DEF About, Concerns
<1>4. \A u \in Uri, i, j \in Nat : NoneBetween(i, j, u)' => NoneBetween(i, j, u)
  BY <1>2, <1>3 DEF NoneBetween
<1>5. ASSUME NEW u \in Uri, \A i \in DOMAIN inbox' : ~(About(i, u)')
      PROVE  store'[u] = editor'[u]
  <2>1. ~Concerns(m, u) /\ \A i \in DOMAIN inbox : ~About(i, u)
    BY <1>2, <1>3, <1>5
  <2> QED  BY <2>1 DEF InboxFollowsEditor, Delivered, Announces
<1>6. ASSUME NEW u \in Uri, NEW i \in DOMAIN inbox', About(i, u)',
             NoneBetween(i, Len(inbox) + 1, u)'
      PROVE  editor'[u] = IF inbox'[i].kind = "close" THEN None
                          ELSE Document(inbox'[i].text, inbox'[i].version)
  <2>1. CASE i = N
    BY <1>2, <1>3, <1>6, <2>1 DEF Announces
  <2>2. CASE i \in DOMAIN inbox
    <3>1. Len(inbox') + 1 = N + 1 /\ i < N /\ N < N + 1 /\ N \in DOMAIN inbox'
      BY <1>0, <1>2, <2>2
    <3>2. ~(About(N, u)')
      BY <1>6, <3>1 DEF NoneBetween
    <3>3. NoneBetween(i, Len(inbox) + 1, u)
      <4>1. ASSUME NEW k \in DOMAIN inbox, i < k, k < Len(inbox) + 1
            PROVE  ~About(k, u)
        <5>1. k \in DOMAIN inbox' /\ k < Len(inbox') + 1  BY <1>2, <3>1, <4>1
        <5>2. ~(About(k, u)')  BY <1>6, <4>1, <5>1 DEF NoneBetween
        <5> QED  BY <1>3, <5>2
      <4> QED  BY <4>1 DEF NoneBetween
    <3>4. About(i, u) /\ ~Concerns(m, u)  BY <1>3, <1>6, <2>2, <3>2
    <3>5. editor[u] = IF inbox[i].kind = "close" THEN None
                      ELSE Document(inbox[i].text, inbox[i].version)
      BY <2>2, <3>3, <3>4 DEF InboxFollowsEditor, LatestIsEditor
    <3> QED  BY <1>2, <2>2, <3>4, <3>5 DEF Announces
  <2> QED  BY <1>2, <2>1, <2>2
<1>7. ASSUME NEW u \in Uri, NEW i \in DOMAIN inbox', inbox'[i].kind = "change",
             About(i, u)', NoneBetween(0, i, u)'
      PROVE  /\ store'[u] # None /\ store'[u].version < inbox'[i].version
             /\ store'[u].text # inbox'[i].text
  <2>1. CASE i = N
    <3>1. \A k \in DOMAIN inbox : ~About(k, u)
      <4>1. ASSUME NEW k \in DOMAIN inbox PROVE ~About(k, u)
        <5>1. 0 < k /\ k < i /\ k \in DOMAIN inbox'  BY <1>2, <2>1
        <5>2. ~(About(k, u)')  BY <1>7, <5>1 DEF NoneBetween
        <5> QED  BY <1>3, <5>2
      <4> QED  BY <4>1
    <3>2. store[u] = editor[u]  BY <3>1 DEF InboxFollowsEditor, Delivered
    <3> QED  BY <1>2, <1>3, <1>7, <2>1, <3>2 DEF Announces
  <2>2. CASE i \in DOMAIN inbox
    <3>1. NoneBetween(0, i, u) /\ About(i, u) /\ inbox[i].kind = "change"
      BY <1>2, <1>3, <1>4, <1>7, <2>2
    <3> QED  BY <1>2, <2>2, <3>1 DEF InboxFollowsEditor, ChangeFitsStore
  <2> QED  BY <1>2, <2>1, <2>2
<1>8. ASSUME NEW u \in Uri, NEW j \in DOMAIN inbox', NEW i \in DOMAIN inbox',
             i < j, About(i, u)', About(j, u)', NoneBetween(i, j, u)',
             inbox'[j].kind = "change"
      PROVE  /\ inbox'[i].kind # "close" /\ inbox'[i].version < inbox'[j].version
             /\ inbox'[i].text # inbox'[j].text
  <2>1. i \in DOMAIN inbox /\ About(i, u) /\ inbox'[i] = inbox[i]
    BY <1>2, <1>3, <1>8
  <2>2. NoneBetween(i, j, u)  BY <1>2, <1>4, <1>8
  <2>3. CASE j = N
    <3>1. NoneBetween(i, Len(inbox) + 1, u)  BY <1>0, <2>2, <2>3
    <3>2. editor[u] = IF inbox[i].kind = "close" THEN None
                      ELSE Document(inbox[i].text, inbox[i].version)
      BY <2>1, <3>1 DEF InboxFollowsEditor, LatestIsEditor
    <3>3. /\ editor[u] # None /\ editor[u].version < inbox'[j].version
          /\ editor[u].text # inbox'[j].text
      BY <1>2, <1>3, <1>8, <2>3 DEF Announces
    <3> QED  BY <2>1, <3>2, <3>3 DEF Document
  <2>4. CASE j \in DOMAIN inbox
    <3>1. About(j, u) /\ inbox[j].kind = "change" /\ inbox'[j] = inbox[j]
      BY <1>2, <1>3, <1>8, <2>4
    <3> QED  BY <1>8, <2>1, <2>2, <2>4, <3>1 DEF InboxFollowsEditor, ChangesFollow
  <2> QED  BY <1>2, <2>3, <2>4
<1> QED  BY <1>5, <1>6, <1>7, <1>8 DEF InboxFollowsEditor,
    Delivered, LatestIsEditor, ChangeFitsStore, ChangesFollow

\* A change is handled when its document is open, and is newer than it.
LEMMA ChangeAdvances ==
    ASSUME TypeInv, InboxFollowsEditor, DidChange
    PROVE  /\ store[Head(inbox).uri] # None
           /\ store[Head(inbox).uri].version < Head(inbox).version
           /\ store[Head(inbox).uri].text # Head(inbox).text
           /\ store' = [store EXCEPT ![Head(inbox).uri] =
                           Document(Head(inbox).text, Head(inbox).version)]
<1> DEFINE u == Head(inbox).uri
<1>1. inbox # <<>> /\ Head(inbox).kind = "change" /\ u \in Uri
  BY HeadMessage DEF DidChange, Receive
<1>2. Head(inbox) = inbox[1] /\ 1 \in DOMAIN inbox
  <2>1. inbox \in Seq(Message)  BY DEF TypeInv
  <2> QED  BY <1>1, <2>1
<1>3. About(1, u)  BY <1>1, <1>2 DEF About
<1>4. NoneBetween(0, 1, u)
  <2>1. \A k \in DOMAIN inbox : ~(0 < k /\ k < 1)
    <3>1. inbox \in Seq(Message)  BY DEF TypeInv
    <3> QED  BY <3>1
  <2> QED  BY <2>1 DEF NoneBetween
<1>5. /\ store[u] # None /\ store[u].version < Head(inbox).version
      /\ store[u].text # Head(inbox).text
  BY <1>1, <1>2, <1>3, <1>4 DEF InboxFollowsEditor, ChangeFitsStore
<1> QED  BY <1>5 DEF DidChange, UpdateFull

LEMMA HandleTakes ==
    ASSUME TypeInv, InboxFollowsEditor, Handle
    PROVE  /\ inbox # <<>> /\ inbox' = Tail(inbox) /\ editor' = editor
           /\ HeadTaken(store')
<1>1. /\ inbox # <<>> /\ inbox' = Tail(inbox) /\ editor' = editor
      /\ Head(inbox).kind \in {"open", "change", "save", "close", "watched"}
  BY DEF Handle, DidOpen, DidChange, DidSave, DidClose, DidChangeWatchedFiles,
         Receive
<1>2. Head(inbox) = inbox[1]
  <2>1. inbox \in Seq(Message)  BY DEF TypeInv
  <2> QED  BY <1>1, <2>1
<1>3. CASE DidOpen
  <2>1. Head(inbox).kind = "open" /\ Head(inbox).uri \in Uri
    BY <1>3, HeadMessage DEF DidOpen, Receive
  <2>2. store' = [store EXCEPT ![Head(inbox).uri] =
                     Document(Head(inbox).text, Head(inbox).version)]
    BY <1>3 DEF DidOpen
  <2> QED  BY <1>1, <1>2, <2>1, <2>2 DEF HeadTaken, About, TypeInv
<1>4. CASE DidChange
  <2>1. Head(inbox).kind = "change" /\ Head(inbox).uri \in Uri
    BY <1>4, HeadMessage DEF DidChange, Receive
  <2> QED  BY <1>1, <1>2, <1>4, <2>1, ChangeAdvances DEF HeadTaken, About, TypeInv
<1>5. CASE DidClose
  <2>1. Head(inbox).kind = "close" /\ Head(inbox).uri \in Uri
    BY <1>5, HeadMessage DEF DidClose, Receive
  <2>2. store' = [store EXCEPT ![Head(inbox).uri] = None]  BY <1>5 DEF DidClose
  <2> QED  BY <1>1, <1>2, <2>1, <2>2 DEF HeadTaken, About, TypeInv
<1>6. CASE DidSave \/ DidChangeWatchedFiles
  <2>1. Head(inbox).kind \in {"save", "watched"} /\ store' = store
    BY <1>6 DEF DidSave, DidChangeWatchedFiles, Receive, docVars
  <2> QED  BY <1>1, <1>2, <2>1 DEF HeadTaken, About
<1> QED  BY <1>3, <1>4, <1>5, <1>6 DEF Handle

InboxInv == TypeInv /\ InboxFollowsEditor

LEMMA InboxInvInit == Init => InboxInv
<1> SUFFICES ASSUME Init PROVE InboxInv  OBVIOUS
<1>1. TypeInv  BY TypeInvInit
<1>2. InboxFollowsEditor  BY DEF Init, InboxFollowsEditor,
    Delivered, LatestIsEditor, ChangeFitsStore, ChangesFollow
<1> QED  BY <1>1, <1>2 DEF InboxInv

LEMMA InboxInvStep == InboxInv /\ [Next]_vars => InboxInv'
<1> SUFFICES ASSUME InboxInv, [Next]_vars PROVE InboxInv'  OBVIOUS
<1> USE DEF InboxInv
<1>1. TypeInv'  BY TypeInvStep
<1>2. CASE Handle
  BY <1>1, <1>2, HandleTakes, InboxTaken
<1>3. CASE UNCHANGED <<inbox, editor, store>>
  BY <1>1, <1>3 DEF InboxFollowsEditor,
    Delivered, LatestIsEditor, ChangeFitsStore, ChangesFollow, About, NoneBetween
<1>4. CASE Resume \/ Symbol \/ UNCHANGED vars
  <2>1. UNCHANGED <<inbox, editor, store>>
    BY <1>4 DEF Resume, Symbol, vars, docVars
  <2> QED  BY <1>3, <2>1
<1>5. ASSUME NEW u \in Uri, EditorOpen(u) PROVE InboxFollowsEditor'
  <2> DEFINE m == [kind |-> "open", uri |-> u, text |-> disk[u], version |-> 1]
  <2>1. /\ editor' = [editor EXCEPT ![u] = Document(disk[u], 1)]
        /\ inbox' = Append(inbox, m) /\ store' = store /\ disk[u] # None
    BY <1>5 DEF EditorOpen, Edit, serverVars, docVars, TypeInv
  <2>2. m \in Message  BY <2>1 DEF TypeInv, Message
  <2>3. Announces(m)  BY <2>1 DEF Announces, Concerns, TypeInv
  <2> HIDE DEF m
  <2> QED  BY <2>1, <2>2, <2>3, InboxSent
<1>6. ASSUME NEW u \in Uri, EditorSave(u) PROVE InboxFollowsEditor'
  <2> DEFINE m == [kind |-> "save", uri |-> u]
  <2>1. /\ editor' = editor /\ inbox' = Append(inbox, m) /\ store' = store
    BY <1>6 DEF EditorSave, Edit, serverVars, docVars, TypeInv
  <2>2. m \in Message  BY DEF Message
  <2>3. Announces(m)  BY <2>1 DEF Announces, Concerns
  <2> HIDE DEF m
  <2> QED  BY <2>1, <2>2, <2>3, InboxSent
<1>7. ASSUME NEW u \in Uri, EditorClose(u) PROVE InboxFollowsEditor'
  <2> DEFINE m == [kind |-> "close", uri |-> u]
  <2>1. /\ editor' = [editor EXCEPT ![u] = None]
        /\ inbox' = Append(inbox, m) /\ store' = store
    BY <1>7 DEF EditorClose, Edit, serverVars, docVars, TypeInv
  <2>2. m \in Message  BY DEF Message
  <2>3. Announces(m)  BY <2>1 DEF Announces, Concerns, TypeInv
  <2> HIDE DEF m
  <2> QED  BY <2>1, <2>2, <2>3, InboxSent
<1>8. ASSUME NEW u \in Uri, NEW t \in Text, EditorChange(u, t)
      PROVE  InboxFollowsEditor'
  <2> DEFINE m == [kind |-> "change", uri |-> u, text |-> t,
                   version |-> editor[u].version + 1]
  <2>1. /\ editor[u] # None /\ editor[u].text # t
        /\ editor' = [editor EXCEPT ![u] = Document(t, @.version + 1)]
        /\ inbox' = Append(inbox, m) /\ store' = store
    BY <1>8 DEF EditorChange, Edit, serverVars, docVars, TypeInv
  <2>2. editor[u].version \in Nat  BY <2>1 DEF TypeInv, Documents
  <2>3. m \in Message  BY <2>2 DEF Message
  <2>4. Announces(m)  BY <2>1, <2>2 DEF Announces, Concerns, TypeInv
  <2> HIDE DEF m
  <2> QED  BY <2>1, <2>3, <2>4, InboxSent
<1>9. ASSUME NEW u \in Uri, NEW c, NEW time, DiskWrite(u, c, time)
      PROVE  InboxFollowsEditor'
  BY <1>3, <1>9 DEF DiskWrite, Outside, serverVars, docVars
<1>10. ASSUME NEW baseline, NEW time, MigrationsChange(baseline, time)
       PROVE  InboxFollowsEditor'
  BY <1>3, <1>10 DEF MigrationsChange, Outside, serverVars, docVars
<1>11. CASE ClientReports
  <2> DEFINE m == [kind |-> "watched"]
  <2>1. editor' = editor /\ inbox' = Append(inbox, m) /\ store' = store
    BY <1>11 DEF ClientReports, serverVars, docVars
  <2>2. m \in Message  BY DEF Message
  <2>3. Announces(m)  BY <2>1 DEF Announces, Concerns
  <2> HIDE DEF m
  <2> QED  BY <1>1, <2>1, <2>2, <2>3, InboxSent
<1> QED
  BY <1>1, <1>2, <1>4, <1>5, <1>6, <1>7, <1>8, <1>9, <1>10, <1>11
  DEF Next, Environment

----------------------------------------------------------------------------
(* The fingerprint of the open documents.                                  *)

\* Documents opened once at most are known by their versions.
LEMMA FingerprintIsExact ==
    ASSUME NEW d \in [Uri -> Documents \cup {None}],
           NEW docs \in [Uri -> Documents \cup {None}],
           NEW times \in [Uri -> Nat], OpenedOnly(docs, times),
           EarlierThan(d, docs, times), Shape(d) = Shape(docs),
           \A u \in Uri : ~(times[u] > 1)
    PROVE  Digest(d) = Digest(docs)
<1>1. ASSUME NEW u \in Uri
      PROVE  (IF d[u] = None THEN None ELSE d[u].text)
                = (IF docs[u] = None THEN None ELSE docs[u].text)
  <2>1. Shape(d)[u] = Shape(docs)[u]  OBVIOUS
  <2>2. (IF d[u] = None THEN None ELSE <<d[u].version, Length[d[u].text]>>)
           = (IF docs[u] = None THEN None
              ELSE <<docs[u].version, Length[docs[u].text]>>)
    BY <2>1 DEF Shape
  <2>3. ASSUME NEW e \in Documents
        PROVE  <<e.version, Length[e.text]>> # None
    <3>1. <<e.version, Length[e.text]>> \in Nat \X Nat
      BY ServerAssumption DEF Documents
    <3> QED  BY <3>1, ServerAssumption
  <2>4. CASE d[u] = None \/ docs[u] = None
    BY <2>2, <2>3, <2>4
  <2>5. CASE d[u] # None /\ docs[u] # None
    <3>1. d[u].version = docs[u].version  BY <2>2, <2>5
    <3>2. times[u] <= 1  OBVIOUS
    <3> QED  BY <2>5, <3>1, <3>2 DEF EarlierThan
  <2> QED  BY <2>4, <2>5
<1> QED  BY <1>1 DEF Digest

\* Remembering the fingerprint does not change it.
LEMMA FingerprintIsStable ==
    ASSUME StoreFingerprint(store')
    PROVE  DocstoreFingerprint(store)' = DocstoreFingerprint(store')
  BY DEF StoreFingerprint, DocstoreFingerprint, FingerprintHit

LEMMA EarlierThanNow ==
    ASSUME NEW docs \in [Uri -> Documents \cup {None}],
           NEW times \in [Uri -> Nat], OpenedOnly(docs, times)
    PROVE  EarlierThan(docs, docs, times)
  BY DEF EarlierThan, OpenedOnly, Documents

\* Whatever a handler does to the documents, those remembered stay earlier.
LEMMA DocumentsAdvance ==
    ASSUME TypeInv, InboxFollowsEditor, OpenedOnly(store, opens),
           DocumentStep \/ UNCHANGED docVars
    PROVE  /\ OpenedOnly(store', opens')
           /\ \A d \in [Uri -> Documents \cup {None}] :
                 EarlierThan(d, store, opens) => EarlierThan(d, store', opens')
           /\ \A u \in Uri : opens'[u] >= opens[u]
<1> DEFINE m == Head(inbox)
<1>0. opens \in [Uri -> Nat] /\ store \in [Uri -> Documents \cup {None}]
  BY DEF TypeInv
<1>1. CASE DidOpen
  <2>1. m.uri \in Uri /\ m.text \in Text /\ m.version \in Nat
    BY <1>1, HeadMessage DEF DidOpen, Receive
  <2>2. /\ store' = [store EXCEPT ![m.uri] = Document(m.text, m.version)]
        /\ opens' = [opens EXCEPT ![m.uri] = @ + 1]
    BY <1>1 DEF DidOpen
  <2> HIDE DEF m
  <2>3. OpenedOnly(store', opens')
    BY <1>0, <2>1, <2>2 DEF OpenedOnly
  <2>4. ASSUME NEW d \in [Uri -> Documents \cup {None}],
               EarlierThan(d, store, opens)
        PROVE  EarlierThan(d, store', opens')
    BY <1>0, <2>1, <2>2, <2>4 DEF EarlierThan
  <2>5. \A u \in Uri : opens'[u] >= opens[u]  BY <1>0, <2>1, <2>2
  <2>6. \A d \in [Uri -> Documents \cup {None}] :
           EarlierThan(d, store, opens) => EarlierThan(d, store', opens')
    BY <2>4
  <2> QED  BY <2>3, <2>5, <2>6
<1>2. CASE DidChange
  <2>1. m.uri \in Uri /\ m.text \in Text /\ m.version \in Nat
    BY <1>2, HeadMessage DEF DidChange, Receive
  <2>2. /\ store[m.uri] # None /\ store[m.uri].version < m.version
        /\ store' = [store EXCEPT ![m.uri] = Document(m.text, m.version)]
        /\ opens' = opens
    BY <1>2, ChangeAdvances DEF DidChange
  <2> HIDE DEF m
  <2>3. OpenedOnly(store', opens')
    BY <1>0, <2>1, <2>2 DEF OpenedOnly
  <2>4. ASSUME NEW d \in [Uri -> Documents \cup {None}],
               EarlierThan(d, store, opens), NEW u \in Uri
        PROVE  /\ opens'[u] = 0 => d[u] = None
               /\ (opens'[u] <= 1 /\ d[u] # None /\ store'[u] # None) =>
                    /\ d[u].version <= store'[u].version
                    /\ d[u].version = store'[u].version => d[u].text = store'[u].text
    <3>1. CASE u # m.uri
      BY <1>0, <2>1, <2>2, <2>4, <3>1 DEF EarlierThan
    <3>2. CASE u = m.uri
      <4>1. store'[u].version = m.version  BY <1>0, <2>1, <2>2, <3>2 DEF Document
      <4>2. d[u] # None => d[u].version \in Nat  BY DEF Documents
      <4>3. store[u].version \in Nat  BY <1>0, <2>2, <3>2 DEF Documents
      <4> QED  BY <1>0, <2>1, <2>2, <2>4, <3>2, <4>1, <4>2, <4>3 DEF EarlierThan
    <3> QED  BY <3>1, <3>2
  <2>5. \A d \in [Uri -> Documents \cup {None}] :
           EarlierThan(d, store, opens) => EarlierThan(d, store', opens')
    BY <2>4 DEF EarlierThan
  <2>6. \A u \in Uri : opens'[u] >= opens[u]  BY <1>0, <2>2
  <2> QED  BY <2>3, <2>5, <2>6
<1>3. CASE DidClose
  <2>1. m.uri \in Uri  BY <1>3, HeadMessage DEF DidClose, Receive
  <2>2. store' = [store EXCEPT ![m.uri] = None] /\ opens' = opens
    BY <1>3 DEF DidClose
  <2> HIDE DEF m
  <2>3. OpenedOnly(store', opens')
    BY <1>0, <2>1, <2>2 DEF OpenedOnly
  <2>4. ASSUME NEW d \in [Uri -> Documents \cup {None}],
               EarlierThan(d, store, opens)
        PROVE  EarlierThan(d, store', opens')
    BY <1>0, <2>1, <2>2, <2>4 DEF EarlierThan
  <2>5. \A u \in Uri : opens'[u] >= opens[u]  BY <1>0, <2>2
  <2>6. \A d \in [Uri -> Documents \cup {None}] :
           EarlierThan(d, store, opens) => EarlierThan(d, store', opens')
    BY <2>4
  <2> QED  BY <2>3, <2>5, <2>6
<1>4. CASE UNCHANGED docVars
  <2>1. store' = store /\ opens' = opens  BY <1>4 DEF docVars
  <2>2. \A u \in Uri : opens'[u] >= opens[u]  BY <1>0, <2>1
  <2> QED  BY <2>1, <2>2
<1> QED  BY <1>1, <1>2, <1>3, <1>4 DEF DocumentStep

LEMMA FingerprintHolds ==
    ASSUME TypeInv, FingerprintKept, ~Reopened
    PROVE  DocstoreFingerprint(store) = Digest(store)
<1>1. CASE FingerprintHit(store)
  <2>1. PICK d \in [Uri -> Documents \cup {None}] : DigestOf(d)
    BY <1>1 DEF FingerprintHit, FingerprintKept
  <2>2. Shape(d) = Shape(store)  BY <1>1, <2>1 DEF FingerprintHit, DigestOf
  <2>3. Digest(d) = Digest(store)
    BY <2>1, <2>2, FingerprintIsExact
    DEF FingerprintKept, DigestOf, Reopened, TypeInv
  <2> QED  BY <1>1, <2>1, <2>3 DEF DocstoreFingerprint, DigestOf
<1>2. CASE ~FingerprintHit(store)
  BY <1>2 DEF DocstoreFingerprint
<1> QED  BY <1>1, <1>2

\* The fingerprint a handler computes for the documents it has just changed.
LEMMA FingerprintNow ==
    ASSUME TypeInv, TypeInv', InboxFollowsEditor, FingerprintKept,
           DocumentStep \/ UNCHANGED docVars, ~Reopened'
    PROVE  DocstoreFingerprint(store') = Digest(store')
<1> DEFINE Docs == [Uri -> Documents \cup {None}]
<1>1. /\ OpenedOnly(store', opens')
      /\ \A d \in Docs : EarlierThan(d, store, opens) => EarlierThan(d, store', opens')
  BY DocumentsAdvance DEF FingerprintKept
<1>2. store' \in Docs /\ opens' \in [Uri -> Nat]  BY DEF TypeInv
<1>3. \A u \in Uri : ~(opens'[u] > 1)  BY DEF Reopened
<1>4. CASE FingerprintHit(store')
  <2>1. PICK d \in Docs : /\ digest.shape = Shape(d) /\ digest.fingerprint = Digest(d)
                          /\ EarlierThan(d, store', opens')
    BY <1>1, <1>4 DEF FingerprintHit, FingerprintKept, DigestOf
  <2>2. Shape(d) = Shape(store')  BY <1>4, <2>1 DEF FingerprintHit
  <2>3. Digest(d) = Digest(store')
    BY <1>1, <1>2, <1>3, <2>1, <2>2, FingerprintIsExact
  <2> QED  BY <1>4, <2>1, <2>3 DEF DocstoreFingerprint
<1>5. CASE ~FingerprintHit(store')
  BY <1>5 DEF DocstoreFingerprint
<1> QED  BY <1>4, <1>5

\* A handler computes the fingerprint of the documents it has just changed
\* and may file a new list of tables under it.
LEMMA FingerprintStep ==
    ASSUME TypeInv, TypeInv', InboxFollowsEditor, FingerprintKept,
           DocumentStep \/ UNCHANGED docVars,
           \/ UNCHANGED <<digest, workspace>>
           \/ /\ StoreFingerprint(store')
              /\ \/ workspace' = workspace
                 \/ workspace' = WorkspaceEntry(store', tables', generation')
    PROVE  FingerprintKept'
<1> DEFINE Docs == [Uri -> Documents \cup {None}]
<1>1. /\ OpenedOnly(store', opens')
      /\ \A d \in Docs : EarlierThan(d, store, opens) => EarlierThan(d, store', opens')
      /\ \A u \in Uri : opens'[u] >= opens[u]
  BY DocumentsAdvance DEF FingerprintKept
<1>2. store' \in Docs /\ opens' \in [Uri -> Nat] /\ opens \in [Uri -> Nat]
  BY DEF TypeInv
<1>3. digest # None =>
         \E d \in Docs : /\ digest.shape = Shape(d) /\ digest.fingerprint = Digest(d)
                         /\ EarlierThan(d, store', opens')
  BY <1>1 DEF FingerprintKept, DigestOf
<1>4. ~Reopened' => DocstoreFingerprint(store') = Digest(store')  BY FingerprintNow
<1>5. digest' # None =>
         \E d \in Docs : /\ digest'.shape = Shape(d) /\ digest'.fingerprint = Digest(d)
                         /\ EarlierThan(d, store', opens')
  <2>1. CASE digest' = digest
    BY <1>3, <2>1
  <2>2. CASE digest' = [shape |-> Shape(store'), fingerprint |-> Digest(store')]
    <3>1. EarlierThan(store', store', opens')  BY <1>1, <1>2, EarlierThanNow
    <3>2. digest'.shape = Shape(store') /\ digest'.fingerprint = Digest(store')
      BY <2>2
    <3> QED  BY <1>2, <3>1, <3>2
  <2> QED  BY <2>1, <2>2 DEF StoreFingerprint
<1>6. ASSUME workspace' # None, ~Reopened'
      PROVE  workspace'.fingerprint = workspace'.docs
  <2>1. \A u \in Uri : ~(opens'[u] > 1)  BY <1>6 DEF Reopened
  <2>2. ~Reopened  BY <1>1, <1>2, <2>1 DEF Reopened
  <2>3. CASE workspace' = workspace
    BY <1>6, <2>2, <2>3 DEF FingerprintKept
  <2>4. CASE workspace' = [fingerprint |-> DocstoreFingerprint(store'),
                           generation |-> generation',
                           value |-> BuildWorkspaceTables(store', tables'),
                           docs |-> Digest(store')]
    BY <1>4, <1>6, <2>4
  <2> QED  BY <2>3, <2>4 DEF WorkspaceEntry
<1>7. OpenedOnly(store, opens)'  BY <1>1 DEF OpenedOnly
<1>8. digest' # None => \E d \in Docs : DigestOf(d)'
  <2>1. ASSUME NEW d \in Docs, digest'.shape = Shape(d),
               digest'.fingerprint = Digest(d), EarlierThan(d, store', opens')
        PROVE  DigestOf(d)'
    BY <2>1 DEF DigestOf, Shape, Digest, EarlierThan
  <2> QED  BY <1>5, <2>1
<1> QED  BY <1>6, <1>7, <1>8 DEF FingerprintKept

----------------------------------------------------------------------------
(* What a document shows.                                                  *)

\* The list of tables depends on the texts of the open documents alone.
LEMMA ListOfDigest ==
    ASSUME NEW docs \in [Uri -> Documents \cup {None}], NEW disks
    PROVE  BuildWorkspaceTables(docs, disks) = TablesFor(Digest(docs), disks)
<1> DEFINE A == {v \in Open(docs) : docs[v].text \in Valid}
           B == {v \in Uri : Digest(docs)[v] # None /\ Digest(docs)[v] \in Valid}
           openA == {[uri |-> u, text |-> docs[u].text] : u \in A}
           openB == {[uri |-> u, text |-> Digest(docs)[u]] : u \in B}
<1>1. ASSUME NEW v \in Uri
      PROVE  /\ v \in A <=> v \in B
             /\ v \in A => Digest(docs)[v] = docs[v].text
  BY ServerAssumption DEF Digest, Open, Documents
<1>2. A = B  BY <1>1 DEF Open
<1>3. openA = openB  BY <1>1, <1>2 DEF Open
<1> HIDE DEF A, B, openA, openB
<1>4. TablesFor(Digest(docs), disks) =
         openB \cup {disks[n] : n \in {m \in Table : /\ disks[m] # None
                         /\ \A e \in openB : e.uri # disks[m].uri}}
  BY DEF TablesFor, openB, B
<1>5. BuildWorkspaceTables(docs, disks) =
         openA \cup {disks[n] : n \in {m \in Table : /\ disks[m] # None
                         /\ \A e \in openA : e.uri # disks[m].uri}}
  BY DEF BuildWorkspaceTables, openA, A
<1> QED  BY <1>3, <1>4, <1>5

\* The cached list, if it is found under this generation, is right for the
\* documents it was made of.
ListUsable(disks, gen) ==
    workspace # None =>
        /\ workspace.generation \in 0..gen
        /\ workspace.generation = gen =>
              workspace.value = TablesFor(workspace.docs, disks)

LEMMA RefreshUsable ==
    ASSUME TypeInv, ListKept, Refresh \/ UNCHANGED tableVars
    PROVE  ListUsable(tables', generation')
  BY DEF TypeInv, ListKept, Refresh, tableVars, ListUsable

LEMMA PublishEffect ==
    ASSUME TypeInv, TypeInv', NEW v \in Uri, Publish(v),
           ListUsable(tables', generation')
    PROVE  /\ ListKept'
           /\ \/ ListOfOthers'
              \/ workspace'.value = BuildWorkspaceTables(store', tables')
           /\ \A u \in Uri \ {v} : shown'[u] = shown[u]
           /\ store'[v] = None => shown'[v] = NoDiagnostics
           /\ store'[v] # None =>
                 /\ shown'[v].text = store'[v].text
                 /\ store'[v].text \in Valid => shown'[v].against = workspace'.value
<1> DEFINE entry == WorkspaceEntry(store', tables', generation')
<1>0. PICK state \in LoadedEntries :
         shown' = [shown EXCEPT ![v] =
                      ComputeLspDiagnostics(v, store', entry,
                          DriftResult(store', index', state).value)]
  BY DEF Publish
<1> DEFINE found == DriftResult(store', index', state).value
<1>1. /\ shown' = [shown EXCEPT ![v] = ComputeLspDiagnostics(v, store', entry, found)]
      /\ workspace' = entry /\ StoreFingerprint(store')
  BY <1>0 DEF Publish
<1>2. store' \in [Uri -> Documents \cup {None}] /\ generation' \in Nat
  BY DEF TypeInv
<1>3. BuildWorkspaceTables(store', tables') = TablesFor(Digest(store'), tables')
  BY <1>2, ListOfDigest
<1>4. DocstoreFingerprint(store)' = DocstoreFingerprint(store')
  BY <1>1, FingerprintIsStable
<1>5. ASSUME ListHit(store', generation')
      PROVE  /\ ListKept'
             /\ \/ ListOfOthers'
                \/ workspace'.value = BuildWorkspaceTables(store', tables')
  <2>1. workspace' = workspace  BY <1>1, <1>5 DEF WorkspaceEntry
  <2>2. /\ workspace # None /\ workspace.fingerprint = DocstoreFingerprint(store')
        /\ workspace.generation = generation'
    BY <1>5 DEF ListHit
  <2>3. workspace.value = TablesFor(workspace.docs, tables')
    BY <2>2 DEF ListUsable
  <2>4. ListKept'
    BY <1>2, <2>1, <2>2, <2>3 DEF ListKept, TablesFor
  <2>5. ListHit(store, generation)'
    BY <1>4, <2>1, <2>2 DEF ListHit
  <2>6. ListOfOthers' \/ workspace'.docs = Digest(store')
    BY <2>5 DEF ListOfOthers, Digest
  <2>7. workspace'.docs = Digest(store') =>
           workspace'.value = BuildWorkspaceTables(store', tables')
    BY <1>3, <2>1, <2>3
  <2> QED  BY <2>4, <2>6, <2>7
<1>6. ASSUME ~ListHit(store', generation')
      PROVE  /\ ListKept'
             /\ \/ ListOfOthers'
                \/ workspace'.value = BuildWorkspaceTables(store', tables')
  <2>1. workspace' = [fingerprint |-> DocstoreFingerprint(store'),
                      generation |-> generation',
                      value |-> BuildWorkspaceTables(store', tables'),
                      docs |-> Digest(store')]
    BY <1>1, <1>6 DEF WorkspaceEntry
  <2>2. /\ workspace'.generation = generation' /\ workspace'.docs = Digest(store')
        /\ workspace'.value = BuildWorkspaceTables(store', tables')
    BY <2>1
  <2>3. workspace'.value = TablesFor(workspace'.docs, tables')
    BY <1>3, <2>2
  <2>4. ListKept'
    BY <1>2, <2>2, <2>3 DEF ListKept, TablesFor
  <2> QED  BY <2>2, <2>4
<1>7. /\ \A u \in Uri \ {v} : shown'[u] = shown[u]
      /\ shown'[v] = ComputeLspDiagnostics(v, store', entry, found)
  BY <1>1 DEF TypeInv
<1>8. /\ store'[v] = None => shown'[v] = NoDiagnostics
      /\ store'[v] # None =>
            /\ shown'[v].text = store'[v].text
            /\ store'[v].text \in Valid => shown'[v].against = workspace'.value
  <2> HIDE DEF entry, found
  <2> QED  BY <1>1, <1>7 DEF ComputeLspDiagnostics
<1> QED  BY <1>5, <1>6, <1>7, <1>8

\* A list of other documents that is found once is found again.
LEMMA FoundAgain ==
    ASSUME NEW v, Publish(v), UNCHANGED <<store, generation>>, ListOfOthers
    PROVE  ListOfOthers'
<1>1. workspace' = WorkspaceEntry(store', tables', generation')
      /\ StoreFingerprint(store')
  BY DEF Publish
<1>2. ListHit(store', generation')  BY DEF ListOfOthers
<1>3. workspace' = workspace  BY <1>1, <1>2 DEF WorkspaceEntry
<1>4. DocstoreFingerprint(store)' = DocstoreFingerprint(store')
  BY <1>1, FingerprintIsStable
<1>5. ListHit(store, generation)'
  BY <1>2, <1>3, <1>4 DEF ListHit
<1> QED  BY <1>3, <1>5 DEF ListOfOthers, Digest

\* A handler that suspends with nothing to go through yet has all the other
\* documents before it.
LEMMA SuspendCovers ==
    ASSUME TypeInv, NEW u \in Uri, Suspend(u, None)
    PROVE  \A w \in Uri \ {u} : Covered(w)'
<1>1. /\ DOMAIN handlers' = 1..(Len(handlers) + 1)
      /\ handlers'[Len(handlers) + 1] = [uri |-> u, todo |-> None]
  BY SuspendType
<1>2. PICK n \in Nat : n = Len(handlers) + 1 /\ n \in DOMAIN handlers'
  BY <1>1, LenProperty
<1>3. handlers'[n].uri = u /\ handlers'[n].todo = None  BY <1>1, <1>2
<1> QED  BY <1>2, <1>3 DEF Covered

\* u is published, and every other document was, or is going to be.
LEMMA PublishedStep ==
    ASSUME TypeInv, TypeInv', TextsShown, ClosedIsClear, NEW u \in Uri,
           Publish(u), ListUsable(tables', generation'),
           \A w \in Uri \ {u} : store'[w] = store[w]
    PROVE  /\ TextsShown' /\ ClosedIsClear'
           /\ (\A w \in Open(store') \ {u} :
                  Covered(w)' \/ ListOfOthers'
                    \/ (store'[w].text \in Valid =>
                          shown'[w].against = BuildWorkspaceTables(store', tables')))
                => AgainstShown'
<1>1. /\ \/ ListOfOthers'
         \/ workspace'.value = BuildWorkspaceTables(store', tables')
      /\ \A w \in Uri \ {u} : shown'[w] = shown[w]
      /\ store'[u] = None => shown'[u] = NoDiagnostics
      /\ store'[u] # None =>
            /\ shown'[u].text = store'[u].text
            /\ store'[u].text \in Valid => shown'[u].against = workspace'.value
  BY PublishEffect
<1>2. TextsShown'
  <2>1. ASSUME NEW w \in Uri, store'[w] # None
        PROVE  shown'[w].text = store'[w].text
    BY <1>1, <2>1 DEF TextsShown
  <2> QED  BY <2>1 DEF TextsShown
<1>3. ClosedIsClear'
  <2>1. ASSUME NEW w \in Uri, store'[w] = None PROVE shown'[w] = NoDiagnostics
    BY <1>1, <2>1 DEF ClosedIsClear
  <2> QED  BY <2>1 DEF ClosedIsClear, NoDiagnostics
<1>4. ASSUME \A w \in Open(store') \ {u} :
                Covered(w)' \/ ListOfOthers'
                  \/ (store'[w].text \in Valid =>
                        shown'[w].against = BuildWorkspaceTables(store', tables'))
      PROVE  AgainstShown'
  <2>1. ASSUME NEW w \in Open(store'), store'[w].text \in Valid
        PROVE  Covered(w)' \/ ListOfOthers'
                 \/ shown'[w].against = BuildWorkspaceTables(store', tables')
    <3>1. CASE w = u
      BY <1>1, <2>1, <3>1 DEF Open
    <3>2. CASE w # u
      BY <1>4, <2>1, <3>2
    <3> QED  BY <3>1, <3>2
  <2>2. Open(store)' = Open(store')
        /\ BuildWorkspaceTables(store, tables)' = BuildWorkspaceTables(store', tables')
    BY DEF Open, BuildWorkspaceTables
  <2> QED  BY <2>1, <2>2 DEF AgainstShown
<1> QED  BY <1>2, <1>3, <1>4

\* DidOpen, DidChange and DidSave: u is published and the handler is going to
\* publish the others.
LEMMA NotificationShown ==
    ASSUME TypeInv, TypeInv', TextsShown, ClosedIsClear, ListKept, NEW u \in Uri,
           Publish(u), Suspend(u, None), Refresh,
           \A w \in Uri \ {u} : store'[w] = store[w]
    PROVE  TextsShown' /\ ClosedIsClear' /\ AgainstShown' /\ ListKept'
<1>1. ListUsable(tables', generation')  BY RefreshUsable
<1>2. ListKept'  BY <1>1, PublishEffect
<1>3. \A w \in Uri \ {u} : Covered(w)'  BY SuspendCovers
<1>4. \A w \in Open(store') \ {u} : Covered(w)'  BY <1>3 DEF Open
<1> QED  BY <1>1, <1>2, <1>4, PublishedStep

LEMMA CloseShown ==
    ASSUME TypeInv, TypeInv', TextsShown, ClosedIsClear, ListKept, DidClose
    PROVE  TextsShown' /\ ClosedIsClear' /\ AgainstShown' /\ ListKept'
<1> DEFINE u == Head(inbox).uri
<1>1. u \in Uri  BY HeadMessage DEF DidClose, Receive
<1>2. /\ store' = [store EXCEPT ![u] = None]
      /\ shown' = [shown EXCEPT ![u] = NoDiagnostics]
      /\ Suspend(u, None) /\ Refresh /\ workspace' = workspace
  BY DEF DidClose, cacheVars
<1> HIDE DEF u
<1>3. /\ store'[u] = None /\ shown'[u] = NoDiagnostics
      /\ \A w \in Uri \ {u} : store'[w] = store[w] /\ shown'[w] = shown[w]
  BY <1>1, <1>2 DEF TypeInv
<1>4. \A w \in Uri \ {u} : Covered(w)'  BY <1>1, <1>2, SuspendCovers
<1>5. TextsShown' /\ ClosedIsClear'
  BY <1>1, <1>3 DEF TextsShown, ClosedIsClear, NoDiagnostics
<1>6. AgainstShown'
  BY <1>3, <1>4 DEF AgainstShown, Open
<1>7. ListKept'
  BY <1>2, RefreshUsable DEF ListUsable, ListKept, TablesFor
<1> QED  BY <1>5, <1>6, <1>7

\* The report of a change on disk: with a project and an open document, one is
\* published and the handler is going to publish the rest.
LEMMA WatchedCovers ==
    ASSUME TypeInv, DidChangeWatchedFiles
    PROVE  /\ store' = store
           /\ \/ UNCHANGED <<tableVars, cacheVars, handlers, shown>> /\ project = "none"
              \/ Refresh /\ Open(store) = {} /\ UNCHANGED <<cacheVars, handlers, shown>>
              \/ /\ Refresh
                 /\ \E v \in Open(store) :
                       Publish(v) /\ \A w \in Open(store) \ {v} : Covered(w)'
<1> DEFINE list == SetToSeq(Open(store))
<1>0. store' = store  BY DEF DidChangeWatchedFiles, docVars
<1>1. IsFiniteSet(Open(store)) /\ Open(store) \subseteq Uri
  BY ServerAssumption, FS_Subset DEF Open
<1>2. /\ list \in Seq(Open(store))
      /\ \A w \in Open(store) : \E k \in DOMAIN list : list[k] = w
  BY <1>1, SetToSeqLists
<1>3. ASSUME list = <<>> PROVE Open(store) = {}  BY <1>2, <1>3
<1>4. ASSUME list # <<>>, Publish(Head(list)), Suspend(None, Tail(list))
      PROVE  \E v \in Open(store) :
                Publish(v) /\ \A w \in Open(store) \ {v} : Covered(w)'
  <2> HIDE DEF list
  <2>1. /\ Head(list) \in Open(store) /\ Tail(list) \in Seq(Open(store))
        /\ \A k \in DOMAIN list : k = 1 \/ k - 1 \in DOMAIN Tail(list)
        /\ \A k \in DOMAIN Tail(list) : Tail(list)[k] = list[k + 1]
        /\ Head(list) = list[1]
    BY <1>2, <1>4, TailLists
  <2>2. Tail(list) \in Seq(Uri)  BY <1>1, <2>1
  <2>3. PICK n \in Nat : n \in DOMAIN handlers'
                         /\ handlers'[n] = [uri |-> None, todo |-> Tail(list)]
    <3>1. /\ DOMAIN handlers' = 1..(Len(handlers) + 1)
          /\ handlers'[Len(handlers) + 1] = [uri |-> None, todo |-> Tail(list)]
      BY <1>4, <2>2, SuspendType
    <3> QED  BY <3>1, LenProperty
  <2>4. handlers'[n].todo = Tail(list) /\ Tail(list) # None
    <3>1. None \notin Seq(Uri)  BY ServerAssumption
    <3>2. handlers'[n].todo = Tail(list)  BY <2>3
    <3> QED  BY <2>2, <3>1, <3>2
  <2>5. ASSUME NEW w \in Open(store), w # Head(list) PROVE Covered(w)'
    <3>1. PICK k \in DOMAIN list : list[k] = w  BY <1>2
    <3>2. k # 1 /\ k \in Nat  BY <1>2, <2>1, <2>5, <3>1
    <3>3. k - 1 \in DOMAIN Tail(list) /\ (k - 1) + 1 = k  BY <2>1, <3>2
    <3>4. Tail(list)[k - 1] = w  BY <2>1, <3>1, <3>3
    <3> QED  BY <2>3, <2>4, <3>3, <3>4 DEF Covered
  <2> QED  BY <1>4, <2>1, <2>5
<1> QED
  BY <1>0, <1>3, <1>4 DEF DidChangeWatchedFiles

\* A resumed handler publishes the next document, or is done: the documents
\* it was going to publish it still is, except for that one.
LEMMA ResumeCovers ==
    ASSUME TypeInv, Resume
    PROVE  \/ \E v \in Uri :
                 /\ Publish(v)
                 /\ \A w \in Open(store) \ {v} : Covered(w) => Covered(w)'
           \/ /\ UNCHANGED <<cacheVars, shown>>
              /\ \A w \in Open(store) : Covered(w) => Covered(w)'
<1>1. PICK i \in DOMAIN handlers :
         \/ /\ ListOf(handlers[i]) # <<>>
            /\ handlers' = [handlers EXCEPT ![i].todo = Tail(ListOf(handlers[i]))]
            /\ Publish(Head(ListOf(handlers[i])))
         \/ /\ ListOf(handlers[i]) = <<>>
            /\ handlers' = RemoveAt(handlers, i)
            /\ UNCHANGED <<cacheVars, shown>>
  BY ResumeStep
<1> DEFINE H == [uri : Uri \cup {None}, todo : Seq(Uri) \cup {None}]
           list == ListOf(handlers[i])
<1>2. handlers \in Seq(H)  BY DEF TypeInv
<1>3. list \in Seq(Uri)  BY ListOfType
\* The documents the handler covers are those of its list.
<1>4. ASSUME NEW w \in Open(store), Covered(w)
      PROVE  \/ \E k \in DOMAIN list : list[k] = w
             \/ \E j \in DOMAIN handlers \ {i} :
                   IF handlers[j].todo = None THEN handlers[j].uri # w
                   ELSE \E k \in DOMAIN handlers[j].todo : handlers[j].todo[k] = w
  BY <1>4, ListOfType DEF Covered
<1> HIDE DEF H, list
<1>5. CASE /\ list # <<>>
           /\ handlers' = [handlers EXCEPT ![i].todo = Tail(list)]
           /\ Publish(Head(list))
  <2>1. /\ Head(list) \in Uri /\ Tail(list) \in Seq(Uri)
        /\ \A k \in DOMAIN list : k = 1 \/ k - 1 \in DOMAIN Tail(list)
        /\ \A k \in DOMAIN Tail(list) : Tail(list)[k] = list[k + 1]
        /\ Head(list) = list[1]
        /\ DOMAIN list = 1..Len(list) /\ Len(list) \in Nat
    BY <1>3, <1>5, TailLists
  <2>2. /\ DOMAIN handlers' = DOMAIN handlers
        /\ \A j \in DOMAIN handlers \ {i} : handlers'[j] = handlers[j]
        /\ handlers'[i].todo = Tail(list)
    <3>1. handlers[i] \in H  BY <1>2, ElementOf
    <3>2. [handlers[i] EXCEPT !.todo = Tail(list)].todo = Tail(list)
      BY <3>1 DEF H
    <3>3. handlers' = [handlers EXCEPT ![i] = [handlers[i] EXCEPT !.todo = Tail(list)]]
      BY <1>5
    <3>4. handlers'[i] = [handlers[i] EXCEPT !.todo = Tail(list)]
      BY <1>2, <3>3
    <3>5. /\ DOMAIN handlers' = DOMAIN handlers
          /\ \A j \in DOMAIN handlers \ {i} : handlers'[j] = handlers[j]
      BY <1>2, <3>3
    <3> QED  BY <3>2, <3>4, <3>5
  <2>3. Tail(list) # None
    <3>1. None \notin Seq(Uri)  BY ServerAssumption
    <3> QED  BY <2>1, <3>1
  <2>4. ASSUME NEW w \in Open(store), w # Head(list), Covered(w)
        PROVE  Covered(w)'
    <3>1. CASE \E k \in DOMAIN list : list[k] = w
      <4>1. PICK k \in DOMAIN list : list[k] = w  BY <3>1
      <4>2. k # 1 /\ k \in Nat  BY <2>1, <2>4, <4>1
      <4>3. k - 1 \in DOMAIN Tail(list) /\ (k - 1) + 1 = k  BY <2>1, <4>2
      <4>4. Tail(list)[k - 1] = w  BY <2>1, <4>1, <4>3
      <4> QED  BY <2>2, <2>3, <4>3, <4>4 DEF Covered
    <3>2. CASE \E j \in DOMAIN handlers \ {i} :
                  IF handlers[j].todo = None THEN handlers[j].uri # w
                  ELSE \E k \in DOMAIN handlers[j].todo : handlers[j].todo[k] = w
      BY <2>2, <3>2 DEF Covered
    <3> QED  BY <1>4, <2>4, <3>1, <3>2
  <2> QED  BY <1>5, <2>1, <2>4
<1>6. CASE /\ list = <<>> /\ handlers' = RemoveAt(handlers, i)
           /\ UNCHANGED <<cacheVars, shown>>
  <2>1. /\ handlers' \in Seq(H)
        /\ \A j \in DOMAIN handlers \ {i} :
              \E k \in DOMAIN handlers' : handlers'[k] = handlers[j]
    BY <1>2, <1>6, RemoveAtLists
  <2>2. ASSUME NEW w \in Open(store), Covered(w) PROVE Covered(w)'
    <3>1. PICK j \in DOMAIN handlers \ {i} :
             IF handlers[j].todo = None THEN handlers[j].uri # w
             ELSE \E k \in DOMAIN handlers[j].todo : handlers[j].todo[k] = w
      BY <1>4, <1>6, <2>2
    <3>2. PICK k \in DOMAIN handlers' : handlers'[k] = handlers[j]  BY <2>1
    <3> QED  BY <3>1, <3>2 DEF Covered
  <2> QED  BY <1>6, <2>2
<1> QED  BY <1>1, <1>5, <1>6 DEF list

\* Nothing is published and no table changes.
LEMMA NothingShown ==
    ASSUME TextsShown, ClosedIsClear, ListKept, AgainstShown,
           UNCHANGED <<store, tables, generation, workspace, digest, shown>>,
           \A w \in Open(store) : Covered(w) => Covered(w)'
    PROVE  TextsShown' /\ ClosedIsClear' /\ AgainstShown' /\ ListKept'
<1>1. ListOfOthers' <=> ListOfOthers
  BY DEF ListOfOthers, ListHit, DocstoreFingerprint, FingerprintHit
<1> QED  BY <1>1 DEF TextsShown, ClosedIsClear, ListKept, AgainstShown, Open

LEMMA WatchedShown ==
    ASSUME TypeInv, TypeInv', TextsShown, ClosedIsClear, ListKept, AgainstShown,
           DidChangeWatchedFiles
    PROVE  TextsShown' /\ ClosedIsClear' /\ AgainstShown' /\ ListKept'
<1>1. store' = store  BY WatchedCovers
<1>2. CASE UNCHANGED <<tableVars, cacheVars, handlers, shown>>
  <2>1. UNCHANGED <<tables, generation, workspace, digest, handlers, shown>>
    BY <1>2 DEF tableVars, cacheVars
  <2> QED  BY <1>1, <2>1, NothingShown DEF Covered
<1>3. CASE Refresh /\ Open(store) = {} /\ UNCHANGED <<cacheVars, handlers, shown>>
  <2>1. UNCHANGED <<workspace, shown>>  BY <1>3 DEF cacheVars
  <2>2. TextsShown' /\ ClosedIsClear'
    BY <1>1, <2>1 DEF TextsShown, ClosedIsClear
  <2>3. AgainstShown'  BY <1>1, <1>3 DEF AgainstShown, Open
  <2>4. ListKept'
    BY <1>3, <2>1, RefreshUsable DEF ListUsable, ListKept, TablesFor
  <2> QED  BY <2>2, <2>3, <2>4
<1>4. ASSUME Refresh, NEW v \in Open(store), Publish(v),
             \A w \in Open(store) \ {v} : Covered(w)'
      PROVE  TextsShown' /\ ClosedIsClear' /\ AgainstShown' /\ ListKept'
  <2>1. ListUsable(tables', generation')  BY <1>4, RefreshUsable
  <2>2. v \in Uri  BY DEF Open
  <2> QED  BY <1>1, <1>4, <2>1, <2>2, PublishEffect, PublishedStep
<1> QED  BY <1>2, <1>3, <1>4, WatchedCovers

LEMMA ResumeShown ==
    ASSUME TypeInv, TypeInv', TextsShown, ClosedIsClear, ListKept, AgainstShown,
           Resume
    PROVE  TextsShown' /\ ClosedIsClear' /\ AgainstShown' /\ ListKept'
<1>1. UNCHANGED <<store, tables, generation>>
  BY DEF Resume, docVars, tableVars
<1>2. ASSUME NEW v \in Uri, Publish(v),
             \A w \in Open(store) \ {v} : Covered(w) => Covered(w)'
      PROVE  TextsShown' /\ ClosedIsClear' /\ AgainstShown' /\ ListKept'
  <2>1. ListUsable(tables', generation')
    BY <1>1, RefreshUsable DEF ListUsable, ListKept
  <2>2. \A w \in Uri \ {v} : shown'[w] = shown[w]
    BY <1>2, <2>1, PublishEffect
  <2>3. ListOfOthers => ListOfOthers'  BY <1>1, <1>2, FoundAgain
  <2>4. ASSUME NEW w \in Open(store') \ {v}
        PROVE  Covered(w)' \/ ListOfOthers'
                 \/ (store'[w].text \in Valid =>
                       shown'[w].against = BuildWorkspaceTables(store', tables'))
    <3>1. w \in Open(store) /\ w \in Uri  BY <1>1, <2>4 DEF Open
    <3>2. \/ ~(store[w].text \in Valid)
          \/ Covered(w) \/ ListOfOthers
          \/ shown[w].against = BuildWorkspaceTables(store, tables)
      BY <3>1 DEF AgainstShown
    <3> QED  BY <1>1, <1>2, <2>2, <2>3, <2>4, <3>1, <3>2
  <2> QED  BY <1>1, <1>2, <2>1, <2>4, PublishEffect, PublishedStep
<1>3. ASSUME UNCHANGED <<cacheVars, shown>>,
             \A w \in Open(store) : Covered(w) => Covered(w)'
      PROVE  TextsShown' /\ ClosedIsClear' /\ AgainstShown' /\ ListKept'
  <2>1. UNCHANGED <<digest, workspace, shown>>  BY <1>3 DEF cacheVars
  <2> QED  BY <1>1, <1>3, <2>1, NothingShown
<1> QED  BY <1>2, <1>3, ResumeCovers

LEMMA SymbolShown ==
    ASSUME TypeInv, TextsShown, ClosedIsClear, ListKept, AgainstShown, Symbol
    PROVE  TextsShown' /\ ClosedIsClear' /\ AgainstShown' /\ ListKept'
<1>1. /\ UNCHANGED <<store, tables, generation, workspace, shown, handlers>>
      /\ StoreFingerprint(store')
  BY DEF Symbol, docVars
<1>2. DocstoreFingerprint(store)' = DocstoreFingerprint(store')
  BY <1>1, FingerprintIsStable
<1>3. ListOfOthers' <=> ListOfOthers
  BY <1>1, <1>2 DEF ListOfOthers, ListHit
<1> QED
  BY <1>1, <1>3 DEF TextsShown, ClosedIsClear, ListKept, AgainstShown, Covered, Open

----------------------------------------------------------------------------
(* The tables and the disk.                                                *)

\* A handler leaves the disk alone, and reads it unless there is no project.
LEMMA HandleRefreshes ==
    ASSUME Handle
    PROVE  /\ UNCHANGED <<project, diskVars>>
           /\ project # "none" => tables' \in CollectModels
           /\ inbox # <<>> /\ inbox' = Tail(inbox)
<1>1. /\ UNCHANGED <<project, diskVars>>
      /\ inbox # <<>> /\ inbox' = Tail(inbox)
  BY DEF Handle, DidOpen, DidChange, DidSave, DidClose, DidChangeWatchedFiles,
         Receive
<1>2. project # "none" => Refresh
  BY DEF Handle, DidOpen, DidChange, DidSave, DidClose, DidChangeWatchedFiles
<1> QED  BY <1>1, <1>2 DEF Refresh

LEMMA TablesInit == Init => TablesFollowDisk
  BY DEF Init, TablesFollowDisk, CollectModels, Files

LEMMA TablesStep ==
    ASSUME TypeInv, TablesFollowDisk, [Next]_vars
    PROVE  TablesFollowDisk'
<1> SUFFICES ASSUME project' = "standard"
             PROVE  \/ (tables \in CollectModels)' \/ watch'
                    \/ \E i \in DOMAIN inbox' : inbox'[i].kind = "watched"
  BY DEF TablesFollowDisk
<1>1. CASE Handle
  <2>1. disk' = disk /\ tables' \in CollectModels
    BY <1>1, HandleRefreshes DEF diskVars
  <2> QED  BY <2>1 DEF CollectModels, Files
<1>2. CASE UNCHANGED <<project, disk, tables, inbox, watch>>
  BY <1>2 DEF TablesFollowDisk, CollectModels, Files
<1>3. CASE Resume \/ Symbol \/ UNCHANGED vars
  <2>1. UNCHANGED <<project, disk, tables, inbox, watch>>
    BY <1>3 DEF Resume, Symbol, vars, diskVars, tableVars
  <2> QED  BY <1>2, <2>1
\* A message is added behind those on their way.
<1>4. ASSUME UNCHANGED <<project, disk, tables, watch>>,
             NEW m, inbox' = inbox \o <<m>>
      PROVE  \/ (tables \in CollectModels)' \/ watch'
             \/ \E i \in DOMAIN inbox' : inbox'[i].kind = "watched"
  <2>1. CASE tables \in CollectModels \/ watch
    <3>1. disk' = disk /\ tables' = tables /\ watch' = watch  BY <1>4
    <3>2. CollectModels' = CollectModels  BY <3>1 DEF CollectModels, Files
    <3> QED  BY <2>1, <3>1, <3>2
  <2>2. ASSUME NEW i \in DOMAIN inbox, inbox[i].kind = "watched"
        PROVE  i \in DOMAIN inbox' /\ inbox'[i].kind = "watched"
    <3>1. inbox \in Seq(Message)  BY DEF TypeInv
    <3>2. inbox'[i] = inbox[i] /\ i \in DOMAIN inbox'  BY <1>4, <3>1
    <3> QED  BY <2>2, <3>2
  <2> QED  BY <1>4, <2>1, <2>2 DEF TablesFollowDisk
<1>5. ASSUME NEW u \in Uri, EditorOpen(u) \/ EditorClose(u)
      PROVE  \/ (tables \in CollectModels)' \/ watch'
             \/ \E i \in DOMAIN inbox' : inbox'[i].kind = "watched"
  BY <1>4, <1>5
  DEF EditorOpen, EditorClose, Edit, serverVars, tableVars, diskVars
<1>6. ASSUME NEW u \in Uri, NEW t \in Text, EditorChange(u, t)
      PROVE  \/ (tables \in CollectModels)' \/ watch'
             \/ \E i \in DOMAIN inbox' : inbox'[i].kind = "watched"
  BY <1>4, <1>6 DEF EditorChange, Edit, serverVars, tableVars, diskVars
<1>7. ASSUME NEW u \in Uri, NEW c, NEW time, Write(u, c, time), project' = project
      PROVE  watch'
  BY <1>7 DEF Write
<1>8. CASE Environment
  BY <1>5, <1>6, <1>7, <1>8
  DEF Environment, EditorSave, Edit, DiskWrite, MigrationsChange, Outside, serverVars
<1>9. CASE ClientReports
  <2>1. inbox \in Seq(Message)  BY DEF TypeInv
  <2>2. PICK n \in Nat : n = Len(inbox) + 1  BY <2>1, LenProperty
  <2>3. n \in DOMAIN inbox' /\ inbox'[n] = [kind |-> "watched"]
    BY <1>9, <2>1, <2>2 DEF ClientReports
  <2> QED  BY <2>3
<1> QED  BY <1>1, <1>3, <1>8, <1>9 DEF Next

----------------------------------------------------------------------------
(* What the editor displays.                                               *)

ShownInv ==
    /\ InboxInv /\ TextsShown /\ ClosedIsClear /\ ListKept /\ AgainstShown
    /\ FingerprintKept /\ TablesFollowDisk

LEMMA ShownInvInit == Init => ShownInv
<1> SUFFICES ASSUME Init PROVE ShownInv  OBVIOUS
<1>1. InboxInv /\ TablesFollowDisk  BY InboxInvInit, TablesInit
<1>2. TextsShown /\ ClosedIsClear /\ ListKept /\ AgainstShown /\ FingerprintKept
  BY DEF Init, TextsShown, ClosedIsClear, ListKept, AgainstShown, Open,
         FingerprintKept, OpenedOnly
<1> QED  BY <1>1, <1>2 DEF ShownInv

\* How a step treats the caches FingerprintKept is about.
LEMMA CachesStep ==
    ASSUME [Next]_vars
    PROVE  \/ UNCHANGED <<digest, workspace>>
           \/ /\ StoreFingerprint(store')
              /\ \/ workspace' = workspace
                 \/ workspace' = WorkspaceEntry(store', tables', generation')
<1>1. CASE \E v : Publish(v)
  BY <1>1 DEF Publish
<1>2. CASE Environment \/ ClientReports
  BY <1>2, EnvironmentStep DEF serverVars, cacheVars
<1>3. CASE Symbol
  BY <1>3 DEF Symbol, docVars
<1>4. CASE UNCHANGED vars
  BY <1>4 DEF vars, cacheVars
<1>5. CASE Handle
  BY <1>1, <1>5
  DEF Handle, DidOpen, DidChange, DidSave, DidClose, DidChangeWatchedFiles, cacheVars
<1>6. CASE Resume
  BY <1>1, <1>6 DEF Resume, cacheVars
<1> QED  BY <1>2, <1>3, <1>4, <1>5, <1>6 DEF Next

LEMMA ShownInvStep == ShownInv /\ [Next]_vars => ShownInv'
<1> SUFFICES ASSUME ShownInv, [Next]_vars PROVE ShownInv'  OBVIOUS
<1> USE DEF ShownInv, InboxInv
<1>1. InboxInv' /\ TypeInv'  BY InboxInvStep
<1>2. TablesFollowDisk'  BY TablesStep
<1>3. FingerprintKept'
  <2>1. DocumentStep \/ UNCHANGED docVars  BY OtherStep
  <2> QED  BY <1>1, <2>1, CachesStep, FingerprintStep
<1>4. TextsShown' /\ ClosedIsClear' /\ AgainstShown' /\ ListKept'
  <2> DEFINE m == Head(inbox)
  <2>1. CASE DidOpen
    <3>1. m.uri \in Uri  BY <2>1, HeadMessage DEF DidOpen, Receive
    <3>2. /\ store' = [store EXCEPT ![m.uri] = Document(m.text, m.version)]
          /\ Publish(m.uri) /\ Suspend(m.uri, None) /\ Refresh
      BY <2>1 DEF DidOpen
    <3>3. \A w \in Uri \ {m.uri} : store'[w] = store[w]
      BY <3>1, <3>2 DEF TypeInv
    <3> QED  BY <1>1, <3>1, <3>2, <3>3, NotificationShown
  <2>2. CASE DidChange
    <3>1. m.uri \in Uri  BY <2>2, HeadMessage DEF DidChange, Receive
    <3>2. /\ store' = UpdateFull(store, m.uri, m.text, m.version)
          /\ Publish(m.uri) /\ Suspend(m.uri, None) /\ Refresh
      BY <2>2 DEF DidChange
    <3>3. \A w \in Uri \ {m.uri} : store'[w] = store[w]
      BY <3>1, <3>2 DEF TypeInv, UpdateFull
    <3> QED  BY <1>1, <3>1, <3>2, <3>3, NotificationShown
  <2>3. CASE DidSave
    <3>1. m.uri \in Uri  BY <2>3, HeadMessage DEF DidSave, Receive
    <3>2. /\ store' = store
          /\ Publish(m.uri) /\ Suspend(m.uri, None) /\ Refresh
      BY <2>3 DEF DidSave, docVars
    <3> QED  BY <1>1, <3>1, <3>2, NotificationShown
  <2>4. CASE DidClose
    BY <1>1, <2>4, CloseShown
  <2>5. CASE DidChangeWatchedFiles
    BY <1>1, <2>5, WatchedShown
  <2>6. CASE Resume
    BY <1>1, <2>6, ResumeShown
  <2>7. CASE Symbol
    BY <2>7, SymbolShown
  <2>8. CASE Environment \/ ClientReports \/ UNCHANGED vars
    <3>1. UNCHANGED <<store, shown, handlers, workspace, digest, tables, generation>>
      BY <2>8, EnvironmentStep
      DEF serverVars, vars, docVars, tableVars, cacheVars
    <3> QED
      BY <3>1 DEF TextsShown, ClosedIsClear, ListKept, AgainstShown, Covered, Open,
         ListOfOthers, ListHit, DocstoreFingerprint, FingerprintHit
  <2> QED
    BY <2>1, <2>2, <2>3, <2>4, <2>5, <2>6, <2>7, <2>8 DEF Next, Handle
<1> QED  BY <1>1, <1>2, <1>3, <1>4

\* When nothing is on its way, every open document shows the diagnostics of
\* the text the editor has, validated against the tables as they are, and a
\* document that is not open shows none: however many notifications arrived,
\* in whatever way their handlers took turns at their awaits, although every
\* handler publishes documents it has found before.
THEOREM DiagnosticsAreRight == Spec => []DiagnosticsSettle
<1>1. ShownInv => DiagnosticsSettle
  <2> SUFFICES ASSUME ShownInv PROVE DiagnosticsSettle  OBVIOUS
  <2> USE DEF ShownInv
  <2>1. ASSUME Settled, NEW u \in Open(store)
        PROVE  /\ store[u] = editor[u]
               /\ shown[u].text = store[u].text
               /\ (store[u].text \in Valid /\ ~ListStale) =>
                     shown[u].against = BuildWorkspaceTables(store, tables)
               /\ project = "standard" => tables \in CollectModels
    <3>1. inbox = <<>> /\ handlers = <<>> /\ ~watch  BY <2>1 DEF Settled
    <3>2. u \in Uri /\ store[u] # None  BY DEF Open
    <3>3. store[u] = editor[u]
      BY <3>1, <3>2 DEF InboxInv, InboxFollowsEditor,
    Delivered, LatestIsEditor, ChangeFitsStore, ChangesFollow
    <3>4. shown[u].text = store[u].text  BY <3>2 DEF TextsShown
    <3>5. ASSUME store[u].text \in Valid, ~ListStale
          PROVE  shown[u].against = BuildWorkspaceTables(store, tables)
      <4>1. ~Covered(u)  BY <3>1 DEF Covered
      <4>2. ~ListOfOthers
        <5> SUFFICES ASSUME ListOfOthers PROVE FALSE  OBVIOUS
        <5>1. ~Reopened  BY <3>5 DEF ListStale, ListOfOthers
        <5>2. workspace # None /\ workspace.fingerprint = DocstoreFingerprint(store)
              /\ workspace.docs # Digest(store)
          BY DEF ListOfOthers, ListHit
        <5>3. DocstoreFingerprint(store) = Digest(store)
          BY <5>1, FingerprintHolds DEF InboxInv
        <5> QED  BY <5>1, <5>2, <5>3 DEF FingerprintKept
      <4> QED  BY <3>5, <4>1, <4>2 DEF AgainstShown
    <3>6. project = "standard" => tables \in CollectModels
      BY <3>1 DEF TablesFollowDisk
    <3> QED  BY <3>3, <3>4, <3>5, <3>6
  <2>2. OpenIsCurrent  BY <2>1 DEF OpenIsCurrent
  <2> QED  BY <2>2 DEF DiagnosticsSettle
<1> QED  BY <1>1, ShownInvInit, ShownInvStep, PTL DEF Spec

----------------------------------------------------------------------------
(* What the server keeps in rings of results.  The drift entries, the      *)
(* differences between models and migrations, are read from the disk and   *)
(* cached by the newest modification times there; the symbols of the       *)
(* workspace are keyed by the fingerprint of the open documents alone.     *)

\* The entries for what was read from the disk, given texts of the open
\* documents and a given index.
SourceOf(texts, u) == IF texts[u] # None THEN texts[u] ELSE disk[u]

LocateIn(names, n) ==
    IF names[n] # None THEN names[n]
    ELSE IF \E u \in Files : StemOf[u] = n
         THEN CHOOSE u \in Files : StemOf[u] = n ELSE None

DriftsOf(state, texts, names) ==
    {[uri |-> LocateIn(names, n), table |-> n, applied |-> state.baseline[n],
      model |-> state.models[n],
      source |-> SourceOf(texts, LocateIn(names, n))] :
        n \in {m \in Table : /\ state.baseline[m] # state.models[m]
                             /\ LocateIn(names, m) # None
                             /\ SourceOf(texts, LocateIn(names, m)) # None}}

DiskType ==
    /\ mtime \in [Uri -> Nat] /\ applied_at \in Nat
    /\ applied \in [Table -> Text \cup {None}]
    /\ ghost \in [unseen : BOOLEAN, rewritten : BOOLEAN]

\* Both time stamps of k are at most those of l.
NotLater(k, l) ==
    /\ k \in Nat \X Nat /\ l \in Nat \X Nat
    /\ k[1] <= l[1] /\ k[2] <= l[2]

\* What was loaded was loaded under the present time stamps.
Read == loaded # None /\ loaded.key = MtimeKey

\* As long as every change of the disk advanced a time stamp, what was loaded
\* under the present ones can be read from the disk as it is.
LoadedKept ==
    (~ghost.unseen /\ loaded # None) =>
        /\ NotLater(loaded.key, MtimeKey)
        /\ Read => Loads /\ loaded.value \in LoadedStates

\* The entries remembered under them were found in that.
DriftsKept ==
    (~ghost.unseen /\ drifts # None) =>
        /\ NotLater(drifts.key[1], MtimeKey)
        /\ drifts.key[1] = MtimeKey =>
              /\ Loads /\ Read
              /\ drifts.value = DriftsOf(loaded.value, drifts.docs, drifts.names)

\* Unless a document was opened again, the remembered entries are those of
\* the documents and the index as they are, or of one closed since.
NamesCurrent ==
    (~ghost.unseen /\ drifts # None) =>
        /\ \A u \in Uri : opens[u] = 0 => drifts.docs[u] = None
        /\ (project # "none" /\ ~Reopened /\ drifts.key[1] = MtimeKey) =>
              /\ drifts.key[2] = drifts.docs
              /\ \/ drifts.docs = Digest(store) /\ drifts.names = index.by_name
                 \/ \E u \in Uri : drifts.docs[u] # None /\ store[u] = None

\* The remembered entries would be found, and are those of other documents.
DriftOfOthers ==
    /\ project # "none" /\ drifts # None /\ drifts.key = DriftKey(store)
    /\ drifts.docs # Digest(store) \/ drifts.names # index.by_name

\* The entries as they should be, and a document that shows them.
CurrentDrifts ==
    IF project # "none" /\ Loads THEN Drifts(loaded.value, store, index) ELSE {}

ShowsCurrent(u) ==
    /\ (project # "none" /\ Loads) => Read
    /\ shown[u].drift = {d \in CurrentDrifts : d.uri = u}

\* The client has not reported a change yet, or the server not taken it.
Reporting == watch \/ \E i \in DOMAIN inbox : inbox[i].kind = "watched"

DriftShown ==
    ~ghost.unseen =>
        \A u \in Open(store) :
            \/ Covered(u) \/ DriftOfOthers \/ (project # "none" /\ Reporting)
            \/ ShowsCurrent(u)

----------------------------------------------------------------------------
(* Time stamps.                                                            *)

\* A finite set of numbers that is not empty has a greatest element: of the
\* sets that have none, a smallest one would have none when an element is
\* taken from it either.
LEMMA MaxOfFinite ==
    ASSUME NEW S \in SUBSET Nat, IsFiniteSet(S), S # {}
    PROVE  Max(S) \in S /\ \A x \in S : Max(S) >= x
<1> DEFINE HasMax(T) == \E x \in T : \A y \in T : x >= y
           Bad == {T \in FiniteSubsetsOf(S) : T # {} /\ ~HasMax(T)}
<1>1. S \in FiniteSubsetsOf(S)  BY DEF FiniteSubsetsOf
<1>2. IsWellFoundedOn(StrictSubsetOrdering(S), FiniteSubsetsOf(S))
  BY FS_StrictSubsetOrderingWellFounded
<1>3. ASSUME Bad # {} PROVE FALSE
  <2>1. Bad \subseteq FiniteSubsetsOf(S)  OBVIOUS
  <2>2. \E T \in Bad : \A R \in Bad : ~(<<R, T>> \in StrictSubsetOrdering(S))
    <3> HIDE DEF Bad
    <3> QED  BY <1>2, <1>3, <2>1, WFMin
  <2>3. PICK T \in Bad : \A R \in Bad : ~(<<R, T>> \in StrictSubsetOrdering(S))
    BY <2>2
  <2>4. T \subseteq S /\ IsFiniteSet(T) /\ T # {} /\ ~HasMax(T)
    BY DEF FiniteSubsetsOf
  <2>5. PICK x \in T : TRUE  BY <2>4
  <2> DEFINE R == T \ {x}
  <2>6. IsFiniteSet(R) /\ R \subseteq S /\ R # T
    BY <2>4, <2>5, FS_RemoveElement
  <2>7. <<R, T>> \in StrictSubsetOrdering(S)
    BY <2>4, <2>6 DEF StrictSubsetOrdering
  <2>8. R \notin Bad  BY <2>3, <2>7
  <2>9. R = {} \/ HasMax(R)  BY <2>6, <2>8 DEF FiniteSubsetsOf
  <2>10. CASE R = {}
    <3>1. T = {x} /\ x \in Nat  BY <2>4, <2>5, <2>10
    <3> QED  BY <2>4, <3>1
  <2>11. CASE HasMax(R)
    <3>1. PICK m \in R : \A y \in R : m >= y  BY <2>11
    <3>2. x \in Nat /\ m \in Nat /\ m \in T /\ T \subseteq Nat  BY <2>4, <3>1
    <3>3. CASE m >= x
      <4>1. \A y \in T : m >= y  BY <3>1, <3>3
      <4> QED  BY <2>4, <3>2, <4>1
    <3>4. CASE ~(m >= x)
      <4>1. \A y \in T : x >= y  BY <3>1, <3>2, <3>4
      <4> QED  BY <2>4, <4>1
    <3> QED  BY <3>3, <3>4
  <2> QED  BY <2>9, <2>10, <2>11
<1>4. HasMax(S)  BY <1>1, <1>3
<1> QED  BY <1>4 DEF Max

\* The newest of the modification times of some files.
LEMMA NewestOfFiles ==
    ASSUME NEW times \in [Uri -> Nat], NEW F \in SUBSET Uri
    PROVE  /\ Newest({times[u] : u \in F}) \in Nat
           /\ \A v \in F : Newest({times[u] : u \in F}) >= times[v]
<1> DEFINE S == {times[u] : u \in F}
<1>1. S \subseteq Nat  OBVIOUS
<1>2. IsFiniteSet(S)
  <2>1. IsFiniteSet(F)  BY ServerAssumption, FS_Subset
  <2>2. [u \in F |-> times[u]] \in Surjection(F, S)  BY DEF Surjection
  <2> QED  BY <2>1, <2>2, FS_Surjection
<1>3. CASE S = {}
  <2>1. Newest(S) = 0  BY <1>3 DEF Newest
  <2>2. F = {}  BY <1>3
  <2> QED  BY <2>1, <2>2
<1>4. CASE S # {}
  <2>1. Newest(S) = Max(S)  BY <1>4 DEF Newest
  <2>2. Max(S) \in S /\ \A x \in S : Max(S) >= x
    <3> HIDE DEF S
    <3> QED  BY <1>1, <1>2, <1>4, MaxOfFinite
  <2> QED  BY <1>1, <2>1, <2>2
<1> QED  BY <1>3, <1>4

LEMMA MtimeKeyType ==
    ASSUME TypeInv, DiskType
    PROVE  MtimeKey \in Nat \X Nat
<1>1. Files \ Nested \subseteq Uri  BY DEF Files
<1>2. Newest({mtime[u] : u \in Files \ Nested}) \in Nat
  BY <1>1, NewestOfFiles DEF DiskType
<1>3. applied_at \in Nat  BY DEF DiskType
<1> QED  BY <1>2, <1>3 DEF MtimeKey

\* A change of a model file that is not counted as unseen advances the key.
LEMMA WriteAdvances ==
    ASSUME TypeInv, DiskType, NEW u \in Uri, NEW c \in Text \cup {None},
           NEW time \in Nat, Write(u, c, time), project' = project
    PROVE  /\ DiskType'
           /\ ~ghost'.unseen =>
                 /\ ~ghost.unseen
                 /\ NotLater(MtimeKey, MtimeKey') /\ MtimeKey' # MtimeKey
<1>1. /\ disk' = [disk EXCEPT ![u] = c] /\ mtime' = [mtime EXCEPT ![u] = time]
      /\ applied' = applied /\ applied_at' = applied_at
      /\ ghost' = [ghost EXCEPT
                     !.rewritten = TRUE,
                     !.unseen = @ \/ project = "custom" \/ u \in Nested
                                  \/ c = None \/ time <= MtimeKey[1]]
  BY DEF Write
<1>2. ghost'.unseen = (ghost.unseen \/ project = "custom" \/ u \in Nested
                         \/ c = None \/ time <= MtimeKey[1])
  BY <1>1 DEF DiskType
<1>3. DiskType'
  <2>1. mtime' \in [Uri -> Nat]  BY <1>1 DEF DiskType
  <2>2. ghost' \in [unseen : BOOLEAN, rewritten : BOOLEAN]
    BY <1>1 DEF DiskType
  <2> QED  BY <1>1, <2>1, <2>2 DEF DiskType
<1>4. ASSUME ~ghost'.unseen
      PROVE  /\ ~ghost.unseen
             /\ NotLater(MtimeKey, MtimeKey') /\ MtimeKey' # MtimeKey
  <2>1. /\ ~ghost.unseen /\ project # "custom" /\ u \notin Nested /\ c # None
        /\ ~(time <= MtimeKey[1])
    BY <1>2, <1>4
  <2> DEFINE F == {v \in Uri : disk'[v] # None} \ Nested
  <2>2. u \in F /\ F \subseteq Uri  BY <1>1, <2>1 DEF TypeInv
  <2>3. mtime' \in [Uri -> Nat] /\ mtime'[u] = time
    BY <1>1, <1>3 DEF DiskType
  <2> HIDE DEF F
  <2>4. /\ Newest({mtime'[v] : v \in F}) \in Nat
        /\ Newest({mtime'[v] : v \in F}) >= time
    BY <2>2, <2>3, NewestOfFiles
  <2>5. MtimeKey' = <<Newest({mtime'[v] : v \in F}), applied_at>>
    BY <1>1, <2>1 DEF MtimeKey, Files, F
  <2>6. MtimeKey \in Nat \X Nat /\ MtimeKey[2] = applied_at
    BY MtimeKeyType DEF MtimeKey
  <2>7. applied_at \in Nat  BY DEF DiskType
  <2> QED  BY <2>1, <2>4, <2>5, <2>6, <2>7 DEF NotLater
<1> QED  BY <1>3, <1>4

\* A table that is loaded has the text of some file.
LEMMA LoadedModelsType ==
    ASSUME disk \in [Uri -> Text \cup {None}]
    PROVE  LoadedModels \subseteq [Table -> Text \cup {None}]
<1> DEFINE texts == {disk[u] : u \in Files}
<1>1. texts \subseteq Text  BY DEF Files
<1>2. LoadedModels \subseteq [Table -> texts \cup {None}]  BY DEF LoadedModels
<1> HIDE DEF texts
<1>3. [Table -> texts \cup {None}] \subseteq [Table -> Text \cup {None}]  BY <1>1
<1> QED  BY <1>2, <1>3

LEMMA DiskTypeInit == Init => DiskType
<1> SUFFICES ASSUME Init PROVE DiskType  OBVIOUS
<1>1. LoadedModels \subseteq [Table -> Text \cup {None}]
  BY LoadedModelsType, ServerAssumption DEF Init
<1>2. applied \in [Table -> Text \cup {None}]  BY <1>1 DEF Init
<1> QED  BY <1>2 DEF Init, DiskType

diskContents == <<disk, mtime, applied, applied_at>>

\* A step leaves the disk alone, or the client is going to report it, and
\* unless it is counted as unseen it advances the key.
LEMMA DiskStep ==
    ASSUME TypeInv, DiskType, [Next]_vars
    PROVE  /\ DiskType' /\ project' = project
           /\ ~ghost'.unseen =>
                 /\ ~ghost.unseen
                 /\ \/ UNCHANGED diskContents
                    \/ /\ NotLater(MtimeKey, MtimeKey') /\ MtimeKey' # MtimeKey
                       /\ watch' /\ UNCHANGED serverVars
<1>1. CASE UNCHANGED <<project, diskContents, ghost>>
  BY <1>1 DEF diskContents, DiskType
<1>2. CASE Handle \/ Resume \/ Symbol \/ UNCHANGED vars \/ ClientReports
  <2>1. UNCHANGED <<project, diskContents, ghost>>
    BY <1>2 DEF Handle, DidOpen, DidChange, DidSave, DidClose,
       DidChangeWatchedFiles, Receive, Resume, Symbol, ClientReports, serverVars,
       vars, diskVars, diskContents
  <2> QED  BY <1>1, <2>1
<1>3. ASSUME NEW u \in Uri, EditorOpen(u) \/ EditorClose(u)
      PROVE  UNCHANGED <<project, diskContents, ghost>>
  BY <1>3 DEF EditorOpen, EditorClose, Edit, serverVars, diskVars, diskContents
<1>4. ASSUME NEW u \in Uri, NEW t \in Text, EditorChange(u, t)
      PROVE  UNCHANGED <<project, diskContents, ghost>>
  BY <1>4 DEF EditorChange, Edit, serverVars, diskVars, diskContents
<1>5. ASSUME NEW u \in Uri, NEW c \in Text \cup {None}, NEW time \in Nat,
             Write(u, c, time), UNCHANGED serverVars
      PROVE  /\ DiskType' /\ project' = project
             /\ ~ghost'.unseen =>
                   /\ ~ghost.unseen
                   /\ NotLater(MtimeKey, MtimeKey') /\ MtimeKey' # MtimeKey
                   /\ watch' /\ UNCHANGED serverVars
  <2>1. project' = project  BY <1>5 DEF serverVars
  <2>2. /\ DiskType'
        /\ ~ghost'.unseen => /\ ~ghost.unseen
                             /\ NotLater(MtimeKey, MtimeKey') /\ MtimeKey' # MtimeKey
    BY <1>5, <2>1, WriteAdvances
  <2>3. ~ghost'.unseen => watch'
    BY <1>5 DEF Write, DiskType
  <2> QED  BY <1>5, <2>1, <2>2, <2>3
<1>6. ASSUME NEW u \in Uri, EditorSave(u)
      PROVE  /\ editor[u].text \in Text \cup {None} /\ Now \in Nat
             /\ Write(u, editor[u].text, Now) /\ UNCHANGED serverVars
  BY <1>6, ServerAssumption DEF EditorSave, Edit, TypeInv, Documents
<1>7. ASSUME NEW u \in Uri, NEW c \in Restored, NEW time \in 0..Now,
             DiskWrite(u, c, time)
      PROVE  /\ c \in Text \cup {None} /\ time \in Nat
             /\ Write(u, c, time) /\ UNCHANGED serverVars
  BY <1>7, ServerAssumption DEF DiskWrite, Outside
<1>8. ASSUME NEW b \in [Table -> Text \cup {None}], NEW time \in Nat,
             MigrationsChange(b, time)
      PROVE  /\ DiskType' /\ project' = project
             /\ ~ghost'.unseen =>
                   /\ ~ghost.unseen
                   /\ NotLater(MtimeKey, MtimeKey') /\ MtimeKey' # MtimeKey
                   /\ watch' /\ UNCHANGED serverVars
  <2>1. /\ applied' = b /\ applied_at' = time /\ watch' = TRUE
        /\ ghost' = [ghost EXCEPT !.unseen = @ \/ time <= applied_at]
        /\ disk' = disk /\ mtime' = mtime /\ UNCHANGED serverVars
    BY <1>8 DEF MigrationsChange, Outside
  <2>2. project' = project  BY <2>1 DEF serverVars
  <2>3. ghost'.unseen = (ghost.unseen \/ time <= applied_at)
    BY <2>1 DEF DiskType
  <2>4. ghost' \in [unseen : BOOLEAN, rewritten : BOOLEAN]
    BY <2>1 DEF DiskType
  <2>5. DiskType'  BY <2>1, <2>4 DEF DiskType
  <2>6. MtimeKey' = <<MtimeKey[1], time>>
    BY <2>1, <2>2 DEF MtimeKey, Files
  <2>7. MtimeKey \in Nat \X Nat /\ MtimeKey[2] = applied_at
    BY MtimeKeyType DEF MtimeKey
  <2>8. ASSUME ~ghost'.unseen
        PROVE  /\ ~ghost.unseen
               /\ NotLater(MtimeKey, MtimeKey') /\ MtimeKey' # MtimeKey
    <3>1. ~ghost.unseen /\ ~(time <= applied_at)  BY <2>3, <2>8
    <3> QED  BY <2>6, <2>7, <3>1 DEF NotLater
  <2> QED  BY <2>1, <2>2, <2>5, <2>8
<1>9. LoadedModels \subseteq [Table -> Text \cup {None}]
  BY LoadedModelsType DEF TypeInv
<1>10. [n \in Table |-> None] \in [Table -> Text \cup {None}]  OBVIOUS
<1>11. Now \in Nat /\ 0 \in Nat  BY ServerAssumption
<1>12. CASE Environment
  BY <1>1, <1>3, <1>4, <1>5, <1>6, <1>7, <1>8, <1>9, <1>10, <1>11, <1>12
  DEF Environment
<1> QED  BY <1>2, <1>12 DEF Next

----------------------------------------------------------------------------
(* The entries and what they are computed from.                            *)

LEMMA DriftsAreOf ==
    ASSUME TypeInv, NEW state, NEW docs \in [Uri -> Documents \cup {None}], NEW idx,
           idx.by_name \in [Table -> Uri \cup {None}]
    PROVE  Drifts(state, docs, idx) = DriftsOf(state, Digest(docs), idx.by_name)
<1>2. \A n \in Table : LocateIn(idx.by_name, n) = Locate(idx, n)
  BY DEF LocateIn, Locate
<1>3. ASSUME NEW n \in Table PROVE Locate(idx, n) \in Uri \cup {None}
  BY DEF Locate, Files
<1>4. ASSUME NEW u \in Uri PROVE SourceOf(Digest(docs), u) = Source(docs, u)
  BY ServerAssumption DEF SourceOf, Source, Digest, Documents
<1>5. ASSUME NEW n \in Table, Locate(idx, n) # None
      PROVE  SourceOf(Digest(docs), LocateIn(idx.by_name, n))
                = Source(docs, Locate(idx, n))
  BY <1>2, <1>3, <1>4, <1>5
<1> DEFINE A == {m \in Table : /\ state.baseline[m] # state.models[m]
                               /\ Locate(idx, m) # None
                               /\ Source(docs, Locate(idx, m)) # None}
           B == {m \in Table : /\ state.baseline[m] # state.models[m]
                     /\ LocateIn(idx.by_name, m) # None
                     /\ SourceOf(Digest(docs), LocateIn(idx.by_name, m)) # None}
           fA(n) == [uri |-> Locate(idx, n), table |-> n,
                     applied |-> state.baseline[n], model |-> state.models[n],
                     source |-> Source(docs, Locate(idx, n))]
           fB(n) == [uri |-> LocateIn(idx.by_name, n), table |-> n,
                     applied |-> state.baseline[n], model |-> state.models[n],
                     source |-> SourceOf(Digest(docs), LocateIn(idx.by_name, n))]
<1>6. A = B  BY <1>2, <1>5
<1>7. \A n \in A : n \in Table /\ fA(n) = fB(n)  BY <1>2, <1>5
<1>8. Drifts(state, docs, idx) = {fA(n) : n \in A}
  BY DEF Drifts
<1>9. DriftsOf(state, Digest(docs), idx.by_name) = {fB(n) : n \in B}
  BY DEF DriftsOf
<1> HIDE DEF A, B, fA, fB
<1> QED  BY <1>6, <1>7, <1>8, <1>9

\* While the disk is as it is, so is what can be read from it.
LEMMA SameDisk ==
    ASSUME UNCHANGED diskContents, UNCHANGED project
    PROVE  /\ MtimeKey' = MtimeKey /\ Loads' = Loads /\ LoadedStates' = LoadedStates
           /\ \A state, texts, names :
                 DriftsOf(state, texts, names)' = DriftsOf(state, texts, names)
           /\ CurrentDrifts' = IF project # "none" /\ Loads
                               THEN Drifts(loaded'.value, store', index') ELSE {}
<1> USE DEF diskContents
<1>1. MtimeKey' = MtimeKey  BY DEF MtimeKey, Files
<1>2. Loads' = Loads  BY DEF Loads, Files
<1>3. LoadedModels' = LoadedModels  BY DEF LoadedModels, Files
<1>4. LoadedStates' = LoadedStates  BY <1>3 DEF LoadedStates
<1>5. \A state, texts, names :
         DriftsOf(state, texts, names)' = DriftsOf(state, texts, names)
  BY DEF DriftsOf, SourceOf, LocateIn, Files
<1>6. Drifts(loaded.value, store, index)' = Drifts(loaded'.value, store', index')
  BY DEF Drifts, Locate, Source, Files
<1> QED  BY <1>1, <1>2, <1>4, <1>5, <1>6 DEF CurrentDrifts

\* Something can always be read: of the files that declare a table, any.
LEMMA SomethingLoads == LoadedStates # {}
<1> DEFINE declared(n) == {disk[u] : u \in {v \in Files : NameOf[disk[v]] = n}}
           texts == {disk[u] : u \in Files}
           models == [n \in Table |-> IF declared(n) = {} THEN None
                                      ELSE CHOOSE t \in declared(n) : TRUE]
<1>1. \A n \in Table : declared(n) \subseteq texts  OBVIOUS
<1>2. ASSUME NEW n \in Table
      PROVE  IF declared(n) = {} THEN models[n] = None
             ELSE models[n] \in declared(n)
  <2> HIDE DEF declared
  <2> QED  OBVIOUS
<1>3. models \in [Table -> texts \cup {None}]
  <2> HIDE DEF declared, texts
  <2> QED  BY <1>1
<1> HIDE DEF models
<1>4. models \in LoadedModels  BY <1>2, <1>3 DEF LoadedModels
<1> QED  BY <1>4 DEF LoadedStates

\* What the loaded state is taken from.
LEMMA LoadedNow ==
    ASSUME TypeInv, DiskType, ~ghost.unseen, LoadedKept, NEW entry \in LoadedEntries
    PROVE  /\ entry = None => ~Loads
           /\ entry # None => /\ Loads /\ entry.value \in LoadedStates
                              /\ entry.key = MtimeKey
           /\ Read => entry = loaded
<1>1. MtimeKey \in Nat \X Nat  BY MtimeKeyType
<1>2. CASE Read
  <2>1. entry = loaded  BY <1>2 DEF LoadedEntries, Read
  <2> QED  BY <1>2, <2>1 DEF LoadedKept, Read
<1>3. CASE ~Read /\ ~Loads
  BY <1>3 DEF LoadedEntries, Read
<1>4. CASE ~Read /\ Loads
  <2>1. PICK state \in LoadedStates : entry = [key |-> MtimeKey, value |-> state]
    BY <1>4 DEF LoadedEntries, Read
  <2>2. state \in [models : [Table -> Text \cup {None}],
                   baseline : [Table -> Text \cup {None}]]
    BY LoadedModelsType DEF LoadedStates, TypeInv, DiskType
  <2>3. entry # None  BY <1>1, <2>1, <2>2, ServerAssumption
  <2> QED  BY <1>4, <2>1, <2>3
<1> QED  BY <1>2, <1>3, <1>4

\* What a handler publishes: the entries as they should be, unless the
\* remembered ones are found and are those of other documents.
LEMMA PublishDrift ==
    ASSUME TypeInv, TypeInv', DiskType, NEW v \in Uri, Publish(v),
           UNCHANGED diskContents, UNCHANGED project, UNCHANGED ghost,
           ~ghost.unseen, LoadedKept, DriftsKept
    PROVE  /\ LoadedKept' /\ DriftsKept' /\ (Read => loaded' = loaded)
           /\ \/ drifts' = drifts
              \/ /\ drifts'.docs = Digest(store') /\ drifts'.names = index'.by_name
                 /\ drifts'.key = <<MtimeKey, DocstoreFingerprint(store')>>
           /\ (/\ project # "none" /\ Loads /\ drifts # None
               /\ drifts.key # <<MtimeKey, DocstoreFingerprint(store')>>) =>
                 /\ drifts'.docs = Digest(store') /\ drifts'.names = index'.by_name
                 /\ drifts'.key = <<MtimeKey, DocstoreFingerprint(store')>>
           /\ store'[v] # None => DriftOfOthers' \/ ShowsCurrent(v)'
<1>0. PICK entry \in LoadedEntries :
         /\ shown' = [shown EXCEPT ![v] =
               ComputeLspDiagnostics(v, store',
                   WorkspaceEntry(store', tables', generation'),
                   DriftResult(store', index', entry).value)]
         /\ loaded' = DriftResult(store', index', entry).state
         /\ drifts' = DriftResult(store', index', entry).result
  BY DEF Publish
<1> DEFINE r == DriftResult(store', index', entry)
           f == Drifts(entry.value, store', index')
           k == <<MtimeKey, DocstoreFingerprint(store')>>
           n == [key |-> k, value |-> f, docs |-> Digest(store'),
                 names |-> index'.by_name]
<1>1. loaded' = r.state /\ drifts' = r.result /\ StoreFingerprint(store')
  BY <1>0 DEF Publish
<1>2. DriftKey(store') = k /\ DriftKey(store)' = k
  BY <1>1, SameDisk, FingerprintIsStable DEF DriftKey
<1>3. /\ MtimeKey' = MtimeKey /\ Loads' = Loads /\ LoadedStates' = LoadedStates
      /\ CurrentDrifts' = IF project # "none" /\ Loads
                          THEN Drifts(loaded'.value, store', index') ELSE {}
  BY SameDisk
<1>4. \A state : Drifts(state, store', index')
                    = DriftsOf(state, Digest(store'), index'.by_name)
  BY DriftsAreOf DEF TypeInv
<1>5. \A state, texts, names :
         DriftsOf(state, texts, names)' = DriftsOf(state, texts, names)
  BY SameDisk
<1>6. NotLater(MtimeKey, MtimeKey)  BY MtimeKeyType DEF NotLater
<1>7. /\ entry = None => ~Loads
      /\ entry # None => /\ Loads /\ entry.value \in LoadedStates
                         /\ entry.key = MtimeKey
      /\ Read => entry = loaded
  BY LoadedNow
<1>8. r = IF project = "none"
          THEN [value |-> {}, state |-> loaded, result |-> drifts]
          ELSE IF drifts # None /\ drifts.key = k
          THEN [value |-> drifts.value, state |-> loaded, result |-> drifts]
          ELSE IF entry = None
          THEN [value |-> {}, state |-> loaded, result |-> drifts]
          ELSE [value |-> f, state |-> entry, result |-> n]
  BY <1>2 DEF DriftResult
<1>9. /\ n.key = k /\ n.value = f /\ n.docs = Digest(store')
      /\ n.names = index'.by_name /\ k[1] = MtimeKey
  OBVIOUS
<1>10. store'[v] # None => shown'[v].drift = {d \in r.value : d.uri = v}
  <2>1. shown'[v] = ComputeLspDiagnostics(v, store',
                       WorkspaceEntry(store', tables', generation'), r.value)
    BY <1>0 DEF TypeInv
  <2> HIDE DEF r
  <2> QED  BY <2>1 DEF ComputeLspDiagnostics
<1>11. ASSUME r.value = CurrentDrifts', (project # "none" /\ Loads) => Read'
       PROVE  store'[v] # None => ShowsCurrent(v)'
  <2> HIDE DEF r
  <2> QED  BY <1>3, <1>10, <1>11 DEF ShowsCurrent
<1>12. loaded' = loaded => Read' = Read  BY <1>3 DEF Read
<1> HIDE DEF r, f, n
<1>13. ASSUME loaded' = loaded, drifts' = drifts PROVE LoadedKept' /\ DriftsKept'
  <2>1. LoadedKept'  BY <1>3, <1>12, <1>13 DEF LoadedKept
  <2>2. DriftsOf(loaded.value, drifts.docs, drifts.names)'
           = DriftsOf(loaded.value, drifts.docs, drifts.names)
    BY <1>5, <1>13
  <2> QED  BY <1>3, <1>12, <1>13, <2>1, <2>2 DEF DriftsKept
<1>14. CASE project = "none"
  <2>1. r.value = {} /\ loaded' = loaded /\ drifts' = drifts
    BY <1>1, <1>8, <1>14
  <2> QED  BY <1>3, <1>11, <1>13, <1>14, <2>1
<1>15. CASE project # "none" /\ drifts # None /\ drifts.key = k
  <2>1. r.value = drifts.value /\ loaded' = loaded /\ drifts' = drifts
    BY <1>1, <1>8, <1>15
  <2>2. /\ Loads /\ Read
        /\ drifts.value = DriftsOf(loaded.value, drifts.docs, drifts.names)
    BY <1>9, <1>15 DEF DriftsKept
  <2>3. CASE drifts.docs = Digest(store') /\ drifts.names = index'.by_name
    <3>1. r.value = CurrentDrifts'  BY <1>3, <1>4, <1>15, <2>1, <2>2, <2>3
    <3> QED  BY <1>11, <1>12, <1>13, <1>15, <2>1, <2>2, <3>1
  <2>4. CASE ~(drifts.docs = Digest(store') /\ drifts.names = index'.by_name)
    <3>1. DriftOfOthers'
      BY <1>2, <1>15, <2>1, <2>4 DEF DriftOfOthers, Digest
    <3> QED  BY <1>13, <1>15, <2>1, <3>1
  <2> QED  BY <2>3, <2>4
<1>16. CASE /\ project # "none" /\ ~(drifts # None /\ drifts.key = k)
            /\ entry = None
  <2>1. r.value = {} /\ loaded' = loaded /\ drifts' = drifts
    BY <1>1, <1>8, <1>16
  <2>2. ~Loads  BY <1>7, <1>16
  <2> QED  BY <1>3, <1>11, <1>13, <1>16, <2>1, <2>2
<1>17. CASE /\ project # "none" /\ ~(drifts # None /\ drifts.key = k)
            /\ entry # None
  <2>1. r.value = f /\ loaded' = entry /\ drifts' = n
    BY <1>1, <1>8, <1>17
  <2>2. Loads /\ entry.value \in LoadedStates /\ entry.key = MtimeKey
    BY <1>7, <1>17
  <2>3. Read'  BY <1>3, <1>17, <2>1, <2>2 DEF Read
  <2>4. LoadedKept'  BY <1>3, <1>6, <2>1, <2>2 DEF LoadedKept
  <2>5. DriftsOf(loaded.value, drifts.docs, drifts.names)'
           = DriftsOf(loaded'.value, drifts'.docs, drifts'.names)
    BY <1>5
  <2>6. f = DriftsOf(entry.value, Digest(store'), index'.by_name)
    BY <1>4 DEF f
  <2>7. DriftsKept'
    BY <1>3, <1>6, <1>9, <2>1, <2>2, <2>3, <2>5, <2>6 DEF DriftsKept
  <2>8. r.value = CurrentDrifts'  BY <1>3, <1>17, <2>1, <2>2 DEF f
  <2> QED  BY <1>7, <1>9, <1>11, <1>17, <2>1, <2>3, <2>4, <2>7, <2>8
<1> QED  BY <1>14, <1>15, <1>16, <1>17

----------------------------------------------------------------------------
(* The index the entries were computed with.                               *)

\* A document is opened for the first time, or its text changes, or the
\* store and the index stay as they are.
Moved ==
    \/ UNCHANGED <<store, index>>
    \/ \E u \in Uri :
          /\ store'[u] # None /\ \A w \in Uri \ {u} : store'[w] = store[w]
          /\ opens[u] = 0 \/ (store[u] # None /\ store'[u].text # store[u].text)

LEMMA PublishNames ==
    ASSUME TypeInv, TypeInv', DiskType, NEW v \in Uri, Publish(v),
           UNCHANGED diskContents, UNCHANGED project, UNCHANGED ghost,
           LoadedKept, DriftsKept, NamesCurrent, InboxFollowsEditor,
           FingerprintKept, DocumentStep \/ UNCHANGED docVars,
           ~Reopened' => Moved
    PROVE  NamesCurrent'
<1>1. /\ OpenedOnly(store', opens') /\ \A u \in Uri : opens'[u] >= opens[u]
      /\ opens \in [Uri -> Nat] /\ opens' \in [Uri -> Nat]
  BY DocumentsAdvance DEF FingerprintKept, TypeInv
<1>2. \A u \in Uri : Digest(store')[u] # None <=> store'[u] # None
  BY ServerAssumption DEF Digest, TypeInv, Documents
<1>3. \A u \in Uri : opens'[u] = 0 => Digest(store')[u] = None /\ opens[u] = 0
  BY <1>1, <1>2 DEF OpenedOnly
<1>4. Reopened => Reopened'  BY <1>1 DEF Reopened
<1>5. ~Reopened' => DocstoreFingerprint(store') = Digest(store')
  BY FingerprintNow
<1>6. MtimeKey' = MtimeKey  BY SameDisk
<1> DEFINE Fresh == /\ drifts'.docs = Digest(store')
                    /\ drifts'.names = index'.by_name
                    /\ drifts'.key = <<MtimeKey, DocstoreFingerprint(store')>>
<1>7. Digest(store)' = Digest(store')  OBVIOUS
<1>8. CASE ~ghost.unseen /\ Fresh
  <2>1. drifts'.key[2] = DocstoreFingerprint(store')  BY <1>8
  <2> QED  BY <1>3, <1>5, <1>7, <1>8, <2>1 DEF NamesCurrent
<1>9. CASE ~ghost.unseen /\ drifts' = drifts /\ ~Fresh
  <2>1. (project # "none" /\ Loads /\ drifts # None)
           => drifts.key = <<MtimeKey, DocstoreFingerprint(store')>>
    BY <1>9, PublishDrift
  <2> SUFFICES ASSUME drifts # None PROVE NamesCurrent'
    BY <1>9 DEF NamesCurrent
  <2>2. \A u \in Uri : opens'[u] = 0 => drifts'.docs[u] = None
    BY <1>3, <1>9 DEF NamesCurrent
  <2>3. ASSUME project # "none", ~Reopened', drifts.key[1] = MtimeKey
        PROVE  /\ drifts.key[2] = drifts.docs
               /\ drifts.docs = Digest(store') /\ drifts.names = index'.by_name
    <3>1. Loads  BY <1>9, <2>3 DEF DriftsKept
    <3>2. /\ drifts.key[2] = drifts.docs
          /\ \/ drifts.docs = Digest(store) /\ drifts.names = index.by_name
             \/ \E u \in Uri : drifts.docs[u] # None /\ store[u] = None
          /\ \A u \in Uri : opens[u] = 0 => drifts.docs[u] = None
      BY <1>4, <1>9, <2>3 DEF NamesCurrent
    <3>3. drifts.docs = Digest(store')
      BY <1>5, <2>1, <2>3, <3>1, <3>2
    <3>4. \A u \in Uri : Digest(store)[u] = IF store[u] = None THEN None
                                            ELSE store[u].text
      BY DEF Digest
    <3>5. \A u \in Uri : Digest(store')[u] = IF store'[u] = None THEN None
                                             ELSE store'[u].text
      BY DEF Digest
    <3>6. CASE UNCHANGED <<store, index>>
      BY <1>2, <3>2, <3>3, <3>6
    <3>7. ASSUME NEW u \in Uri, store'[u] # None,
                 \A w \in Uri \ {u} : store'[w] = store[w],
                 opens[u] = 0 \/ (store[u] # None /\ store'[u].text # store[u].text)
          PROVE  FALSE
      <4>1. store[u] # None /\ store'[u].text # store[u].text
        BY <1>2, <3>2, <3>3, <3>7
      <4>2. drifts.docs # Digest(store)  BY <3>3, <3>4, <3>5, <3>7, <4>1
      <4>3. PICK w \in Uri : drifts.docs[w] # None /\ store[w] = None
        BY <3>2, <4>2
      <4>4. w # u /\ store'[w] = None  BY <3>7, <4>1, <4>3
      <4> QED  BY <1>2, <3>3, <4>3, <4>4
    <3> QED  BY <2>3, <3>2, <3>3, <3>6, <3>7 DEF Moved
  <2> QED  BY <1>6, <1>7, <1>9, <2>2, <2>3 DEF NamesCurrent
<1>10. ghost.unseen \/ Fresh \/ drifts' = drifts  BY PublishDrift
<1> QED  BY <1>8, <1>9, <1>10 DEF NamesCurrent

----------------------------------------------------------------------------
(* What a step does to the entries.                                        *)

\* A document is published: for the others either a handler is going to be,
\* or nothing but the caches changed.
Publishes(v) ==
    /\ Publish(v) /\ UNCHANGED <<project, diskVars, ghost>>
    /\ ~Reopened' => Moved
    /\ \/ \A w \in Open(store') \ {v} : Covered(w)'
       \/ /\ UNCHANGED <<docVars, inbox>>
          /\ \A w \in Open(store) \ {v} : Covered(w) => Covered(w)'

\* A document is closed.
Closes(v) ==
    /\ UNCHANGED <<project, diskVars, ghost, cacheVars, opens>>
    /\ store' = [store EXCEPT ![v] = None] /\ index' = Release(index, v)
    /\ \A w \in Open(store') : Covered(w)'

\* Nothing is published.
Waits ==
    /\ UNCHANGED <<docVars, loaded, drifts, shown>>
    /\ UNCHANGED digest \/ StoreFingerprint(store')
    /\ \A w \in Open(store) : Covered(w) => Covered(w)'
    /\ Reporting => Reporting' \/ project = "none" \/ Open(store) = {}

LEMMA HandleDrift ==
    ASSUME TypeInv, TypeInv', InboxFollowsEditor, OpenedOnly(store, opens), Handle
    PROVE  Waits \/ \E v \in Uri : Publishes(v) \/ Closes(v)
<1> DEFINE m == Head(inbox)
<1>1. Open(store') \subseteq Uri  BY DEF Open
<1>2. CASE DidOpen
  <2>1. m.uri \in Uri /\ m.text \in Text /\ m.version \in Nat
    BY <1>2, HeadMessage DEF DidOpen, Receive
  <2>2. /\ store' = [store EXCEPT ![m.uri] = Document(m.text, m.version)]
        /\ opens' = [opens EXCEPT ![m.uri] = @ + 1]
        /\ Publish(m.uri) /\ Suspend(m.uri, None)
        /\ UNCHANGED <<project, diskVars, ghost>>
    BY <1>2 DEF DidOpen, Receive
  <2>3. Document(m.text, m.version) # None
    BY <2>1, ServerAssumption DEF Document
  <2>4. ASSUME ~Reopened' PROVE opens[m.uri] = 0
    <3>1. opens[m.uri] \in Nat /\ opens'[m.uri] = opens[m.uri] + 1
      BY <2>1, <2>2 DEF TypeInv
    <3>2. ~(opens'[m.uri] > 1)  BY <2>1, <2>4 DEF Reopened
    <3> QED  BY <3>1, <3>2
  <2>5. ~Reopened' => Moved
    BY <2>1, <2>2, <2>3, <2>4 DEF Moved, TypeInv
  <2>6. \A w \in Uri \ {m.uri} : Covered(w)'  BY <2>1, <2>2, SuspendCovers
  <2> HIDE DEF m
  <2> QED  BY <1>1, <2>1, <2>2, <2>5, <2>6 DEF Publishes
<1>3. CASE DidChange
  <2>1. m.uri \in Uri /\ m.text \in Text /\ m.version \in Nat
    BY <1>3, HeadMessage DEF DidChange, Receive
  <2>2. /\ Publish(m.uri) /\ Suspend(m.uri, None)
        /\ UNCHANGED <<project, diskVars, ghost>>
    BY <1>3 DEF DidChange, Receive
  <2>3. /\ store[m.uri] # None /\ store[m.uri].text # m.text
        /\ store' = [store EXCEPT ![m.uri] = Document(m.text, m.version)]
    BY <1>3, ChangeAdvances
  <2>4. Document(m.text, m.version) # None
        /\ Document(m.text, m.version).text = m.text
    BY <2>1, ServerAssumption DEF Document
  <2>5. Moved  BY <2>1, <2>3, <2>4 DEF Moved, TypeInv
  <2>6. \A w \in Uri \ {m.uri} : Covered(w)'  BY <2>1, <2>2, SuspendCovers
  <2> HIDE DEF m
  <2> QED  BY <1>1, <2>1, <2>2, <2>5, <2>6 DEF Publishes
<1>4. CASE DidSave
  <2>1. m.uri \in Uri  BY <1>4, HeadMessage DEF DidSave, Receive
  <2>2. /\ Publish(m.uri) /\ Suspend(m.uri, None) /\ UNCHANGED docVars
        /\ UNCHANGED <<project, diskVars, ghost>>
    BY <1>4 DEF DidSave, Receive
  <2>3. Moved  BY <2>2 DEF Moved, docVars
  <2>4. \A w \in Uri \ {m.uri} : Covered(w)'  BY <2>1, <2>2, SuspendCovers
  <2> HIDE DEF m
  <2> QED  BY <1>1, <2>1, <2>2, <2>3, <2>4 DEF Publishes
<1>5. CASE DidClose
  <2>1. m.uri \in Uri  BY <1>5, HeadMessage DEF DidClose, Receive
  <2>2. /\ Suspend(m.uri, None) /\ opens' = opens
        /\ UNCHANGED <<project, diskVars, ghost, cacheVars>>
        /\ store' = [store EXCEPT ![m.uri] = None]
        /\ index' = Release(index, m.uri)
    BY <1>5 DEF DidClose, Receive
  <2>3. \A w \in Uri \ {m.uri} : Covered(w)'  BY <2>1, <2>2, SuspendCovers
  <2>4. m.uri \notin Open(store')  BY <2>1, <2>2 DEF Open, TypeInv
  <2> HIDE DEF m
  <2> QED  BY <1>1, <2>1, <2>2, <2>3, <2>4 DEF Closes
<1>6. CASE DidChangeWatchedFiles
  <2>1. UNCHANGED docVars /\ UNCHANGED <<project, diskVars, ghost>>
    BY <1>6 DEF DidChangeWatchedFiles, Receive
  <2>2. /\ store' = store
        /\ \/ UNCHANGED <<tableVars, cacheVars, handlers, shown>> /\ project = "none"
           \/ Refresh /\ Open(store) = {} /\ UNCHANGED <<cacheVars, handlers, shown>>
           \/ /\ Refresh
              /\ \E v \in Open(store) :
                    Publish(v) /\ \A w \in Open(store) \ {v} : Covered(w)'
    BY <1>6, WatchedCovers
  <2>3. Moved  BY <2>1 DEF Moved, docVars
  <2>4. CASE /\ UNCHANGED <<cacheVars, handlers, shown>>
             /\ project = "none" \/ Open(store) = {}
    BY <2>1, <2>4 DEF Waits, cacheVars, Covered
  <2>5. ASSUME NEW v \in Open(store), Publish(v),
               \A w \in Open(store) \ {v} : Covered(w)'
        PROVE  Publishes(v) /\ v \in Uri
    BY <2>1, <2>2, <2>3, <2>5 DEF Publishes, Open
  <2> QED  BY <2>2, <2>4, <2>5
<1> QED  BY <1>2, <1>3, <1>4, <1>5, <1>6 DEF Handle

\* What the client has to report stays on its way.
LEMMA ReportsArrive ==
    ASSUME TypeInv, Environment \/ ClientReports, Reporting
    PROVE  Reporting'
<1>1. inbox \in Seq(Message)  BY DEF TypeInv
<1>2. ASSUME watch' = watch \/ watch' = TRUE,
             inbox' = inbox \/ \E e : inbox' = Append(inbox, e)
      PROVE  Reporting'
  <2>1. \A i \in DOMAIN inbox : i \in DOMAIN inbox' /\ inbox'[i] = inbox[i]
    BY <1>1, <1>2
  <2> QED  BY <1>2, <2>1 DEF Reporting
<1>3. ASSUME NEW u \in Uri, EditorOpen(u) \/ EditorClose(u) PROVE Reporting'
  <2>1. \E e : inbox' = inbox \o <<e>>
    BY <1>3 DEF EditorOpen, EditorClose, Edit
  <2>2. \E e : inbox' = Append(inbox, e)  BY <1>1, <2>1
  <2>3. watch' = watch  BY <1>3 DEF EditorOpen, EditorClose, diskVars
  <2> QED  BY <1>2, <2>2, <2>3
<1>4. ASSUME NEW u \in Uri, NEW t \in Text, EditorChange(u, t) PROVE Reporting'
  BY <1>1, <1>2, <1>4 DEF EditorChange, Edit, diskVars
<1>5. ASSUME NEW u \in Uri, EditorSave(u) PROVE Reporting'
  <2>1. inbox' = Append(inbox, [kind |-> "save", uri |-> u])
    BY <1>1, <1>5 DEF EditorSave, Edit
  <2>2. watch' = (watch \/ project # "custom")  BY <1>5 DEF EditorSave, Write
  <2>3. CASE watch
    BY <2>2, <2>3 DEF Reporting
  <2>4. CASE ~watch
    <3>1. \A i \in DOMAIN inbox : i \in DOMAIN inbox' /\ inbox'[i] = inbox[i]
      BY <1>1, <2>1
    <3> QED  BY <2>4, <3>1 DEF Reporting
  <2> QED  BY <2>3, <2>4
<1>6. ASSUME NEW u \in Uri, NEW c, NEW time, DiskWrite(u, c, time)
      PROVE  Reporting'
  <2>1. inbox' = inbox /\ watch' = (watch \/ project # "custom")
    BY <1>6 DEF DiskWrite, Outside, Write
  <2>2. CASE watch
    BY <2>1, <2>2 DEF Reporting
  <2>3. CASE \E i \in DOMAIN inbox : inbox[i].kind = "watched"
    BY <2>1, <2>3 DEF Reporting
  <2> QED  BY <2>2, <2>3 DEF Reporting
<1>7. ASSUME NEW b, NEW time, MigrationsChange(b, time) PROVE Reporting'
  BY <1>7 DEF MigrationsChange, Reporting
<1>8. CASE ClientReports
  <2>1. inbox' = Append(inbox, [kind |-> "watched"])  BY <1>8 DEF ClientReports
  <2>2. /\ Len(inbox) + 1 \in DOMAIN inbox'
        /\ inbox'[Len(inbox) + 1] = [kind |-> "watched"]
    BY <1>1, <2>1
  <2> QED  BY <2>2 DEF Reporting
<1> QED  BY <1>3, <1>4, <1>5, <1>6, <1>7, <1>8 DEF Environment

LEMMA StepDrift ==
    ASSUME TypeInv, TypeInv', InboxFollowsEditor, OpenedOnly(store, opens),
           [Next]_vars
    PROVE  Waits \/ \E v \in Uri : Publishes(v) \/ Closes(v)
<1>1. CASE Resume
  <2>1. UNCHANGED <<project, diskVars, ghost, docVars, inbox>>
    BY <1>1 DEF Resume
  <2>2. Moved  BY <2>1 DEF Moved, docVars
  <2>3. \/ \E v \in Uri :
              /\ Publish(v)
              /\ \A w \in Open(store) \ {v} : Covered(w) => Covered(w)'
        \/ /\ UNCHANGED <<cacheVars, shown>>
           /\ \A w \in Open(store) : Covered(w) => Covered(w)'
    BY <1>1, ResumeCovers
  <2>4. Reporting => Reporting'  BY <2>1 DEF Reporting, diskVars
  <2>5. CASE /\ UNCHANGED <<cacheVars, shown>>
             /\ \A w \in Open(store) : Covered(w) => Covered(w)'
    BY <2>1, <2>4, <2>5 DEF Waits, cacheVars
  <2> QED  BY <2>1, <2>2, <2>3, <2>5 DEF Publishes
<1>2. CASE Symbol
  <2>1. UNCHANGED <<watch, inbox, handlers, docVars, loaded, drifts, shown>>
        /\ StoreFingerprint(store)
    BY <1>2 DEF Symbol, diskVars
  <2>2. store' = store  BY <2>1 DEF docVars
  <2> QED  BY <2>1, <2>2 DEF Waits, Covered, Reporting
<1>3. CASE Environment \/ ClientReports
  <2>1. UNCHANGED serverVars  BY <1>3, EnvironmentStep
  <2>2. Reporting => Reporting'  BY <1>3, ReportsArrive
  <2> QED  BY <2>1, <2>2 DEF serverVars, cacheVars, Waits, Covered
<1>4. CASE UNCHANGED vars
  <2>1. UNCHANGED <<watch, inbox, handlers, docVars, cacheVars, shown>>
    BY <1>4 DEF vars, diskVars
  <2> QED  BY <2>1 DEF Waits, Covered, Reporting, cacheVars
<1> QED  BY <1>1, <1>2, <1>3, <1>4, HandleDrift DEF Next

----------------------------------------------------------------------------
(* The remembered results.                                                 *)

LEMMA LaterStays ==
    ASSUME NEW k, NEW l, NEW m, NotLater(k, l), NotLater(l, m), m # l
    PROVE  NotLater(k, m) /\ k # m
<1>1. k \in Nat \X Nat /\ l \in Nat \X Nat /\ m \in Nat \X Nat  BY DEF NotLater
<1>2. /\ k[1] <= l[1] /\ l[1] <= m[1] /\ k[2] <= l[2] /\ l[2] <= m[2]
      /\ l[1] # m[1] \/ l[2] # m[2]
  BY <1>1 DEF NotLater
<1> QED  BY <1>1, <1>2 DEF NotLater

LEMMA KeptStep ==
    ASSUME TypeInv, TypeInv', DiskType, LoadedKept, DriftsKept, [Next]_vars,
           Waits \/ \E v \in Uri : Publishes(v) \/ Closes(v)
    PROVE  LoadedKept' /\ DriftsKept'
<1> SUFFICES ASSUME ~ghost'.unseen PROVE LoadedKept' /\ DriftsKept'
  BY DEF LoadedKept, DriftsKept
<1>1. /\ DiskType' /\ project' = project /\ ~ghost.unseen
      /\ \/ UNCHANGED diskContents
         \/ NotLater(MtimeKey, MtimeKey') /\ MtimeKey' # MtimeKey
  BY DiskStep
<1>2. ASSUME NEW v \in Uri, Publishes(v) PROVE LoadedKept' /\ DriftsKept'
  <2>1. UNCHANGED diskContents /\ UNCHANGED project /\ UNCHANGED ghost /\ Publish(v)
    BY <1>2 DEF Publishes, diskVars, diskContents
  <2> QED  BY <1>1, <2>1, PublishDrift
<1>3. CASE UNCHANGED <<loaded, drifts>> /\ UNCHANGED diskContents
  <2>1. MtimeKey' = MtimeKey /\ Loads' = Loads /\ LoadedStates' = LoadedStates
    BY <1>1, <1>3, SameDisk
  <2>2. DriftsOf(loaded.value, drifts.docs, drifts.names)'
           = DriftsOf(loaded.value, drifts.docs, drifts.names)
    BY <1>1, <1>3, SameDisk
  <2>3. Read' = Read  BY <1>3, <2>1 DEF Read
  <2> QED  BY <1>1, <1>3, <2>1, <2>2, <2>3 DEF LoadedKept, DriftsKept
<1>4. CASE UNCHANGED <<loaded, drifts>> /\ NotLater(MtimeKey, MtimeKey')
           /\ MtimeKey' # MtimeKey
  <2>1. loaded # None => NotLater(loaded.key, MtimeKey') /\ loaded.key # MtimeKey'
    BY <1>1, <1>4, LaterStays DEF LoadedKept
  <2>2. drifts # None => NotLater(drifts.key[1], MtimeKey')
                         /\ drifts.key[1] # MtimeKey'
    BY <1>1, <1>4, LaterStays DEF DriftsKept
  <2> QED  BY <1>4, <2>1, <2>2 DEF LoadedKept, DriftsKept, Read
<1> QED  BY <1>1, <1>2, <1>3, <1>4 DEF Waits, Closes, cacheVars

LEMMA NamesStep ==
    ASSUME TypeInv, TypeInv', DiskType, InboxFollowsEditor, NamesKept,
           FingerprintKept, LoadedKept, DriftsKept, NamesCurrent, [Next]_vars,
           Waits \/ \E v \in Uri : Publishes(v) \/ Closes(v)
    PROVE  NamesCurrent'
<1> SUFFICES ASSUME ~ghost'.unseen, drifts' # None PROVE NamesCurrent'
  BY DEF NamesCurrent
<1>1. /\ project' = project /\ ~ghost.unseen
      /\ \/ UNCHANGED diskContents
         \/ NotLater(MtimeKey, MtimeKey') /\ MtimeKey' # MtimeKey
  BY DiskStep
<1>2. ASSUME NEW v \in Uri, Publishes(v) PROVE NamesCurrent'
  <2>1. UNCHANGED diskContents /\ UNCHANGED project /\ UNCHANGED ghost
        /\ Publish(v) /\ (~Reopened' => Moved)
    BY <1>2 DEF Publishes, diskVars, diskContents
  <2>2. DocumentStep \/ UNCHANGED docVars  BY OtherStep
  <2> QED  BY <2>1, <2>2, PublishNames
<1>3. ASSUME NEW v \in Uri, Closes(v) PROVE NamesCurrent'
  <2>1. /\ UNCHANGED <<drifts, opens, project, ghost>> /\ UNCHANGED diskContents
        /\ store' = [store EXCEPT ![v] = None] /\ index' = Release(index, v)
    BY <1>3 DEF Closes, cacheVars, diskVars, diskContents
  <2>2. MtimeKey' = MtimeKey  BY <1>1, <2>1, SameDisk
  <2>3. Reopened' = Reopened  BY <2>1 DEF Reopened
  <2>4. \A u \in Uri : opens'[u] = 0 => drifts'.docs[u] = None
    BY <1>1, <2>1 DEF NamesCurrent
  <2>5. ASSUME project # "none", ~Reopened, drifts.key[1] = MtimeKey
        PROVE  /\ drifts.key[2] = drifts.docs
               /\ \/ drifts.docs = Digest(store') /\ drifts.names = index'.by_name
                  \/ \E u \in Uri : drifts.docs[u] # None /\ store'[u] = None
    <3>1. /\ drifts.key[2] = drifts.docs
          /\ \/ drifts.docs = Digest(store) /\ drifts.names = index.by_name
             \/ \E u \in Uri : drifts.docs[u] # None /\ store[u] = None
      BY <1>1, <2>1, <2>5 DEF NamesCurrent
    <3>2. \A u \in Uri : store[u] = None => store'[u] = None
      BY <2>1 DEF TypeInv
    <3>3. CASE \E u \in Uri : drifts.docs[u] # None /\ store[u] = None
      BY <3>1, <3>2, <3>3
    <3>4. CASE drifts.docs = Digest(store) /\ drifts.names = index.by_name
               /\ store[v] # None
      <4>1. drifts.docs[v] # None
        BY <3>4, ServerAssumption DEF Digest, TypeInv, Documents
      <4>2. store'[v] = None  BY <2>1 DEF TypeInv
      <4> QED  BY <3>1, <4>1, <4>2
    <3>5. CASE drifts.docs = Digest(store) /\ drifts.names = index.by_name
               /\ store[v] = None
      <4>1. store' = store  BY <2>1, <3>5 DEF TypeInv
      <4>2. index.by_uri[v] = None  BY <3>5 DEF NamesKept
      <4>3. index'.by_name = index.by_name  BY <2>1, <4>2 DEF Release
      <4> QED  BY <3>1, <3>5, <4>1, <4>3
    <3> QED  BY <3>1, <3>3, <3>4, <3>5
  <2>6. Digest(store)' = Digest(store')  OBVIOUS
  <2> QED  BY <2>1, <2>2, <2>3, <2>4, <2>5, <2>6 DEF NamesCurrent
<1>4. CASE Waits
  <2>1. UNCHANGED <<drifts, opens, store, index>>  BY <1>4 DEF Waits, docVars
  <2>2. Reopened' = Reopened  BY <2>1 DEF Reopened
  <2>3. CASE UNCHANGED diskContents
    <3>1. MtimeKey' = MtimeKey  BY <1>1, <2>3, SameDisk
    <3>2. Digest(store)' = Digest(store)  BY <2>1 DEF Digest
    <3> QED  BY <1>1, <2>1, <2>2, <3>1, <3>2 DEF NamesCurrent
  <2>4. CASE NotLater(MtimeKey, MtimeKey') /\ MtimeKey' # MtimeKey
    <3>1. drifts.key[1] # MtimeKey'
      BY <1>1, <2>1, <2>4, LaterStays DEF DriftsKept
    <3> QED  BY <1>1, <2>1, <3>1 DEF NamesCurrent
  <2> QED  BY <1>1, <2>3, <2>4
<1> QED  BY <1>2, <1>3, <1>4

----------------------------------------------------------------------------
(* The entries the editor displays.                                        *)

\* u shows what it should, or there is a reason why not yet.
ShowsDrift(u) ==
    \/ Covered(u) \/ DriftOfOthers \/ (project # "none" /\ Reporting)
    \/ ShowsCurrent(u)

LEMMA PublishedDrift ==
    ASSUME TypeInv, TypeInv', DiskType, LoadedKept, DriftsKept, DriftShown,
           ~ghost.unseen, NEW v \in Uri, Publishes(v)
    PROVE  \A u \in Open(store') : ShowsDrift(u)'
<1>1. /\ Publish(v) /\ UNCHANGED diskContents /\ UNCHANGED project
      /\ UNCHANGED ghost /\ watch' = watch
  BY DEF Publishes, diskVars, diskContents
<1>2. Open(store') \subseteq Uri  BY DEF Open
<1>3. ASSUME v \in Open(store') PROVE ShowsDrift(v)'
  <2>1. store'[v] # None  BY <1>3 DEF Open
  <2> QED  BY <1>1, <2>1, PublishDrift DEF ShowsDrift
<1>4. CASE \A w \in Open(store') \ {v} : Covered(w)'
  BY <1>3, <1>4 DEF ShowsDrift
<1>5. CASE /\ UNCHANGED <<docVars, inbox>>
           /\ \A w \in Open(store) \ {v} : Covered(w) => Covered(w)'
  <2>1. UNCHANGED <<store, index>>  BY <1>5 DEF docVars
  <2>2. ASSUME NEW u \in Uri, u # v, ShowsCurrent(u) PROVE ShowsCurrent(u)'
    <3>1. MtimeKey' = MtimeKey /\ Loads' = Loads  BY <1>1, SameDisk
    <3>2. Read => loaded' = loaded  BY <1>1, PublishDrift
    <3>3. shown'[u] = shown[u]  BY <1>1, <2>2 DEF Publish, TypeInv
    <3>4. CurrentDrifts' = CurrentDrifts
      BY <1>1, <2>1, <2>2, <3>2, SameDisk DEF CurrentDrifts, ShowsCurrent
    <3> QED  BY <1>1, <2>2, <3>1, <3>2, <3>3, <3>4 DEF ShowsCurrent, Read
  <2>3. Reporting' = Reporting  BY <1>1, <1>5 DEF Reporting
  <2>4. DriftOfOthers => DriftOfOthers'
    <3> SUFFICES ASSUME DriftOfOthers PROVE DriftOfOthers'  OBVIOUS
    <3>1. project # "none" /\ drifts # None /\ drifts.key = DriftKey(store')
      BY <2>1 DEF DriftOfOthers
    <3>2. drifts' = drifts /\ StoreFingerprint(store')
      BY <1>1, <3>1 DEF Publish, DriftResult
    <3>3. DriftKey(store)' = DriftKey(store')
      BY <1>1, <3>2, SameDisk, FingerprintIsStable DEF DriftKey
    <3>4. Digest(store)' = Digest(store)  BY <2>1 DEF Digest
    <3> QED  BY <1>1, <2>1, <3>1, <3>2, <3>3, <3>4 DEF DriftOfOthers
  <2>5. ASSUME NEW u \in Open(store'), u # v PROVE ShowsDrift(u)'
    <3>1. u \in Open(store) /\ u \in Uri /\ store[u] # None
      BY <2>1, <2>5 DEF Open
    <3>2. ShowsDrift(u)  BY <3>1 DEF DriftShown, ShowsDrift
    <3>3. Covered(u) => Covered(u)'  BY <1>5, <2>5, <3>1
    <3> QED  BY <1>1, <2>2, <2>3, <2>4, <2>5, <3>1, <3>2, <3>3 DEF ShowsDrift
  <2> QED  BY <1>3, <2>5
<1> QED  BY <1>4, <1>5 DEF Publishes

LEMMA WaitingDrift ==
    ASSUME TypeInv, TypeInv', DiskType, DriftShown, Waits, [Next]_vars,
           ~ghost'.unseen
    PROVE  \A u \in Open(store') : ShowsDrift(u)'
<1>1. /\ project' = project /\ ~ghost.unseen
      /\ UNCHANGED diskContents \/ watch'
  BY DiskStep
<1>2. UNCHANGED <<store, index, loaded, drifts, shown>>  BY DEF Waits, docVars
<1> SUFFICES ASSUME NEW u \in Open(store') PROVE ShowsDrift(u)'  OBVIOUS
<1>3. u \in Open(store) /\ u \in Uri  BY <1>2 DEF Open
<1>4. ShowsDrift(u)  BY <1>1, <1>3 DEF DriftShown, ShowsDrift
<1>5. Covered(u) => Covered(u)'  BY <1>3 DEF Waits
<1>6. Reporting => Reporting' \/ project = "none"  BY <1>3 DEF Waits
<1>7. CASE project = "none"
  <2>1. CurrentDrifts = {} /\ CurrentDrifts' = {}
    BY <1>1, <1>7 DEF CurrentDrifts
  <2>2. ~DriftOfOthers  BY <1>7 DEF DriftOfOthers
  <2> QED  BY <1>1, <1>2, <1>4, <1>5, <1>7, <2>1, <2>2
           DEF ShowsDrift, ShowsCurrent
<1>8. CASE project # "none" /\ watch'
  BY <1>1, <1>8 DEF ShowsDrift, Reporting
<1>9. CASE project # "none" /\ UNCHANGED diskContents
  <2>1. ShowsCurrent(u) => ShowsCurrent(u)'
    <3>1. CurrentDrifts' = CurrentDrifts
      BY <1>1, <1>2, <1>9, SameDisk DEF CurrentDrifts
    <3>2. Read' = Read /\ Loads' = Loads
      BY <1>1, <1>2, <1>9, SameDisk DEF Read
    <3> QED  BY <1>1, <1>2, <3>1, <3>2 DEF ShowsCurrent
  <2>2. DriftKey(store)' = DriftKey(store)
    <3>1. MtimeKey' = MtimeKey  BY <1>1, <1>9, SameDisk
    <3>2. DocstoreFingerprint(store)' = DocstoreFingerprint(store)
      <4>1. CASE digest' = digest
        BY <1>2, <4>1 DEF DocstoreFingerprint, FingerprintHit, Shape, Digest
      <4>2. CASE StoreFingerprint(store')
        <5>1. DocstoreFingerprint(store)' = DocstoreFingerprint(store')
          BY <4>2, FingerprintIsStable
        <5> QED  BY <1>2, <5>1
      <4> QED  BY <4>1, <4>2 DEF Waits
    <3> QED  BY <3>1, <3>2 DEF DriftKey
  <2>3. Digest(store)' = Digest(store)  BY <1>2 DEF Digest
  <2>4. DriftOfOthers => DriftOfOthers'
    BY <1>1, <1>2, <2>2, <2>3 DEF DriftOfOthers
  <2> QED  BY <1>1, <1>2, <1>4, <1>5, <1>6, <1>9, <2>1, <2>4 DEF ShowsDrift
<1> QED  BY <1>1, <1>7, <1>8, <1>9

DriftInv ==
    /\ ShownInv /\ IndexInv /\ DiskType
    /\ LoadedKept /\ DriftsKept /\ NamesCurrent /\ DriftShown

LEMMA DriftInvInit == Init => DriftInv
<1> SUFFICES ASSUME Init PROVE DriftInv  OBVIOUS
<1>1. ShownInv /\ IndexInv /\ DiskType
  BY ShownInvInit, IndexInvInit, DiskTypeInit
<1>2. LoadedKept /\ DriftsKept /\ NamesCurrent /\ DriftShown
  BY DEF Init, LoadedKept, DriftsKept, NamesCurrent, DriftShown, Open
<1> QED  BY <1>1, <1>2 DEF DriftInv

LEMMA DriftInvStep == DriftInv /\ [Next]_vars => DriftInv'
<1> SUFFICES ASSUME DriftInv, [Next]_vars PROVE DriftInv'  OBVIOUS
<1> USE DEF DriftInv
<1>1. ShownInv' /\ IndexInv'  BY ShownInvStep, IndexInvStep
<1>2. /\ TypeInv /\ TypeInv' /\ InboxFollowsEditor /\ NamesKept
      /\ FingerprintKept /\ OpenedOnly(store, opens)
  BY <1>1 DEF ShownInv, InboxInv, IndexInv, FingerprintKept
<1>3. DiskType'  BY <1>2, DiskStep
<1>4. Waits \/ \E v \in Uri : Publishes(v) \/ Closes(v)  BY <1>2, StepDrift
<1>5. LoadedKept' /\ DriftsKept'  BY <1>2, <1>4, KeptStep
<1>6. NamesCurrent'  BY <1>2, <1>4, NamesStep
<1>7. ASSUME ~ghost'.unseen PROVE \A u \in Open(store') : ShowsDrift(u)'
  <2>1. ~ghost.unseen  BY <1>2, <1>7, DiskStep
  <2>2. ASSUME NEW v \in Uri, Publishes(v)
        PROVE  \A u \in Open(store') : ShowsDrift(u)'
    BY <1>2, <2>1, <2>2, PublishedDrift
  <2>3. ASSUME NEW v \in Uri, Closes(v)
        PROVE  \A u \in Open(store') : ShowsDrift(u)'
    BY <2>3 DEF Closes, ShowsDrift
  <2>4. CASE Waits
    BY <1>2, <1>7, <2>4, WaitingDrift
  <2> QED  BY <1>4, <2>2, <2>3, <2>4
<1>8. DriftShown'  BY <1>7 DEF DriftShown, ShowsDrift
<1> QED  BY <1>1, <1>3, <1>5, <1>6, <1>8

\* When nothing is on its way, the drift entries the open documents show are
\* together the differences between one reading of the models and the
\* migrations on disk, anchored in the texts the editor has: unless a change
\* of the disk did not advance the time stamps the two caches are keyed by, or
\* a document was opened again and what is found under the key is of other
\* documents or another index.
THEOREM DriftIsRight == Spec => []DriftSettles
<1>1. DriftInv => DriftSettles
  <2> SUFFICES ASSUME DriftInv, Settled, ~ghost.unseen, ~DriftStale
               PROVE  \E found \in IF project # "none" /\ Loads
                                   THEN {Drifts(s, store, index) : s \in LoadedStates}
                                   ELSE {{}} :
                         \A u \in Open(store) :
                             shown[u].drift = {d \in found : d.uri = u}
    BY DEF DriftSettles
  <2> USE DEF DriftInv
  <2>1. TypeInv /\ FingerprintKept
    BY DEF ShownInv, InboxInv
  <2>2. \A u \in Open(store) : ~Covered(u) /\ ~Reporting
    BY DEF Settled, Covered, Reporting
  <2>3. ~DriftOfOthers
    <3> SUFFICES ASSUME DriftOfOthers PROVE FALSE  OBVIOUS
    <3>1. /\ project # "none" /\ drifts # None /\ drifts.key = DriftKey(store)
          /\ drifts.docs # Digest(store) \/ drifts.names # index.by_name
      BY DEF DriftOfOthers
    <3>2. ~Reopened  BY <3>1 DEF DriftStale
    <3>3. DocstoreFingerprint(store) = Digest(store)
      BY <2>1, <3>2, FingerprintHolds
    <3>4. drifts.key[1] = MtimeKey /\ drifts.key[2] = Digest(store)
      BY <3>1, <3>3 DEF DriftKey
    <3>5. /\ drifts.key[2] = drifts.docs
          /\ \/ drifts.docs = Digest(store) /\ drifts.names = index.by_name
             \/ \E w \in Uri : drifts.docs[w] # None /\ store[w] = None
      BY <3>1, <3>2, <3>4 DEF NamesCurrent
    <3>6. \A w \in Uri : store[w] = None => Digest(store)[w] = None
      BY DEF Digest
    <3> QED  BY <3>1, <3>4, <3>5, <3>6
  <2>4. \A u \in Open(store) : ShowsCurrent(u)
    BY <2>2, <2>3 DEF DriftShown
  <2>5. CASE ~(project # "none" /\ Loads)
    <3>1. CurrentDrifts = {}  BY <2>5 DEF CurrentDrifts
    <3> QED  BY <2>4, <2>5, <3>1 DEF ShowsCurrent
  <2>6. CASE project # "none" /\ Loads /\ Open(store) # {}
    <3>1. Read /\ CurrentDrifts = Drifts(loaded.value, store, index)
      BY <2>4, <2>6 DEF ShowsCurrent, CurrentDrifts
    <3>2. loaded.value \in LoadedStates  BY <3>1 DEF LoadedKept, Read
    <3>3. \A u \in Open(store) :
             shown[u].drift = {d \in Drifts(loaded.value, store, index) : d.uri = u}
      BY <2>4, <3>1 DEF ShowsCurrent
    <3> QED  BY <2>6, <3>2, <3>3
  <2>7. CASE project # "none" /\ Loads /\ Open(store) = {}
    BY <2>7, SomethingLoads
  <2> QED  BY <2>5, <2>6, <2>7
<1> QED  BY <1>1, DriftInvInit, DriftInvStep, PTL DEF Spec
----------------------------------------------------------------------------
(* The symbols of the workspace, while the files are as they were when the *)
(* server started.                                                         *)

\* A buffer starts with the text of its file, at version 1.
OpensFromDisk ==
    \A i \in DOMAIN inbox :
        inbox[i].kind = "open" =>
            inbox[i].version = 1 /\ inbox[i].text = disk[inbox[i].uri]

\* So a document that has version 1 has that text.
StartsFromDisk(docs) ==
    \A u \in Uri :
        docs[u] # None =>
            /\ docs[u].version >= 1
            /\ docs[u].version = 1 => docs[u].text = disk[u]

\* The remembered fingerprint is that of the documents, except for those that
\* were closed since it was taken.
DigestFollows ==
    digest # None =>
        \E d \in [Uri -> Documents \cup {None}] :
            /\ digest.shape = Shape(d) /\ digest.fingerprint = Digest(d)
            /\ StartsFromDisk(d)
            /\ \A u \in Uri : store[u] # None => d[u] = store[u]

ParsedKept == \A u \in Uri : parsed[u] # None => parsed[u].text = disk[u]

TablesKept ==
    IF project = "none" THEN tables = [n \in Table |-> None]
    ELSE tables \in CollectModels

\* The symbols for given texts of the open documents.
SymbolsFor(texts) ==
    {[uri |-> u, text |-> texts[u]] : u \in {v \in Uri : texts[v] # None}}
    \cup {tables[n] : n \in {m \in Table : /\ tables[m] # None
                                           /\ texts[tables[m].uri] = None}}

\* What the rings hold.
RingEntry ==
    {[key |-> texts, value |-> SymbolsFor(texts)] :
        texts \in [Uri -> Text \cup {None}]}

RingsKept == symbols \in Seq(RingEntry) /\ filtered \in Seq(RingEntry)

SymbolInv ==
    ~ghost.rewritten =>
        /\ OpensFromDisk /\ StartsFromDisk(store) /\ DigestFollows
        /\ ParsedKept /\ TablesKept
        /\ Twins \/ RingsKept

\* Until a file is written they are all as they were.
LEMMA DiskStays ==
    ASSUME TypeInv, DiskType, [Next]_vars, ~ghost'.rewritten
    PROVE  ~ghost.rewritten /\ disk' = disk /\ project' = project
<1>1. CASE Handle \/ Resume \/ Symbol \/ UNCHANGED vars \/ ClientReports
  <2>1. UNCHANGED <<project, disk, ghost>>
    BY <1>1 DEF Handle, DidOpen, DidChange, DidSave, DidClose,
       DidChangeWatchedFiles, Receive, Resume, Symbol, ClientReports, serverVars,
       vars, diskVars
  <2> QED  BY <2>1
<1>2. ASSUME NEW u \in Uri, EditorOpen(u) \/ EditorClose(u)
      PROVE  UNCHANGED <<project, disk, ghost>>
  BY <1>2 DEF EditorOpen, EditorClose, Edit, serverVars, diskVars
<1>3. ASSUME NEW u \in Uri, NEW t \in Text, EditorChange(u, t)
      PROVE  UNCHANGED <<project, disk, ghost>>
  BY <1>3 DEF EditorChange, Edit, serverVars, diskVars
<1>4. ASSUME NEW u, NEW c, NEW time, Write(u, c, time) PROVE FALSE
  BY <1>4 DEF Write, DiskType
<1>5. ASSUME NEW b, NEW time, MigrationsChange(b, time)
      PROVE  ~ghost.rewritten /\ disk' = disk /\ project' = project
  BY <1>5 DEF MigrationsChange, Outside, serverVars, DiskType
<1> QED
  BY <1>1, <1>2, <1>3, <1>4, <1>5 DEF Next, Environment, EditorSave, DiskWrite

LEMMA OpensStep ==
    ASSUME TypeInv, OpensFromDisk, [Next]_vars, disk' = disk
    PROVE  OpensFromDisk'
<1>1. inbox \in Seq(Message)  BY DEF TypeInv
<1>2. CASE inbox' = inbox
  BY <1>2 DEF OpensFromDisk
<1>3. CASE inbox # <<>> /\ inbox' = Tail(inbox)
  <2>1. \A i \in DOMAIN inbox' : i + 1 \in DOMAIN inbox /\ inbox'[i] = inbox[i + 1]
    BY <1>1, <1>3, TailLists
  <2> QED  BY <2>1 DEF OpensFromDisk
<1>4. ASSUME NEW m, inbox' = inbox \o <<m>>,
             m.kind = "open" => m.version = 1 /\ m.text = disk[m.uri]
      PROVE  OpensFromDisk'
  <2>1. /\ DOMAIN inbox' = 1..(Len(inbox) + 1) /\ DOMAIN inbox = 1..Len(inbox)
        /\ \A i \in DOMAIN inbox : inbox'[i] = inbox[i]
        /\ inbox'[Len(inbox) + 1] = m
    BY <1>1, <1>4
  <2>2. Len(inbox) \in Nat  BY <1>1
  <2>3. \A i \in DOMAIN inbox' : i \in DOMAIN inbox \/ i = Len(inbox) + 1
    BY <2>1, <2>2
  <2> QED  BY <1>4, <2>1, <2>3 DEF OpensFromDisk
<1>5. CASE Handle
  BY <1>3, <1>5 DEF Handle, DidOpen, DidChange, DidSave, DidClose,
     DidChangeWatchedFiles, Receive
<1>6. CASE Resume \/ Symbol \/ UNCHANGED vars
  BY <1>2, <1>6 DEF Resume, Symbol, vars
<1>7. ASSUME NEW u \in Uri, EditorOpen(u) PROVE OpensFromDisk'
  BY <1>4, <1>7 DEF EditorOpen, Edit
<1>8. ASSUME NEW u \in Uri, EditorClose(u) \/ EditorSave(u) PROVE OpensFromDisk'
  BY <1>4, <1>8 DEF EditorClose, EditorSave, Edit
<1>9. ASSUME NEW u \in Uri, NEW t \in Text, EditorChange(u, t)
      PROVE  OpensFromDisk'
  BY <1>4, <1>9 DEF EditorChange, Edit
<1>10. ASSUME NEW u, NEW c, NEW time,
              DiskWrite(u, c, time) \/ MigrationsChange(c, time)
       PROVE  OpensFromDisk'
  BY <1>2, <1>10 DEF DiskWrite, MigrationsChange, Outside
<1>11. CASE ClientReports
  <2>1. inbox' = inbox \o <<[kind |-> "watched"]>>
    BY <1>1, <1>11 DEF ClientReports
  <2> QED  BY <1>4, <2>1
<1> QED
  BY <1>5, <1>6, <1>7, <1>8, <1>9, <1>10, <1>11 DEF Next, Environment

\* How a step changes a document and the remembered fingerprint.
LEMMA DocumentMoves ==
    ASSUME TypeInv, InboxFollowsEditor, OpensFromDisk, [Next]_vars
    PROVE  \/ \E u \in Uri, t \in Text, v \in Nat :
                 /\ store' = [store EXCEPT ![u] = Document(t, v)]
                 /\ StoreFingerprint(store')
                 /\ \/ v = 1 /\ t = disk[u]
                    \/ store[u] # None /\ store[u].version < v
           \/ \E u \in Uri : store' = [store EXCEPT ![u] = None] /\ digest' = digest
           \/ store' = store /\ (digest' = digest \/ StoreFingerprint(store'))
<1> DEFINE m == Head(inbox)
<1>1. CASE DidOpen
  <2>1. /\ m.uri \in Uri /\ m.text \in Text /\ m.version \in Nat
        /\ inbox # <<>> /\ m.kind = "open"
    BY <1>1, HeadMessage DEF DidOpen, Receive
  <2>2. m.version = 1 /\ m.text = disk[m.uri]
    <3>1. inbox \in Seq(Message)  BY DEF TypeInv
    <3>2. 1 \in DOMAIN inbox /\ inbox[1] = m  BY <2>1, <3>1
    <3> QED  BY <2>1, <3>2 DEF OpensFromDisk
  <2>3. /\ store' = [store EXCEPT ![m.uri] = Document(m.text, m.version)]
        /\ StoreFingerprint(store')
    BY <1>1 DEF DidOpen, Publish
  <2> HIDE DEF m
  <2> QED  BY <2>1, <2>2, <2>3
<1>2. CASE DidChange
  <2>1. /\ m.uri \in Uri /\ m.text \in Text /\ m.version \in Nat
    BY <1>2, HeadMessage DEF DidChange, Receive
  <2>2. /\ store[m.uri] # None /\ store[m.uri].version < m.version
        /\ store' = [store EXCEPT ![m.uri] = Document(m.text, m.version)]
    BY <1>2, ChangeAdvances
  <2>3. StoreFingerprint(store')  BY <1>2 DEF DidChange, Publish
  <2> HIDE DEF m
  <2> QED  BY <2>1, <2>2, <2>3
<1>3. CASE DidClose
  <2>1. m.uri \in Uri  BY <1>3, HeadMessage DEF DidClose, Receive
  <2>2. store' = [store EXCEPT ![m.uri] = None] /\ digest' = digest
    BY <1>3 DEF DidClose, cacheVars
  <2> HIDE DEF m
  <2> QED  BY <2>1, <2>2
<1>4. CASE ~DocumentStep
  <2>1. store' = store  BY <1>4, OtherStep DEF docVars
  <2> QED  BY <2>1, CachesStep
<1> QED  BY <1>1, <1>2, <1>3, <1>4 DEF DocumentStep

\* The documents the remembered fingerprint is found for have the texts of
\* those it was taken from.
LEMMA FoundIsExact ==
    ASSUME NEW d \in [Uri -> Documents \cup {None}],
           NEW docs \in [Uri -> Documents \cup {None}], Shape(d) = Shape(docs),
           \A u \in Uri :
              (d[u] # None /\ docs[u] # None /\ d[u].version = docs[u].version) =>
                  d[u].text = docs[u].text
    PROVE  Digest(d) = Digest(docs)
<1> SUFFICES ASSUME NEW u \in Uri
             PROVE  (IF d[u] = None THEN None ELSE d[u].text)
                       = IF docs[u] = None THEN None ELSE docs[u].text
  BY DEF Digest
<1> DEFINE a == Shape(d)[u]
           b == Shape(docs)[u]
<1>1. a = b  OBVIOUS
<1>2. /\ d[u] = None => a = None
      /\ d[u] # None => a = <<d[u].version, Length[d[u].text]>> /\ a # None
                        /\ a[1] = d[u].version
  BY ServerAssumption DEF Shape, Documents
<1>3. /\ docs[u] = None => b = None
      /\ docs[u] # None => b = <<docs[u].version, Length[docs[u].text]>> /\ b # None
                           /\ b[1] = docs[u].version
  BY ServerAssumption DEF Shape, Documents
<1> HIDE DEF a, b
<1> QED  BY <1>1, <1>2, <1>3

LEMMA FingerprintIsNow ==
    ASSUME TypeInv, DigestFollows
    PROVE  DocstoreFingerprint(store) = Digest(store)
<1> SUFFICES ASSUME FingerprintHit(store)
             PROVE  digest.fingerprint = Digest(store)
  BY DEF DocstoreFingerprint
<1>1. digest # None /\ digest.shape = Shape(store)  BY DEF FingerprintHit
<1>2. PICK d \in [Uri -> Documents \cup {None}] :
         /\ digest.shape = Shape(d) /\ digest.fingerprint = Digest(d)
         /\ \A u \in Uri : store[u] # None => d[u] = store[u]
  BY <1>1 DEF DigestFollows
<1>3. store \in [Uri -> Documents \cup {None}]  BY DEF TypeInv
<1> QED  BY <1>1, <1>2, <1>3, FoundIsExact

LEMMA DigestStep ==
    ASSUME TypeInv, TypeInv', InboxFollowsEditor, OpensFromDisk,
           StartsFromDisk(store), DigestFollows, disk' = disk, [Next]_vars
    PROVE  StartsFromDisk(store)' /\ DigestFollows'
<1>1. StartsFromDisk(store)' <=> StartsFromDisk(store')  BY DEF StartsFromDisk
<1>2. /\ store \in [Uri -> Documents \cup {None}]
      /\ store' \in [Uri -> Documents \cup {None}]
  BY DEF TypeInv
<1>3. ASSUME StoreFingerprint(store'), StartsFromDisk(store'),
             digest # None => \E d \in [Uri -> Documents \cup {None}] :
                 /\ digest.shape = Shape(d) /\ digest.fingerprint = Digest(d)
                 /\ \A u \in Uri :
                       (/\ d[u] # None /\ store'[u] # None
                        /\ d[u].version = store'[u].version) =>
                           d[u].text = store'[u].text
      PROVE  StartsFromDisk(store)' /\ DigestFollows'
  <2>1. digest'.shape = Shape(store') /\ digest'.fingerprint = Digest(store')
    <3>1. CASE FingerprintHit(store')
      <4>1. digest # None /\ digest.shape = Shape(store') /\ digest' = digest
        BY <1>3, <3>1 DEF StoreFingerprint, FingerprintHit
      <4>2. PICK d \in [Uri -> Documents \cup {None}] :
               /\ digest.shape = Shape(d) /\ digest.fingerprint = Digest(d)
               /\ \A u \in Uri :
                     (/\ d[u] # None /\ store'[u] # None
                      /\ d[u].version = store'[u].version) =>
                         d[u].text = store'[u].text
        BY <1>3, <4>1
      <4>3. Digest(d) = Digest(store')  BY <1>2, <4>1, <4>2, FoundIsExact
      <4> QED  BY <4>1, <4>2, <4>3
    <3>2. CASE ~FingerprintHit(store')
      <4>1. digest' = [shape |-> Shape(store'), fingerprint |-> Digest(store')]
        BY <1>3, <3>2 DEF StoreFingerprint
      <4> QED  BY <4>1
    <3> QED  BY <3>1, <3>2
  <2>2. StartsFromDisk(store)'  BY <1>1, <1>3
  <2> QED  BY <1>2, <2>1, <2>2 DEF DigestFollows, Shape, Digest, StartsFromDisk
<1>4. ASSUME NEW u \in Uri, NEW t \in Text, NEW v \in Nat,
             store' = [store EXCEPT ![u] = Document(t, v)],
             StoreFingerprint(store'),
             \/ v = 1 /\ t = disk[u]
             \/ store[u] # None /\ store[u].version < v
      PROVE  StartsFromDisk(store)' /\ DigestFollows'
  <2>1. /\ store'[u] = Document(t, v) /\ store'[u].text = t
        /\ store'[u].version = v /\ store'[u] # None
        /\ \A w \in Uri \ {u} : store'[w] = store[w]
    BY <1>2, <1>4, ServerAssumption DEF Document
  <2>2. store[u] # None => store[u].version \in Nat /\ store[u].version >= 1
    BY <1>2 DEF Documents, StartsFromDisk
  <2>3. v >= 1 /\ (v = 1 => t = disk[u])  BY <1>4, <2>2
  <2>4. StartsFromDisk(store')  BY <2>1, <2>3 DEF StartsFromDisk
  <2>5. ASSUME digest # None
        PROVE  \E d \in [Uri -> Documents \cup {None}] :
                 /\ digest.shape = Shape(d) /\ digest.fingerprint = Digest(d)
                 /\ \A w \in Uri :
                       (/\ d[w] # None /\ store'[w] # None
                        /\ d[w].version = store'[w].version) =>
                           d[w].text = store'[w].text
    <3>1. PICK d \in [Uri -> Documents \cup {None}] :
             /\ digest.shape = Shape(d) /\ digest.fingerprint = Digest(d)
             /\ StartsFromDisk(d)
             /\ \A w \in Uri : store[w] # None => d[w] = store[w]
      BY <2>5 DEF DigestFollows
    <3>2. ASSUME d[u] # None, d[u].version = v PROVE d[u].text = t
      <4>1. d[u].version \in Nat /\ (d[u].version = 1 => d[u].text = disk[u])
        BY <3>1, <3>2 DEF StartsFromDisk, Documents
      <4> QED  BY <1>4, <2>2, <3>1, <3>2, <4>1
    <3>3. \A w \in Uri :
             (/\ d[w] # None /\ store'[w] # None
              /\ d[w].version = store'[w].version) => d[w].text = store'[w].text
      BY <2>1, <3>1, <3>2
    <3> QED  BY <3>1, <3>3
  <2> QED  BY <1>3, <1>4, <2>4, <2>5
<1>5. ASSUME digest' = digest, \A u \in Uri : store'[u] = store[u] \/ store'[u] = None
      PROVE  StartsFromDisk(store)' /\ DigestFollows'
  <2>1. StartsFromDisk(store')  BY <1>5 DEF StartsFromDisk
  <2>2. ASSUME digest' # None
        PROVE  \E d \in [Uri -> Documents \cup {None}] :
                  /\ digest'.shape = Shape(d) /\ digest'.fingerprint = Digest(d)
                  /\ StartsFromDisk(d)
                  /\ \A u \in Uri : store'[u] # None => d[u] = store'[u]
    <3>1. PICK d \in [Uri -> Documents \cup {None}] :
             /\ digest.shape = Shape(d) /\ digest.fingerprint = Digest(d)
             /\ StartsFromDisk(d)
             /\ \A w \in Uri : store[w] # None => d[w] = store[w]
      BY <1>5, <2>2 DEF DigestFollows
    <3> QED  BY <1>5, <3>1
  <2> QED  BY <1>1, <2>1, <2>2 DEF DigestFollows, StartsFromDisk, Shape, Digest
<1>6. CASE store' = store /\ StoreFingerprint(store')
  <2>1. digest # None => \E d \in [Uri -> Documents \cup {None}] :
                 /\ digest.shape = Shape(d) /\ digest.fingerprint = Digest(d)
                 /\ \A u \in Uri :
                       (/\ d[u] # None /\ store'[u] # None
                        /\ d[u].version = store'[u].version) =>
                           d[u].text = store'[u].text
    BY <1>6 DEF DigestFollows
  <2> QED  BY <1>3, <1>6, <2>1
<1>7. ASSUME NEW u \in Uri, store' = [store EXCEPT ![u] = None], digest' = digest
      PROVE  StartsFromDisk(store)' /\ DigestFollows'
  <2>1. \A w \in Uri : store'[w] = store[w] \/ store'[w] = None
    BY <1>2, <1>7
  <2> QED  BY <1>5, <1>7, <2>1
<1> QED  BY <1>4, <1>5, <1>6, <1>7, DocumentMoves

\* Without twins the files determine the tables.
LEMMA TablesAreFixed ==
    ASSUME ~Twins, NEW t \in CollectModels, NEW w \in CollectModels
    PROVE  t = w
<1>1. {t, w} \subseteq
         [Table -> {[uri |-> u, text |-> disk[u]] : u \in Files} \cup {None}]
  BY DEF CollectModels
<1>2. ASSUME NEW n \in Table PROVE t[n] = w[n]
  <2> DEFINE D == {u \in Files : disk[u] \in Valid /\ NameOf[disk[u]] = n}
  <2>1. IF D = {} THEN t[n] = None /\ w[n] = None
        ELSE /\ \E u \in D : t[n] = [uri |-> u, text |-> disk[u]]
             /\ \E u \in D : w[n] = [uri |-> u, text |-> disk[u]]
    BY DEF CollectModels
  <2>2. \A u, v \in D : u = v  BY DEF Twins
  <2> HIDE DEF D
  <2> QED  BY <2>1, <2>2
<1> QED  BY <1>1, <1>2

\* A table is that of a file.
LEMMA TableOfFile ==
    ASSUME TablesKept, NEW n \in Table, tables[n] # None
    PROVE  /\ tables[n].uri \in Uri /\ disk[tables[n].uri] # None
           /\ tables[n] = [uri |-> tables[n].uri, text |-> disk[tables[n].uri]]
<1>1. project # "none" /\ tables \in CollectModels
  BY DEF TablesKept
<1>2. \E u \in {v \in Files : disk[v] \in Valid /\ NameOf[disk[v]] = n} :
         tables[n] = [uri |-> u, text |-> disk[u]]
  BY <1>1 DEF CollectModels
<1> QED  BY <1>2 DEF Files

LEMMA TablesKeptStep ==
    ASSUME TypeInv, TablesKept, disk' = disk, project' = project, [Next]_vars
    PROVE  TablesKept' /\ (Twins \/ tables' = tables)
<1>1. CollectModels' = CollectModels  BY DEF CollectModels, Files
<1>2. CASE tables' = tables
  BY <1>1, <1>2 DEF TablesKept
<1>3. CASE project # "none" /\ tables' \in CollectModels
  BY <1>1, <1>3, TablesAreFixed DEF TablesKept
<1>4. CASE Handle
  <2>1. CASE project = "none"
    BY <1>2, <1>4, <2>1 DEF Handle, DidOpen, DidChange, DidSave, DidClose,
       DidChangeWatchedFiles, Refresh, tableVars
  <2>2. CASE project # "none"
    BY <1>3, <1>4, <2>2, HandleRefreshes
  <2> QED  BY <2>1, <2>2
<1>5. CASE Environment \/ ClientReports
  BY <1>2, <1>5, EnvironmentStep DEF serverVars, tableVars
<1>6. CASE Resume \/ Symbol \/ UNCHANGED vars
  BY <1>2, <1>6 DEF Resume, Symbol, vars, tableVars
<1> QED  BY <1>4, <1>5, <1>6 DEF Next

LEMMA ParsedStep ==
    ASSUME TypeInv, ParsedKept, disk' = disk, [Next]_vars
    PROVE  ParsedKept'
<1>1. CASE parsed' = parsed \/ parsed' = [u \in Uri |-> None]
  BY <1>1 DEF ParsedKept
<1>2. CASE Handle
  BY <1>1, <1>2 DEF Handle, DidOpen, DidChange, DidSave, DidClose,
     DidChangeWatchedFiles, Refresh, tableVars
<1>3. CASE Environment \/ ClientReports
  BY <1>1, <1>3, EnvironmentStep DEF serverVars, tableVars
<1>4. CASE Resume \/ UNCHANGED vars
  BY <1>1, <1>4 DEF Resume, vars, tableVars
<1>5. CASE Symbol
  <2>1. \A u \in Uri : CachedParse(u).text = disk[u]
    BY DEF ParsedKept, CachedParse
  <2>2. \A u \in Uri : parsed'[u] \in {parsed[u], CachedParse(u)}
    BY <1>5 DEF Symbol
  <2> QED  BY <2>1, <2>2 DEF ParsedKept
<1> QED  BY <1>2, <1>3, <1>4, <1>5 DEF Next

\* What a request computes when the rings do not have it.
LEMMA ListIsNow ==
    ASSUME TypeInv, TablesKept, ParsedKept
    PROVE  /\ SymbolList = SymbolsFor(Digest(store))
           /\ SymbolsFor(Digest(store)) =
                 {[uri |-> u, text |-> store[u].text] : u \in Open(store)}
                 \cup {tables[n] : n \in {m \in Table :
                         tables[m] # None /\ store[tables[m].uri] = None}}
<1> DEFINE A == {[uri |-> u, text |-> store[u].text] : u \in Open(store)}
           B == {[uri |-> tables[n].uri,
                  text |-> CachedParse(tables[n].uri).text] : n \in DiskOnly}
           S == {u \in Uri : Digest(store)[u] # None}
           C == {[uri |-> u, text |-> Digest(store)[u]] : u \in S}
           T == {m \in Table : /\ tables[m] # None
                               /\ Digest(store)[tables[m].uri] = None}
           D == {tables[n] : n \in T}
           N == {m \in Table : tables[m] # None /\ store[tables[m].uri] = None}
<1>1. \A u \in Uri : /\ store[u] = None <=> Digest(store)[u] = None
                     /\ store[u] # None => Digest(store)[u] = store[u].text
  BY ServerAssumption DEF Digest, TypeInv, Documents
<1>2. A = C
  <2>1. Open(store) = S  BY <1>1 DEF Open
  <2>2. \A u \in S : u \in Uri /\ Digest(store)[u] = store[u].text  BY <1>1
  <2> HIDE DEF S
  <2> QED  BY <2>1, <2>2
<1>3. B = D
  <2>1. DiskOnly = T  BY <1>1, TableOfFile DEF DiskOnly
  <2>2. ASSUME NEW n \in T
        PROVE  tables[n] = [uri |-> tables[n].uri,
                            text |-> CachedParse(tables[n].uri).text]
    <3>1. /\ tables[n].uri \in Uri
          /\ tables[n] = [uri |-> tables[n].uri, text |-> disk[tables[n].uri]]
      BY TableOfFile
    <3>2. CachedParse(tables[n].uri).text = disk[tables[n].uri]
      BY <3>1 DEF CachedParse, ParsedKept
    <3> QED  BY <3>1, <3>2
  <2> HIDE DEF T
  <2> QED  BY <2>1, <2>2
<1>4. SymbolList = A \cup B  BY DEF SymbolList
<1>5. SymbolsFor(Digest(store)) = C \cup D  BY DEF SymbolsFor
<1>6. T = N  BY <1>1, TableOfFile
<1>7. A \cup D = A \cup {tables[n] : n \in N}  BY <1>6
<1> HIDE DEF A, B, C, D
<1> QED  BY <1>2, <1>3, <1>4, <1>5, <1>7 DEF A

\* RingCache::get_or_compute keeps what the ring holds, and has the key then.
LEMMA RingHolds ==
    ASSUME NEW ring \in Seq(RingEntry), NEW texts \in [Uri -> Text \cup {None}],
           NEW after, after = GetOrCompute(ring, texts, SymbolsFor(texts))
    PROVE  after \in Seq(RingEntry) /\ ValueOf(after, texts) = SymbolsFor(texts)
<1> DEFINE e == [key |-> texts, value |-> SymbolsFor(texts)]
           rest == IF Len(ring) >= Slots THEN Tail(ring) ELSE ring
<1>1. /\ e \in RingEntry /\ e.key = texts
      /\ \A f \in RingEntry : f.value = SymbolsFor(f.key)
  BY DEF RingEntry
<1> HIDE DEF e
<1>2. after \in Seq(RingEntry) /\ \E i \in DOMAIN after : after[i].key = texts
  <2>1. CASE \E i \in DOMAIN ring : ring[i].key = texts
    BY <2>1 DEF GetOrCompute
  <2>2. CASE ~\E i \in DOMAIN ring : ring[i].key = texts
    <3>1. rest \in Seq(RingEntry)
      <4>1. CASE Len(ring) >= Slots
        <5>1. ring # <<>>  BY <4>1, ServerAssumption
        <5>2. Tail(ring) \in Seq(RingEntry)  BY <5>1, TailLists
        <5> QED  BY <4>1, <5>2
      <4> QED  BY <4>1
    <3>2. after = Append(rest, e)  BY <2>2 DEF GetOrCompute, e
    <3> HIDE DEF rest
    <3>3. /\ after \in Seq(RingEntry) /\ Len(rest) \in Nat
          /\ DOMAIN after = 1..(Len(rest) + 1) /\ after[Len(rest) + 1] = e
      BY <1>1, <3>1, <3>2, AppendLists, LenProperty
    <3> QED  BY <1>1, <3>3
  <2> QED  BY <2>1, <2>2
<1> DEFINE j == CHOOSE i \in DOMAIN after : after[i].key = texts
<1>3. j \in DOMAIN after /\ after[j].key = texts  BY <1>2
<1>4. ValueOf(after, texts) = after[j].value  BY DEF ValueOf
<1> HIDE DEF j
<1>5. after[j] \in RingEntry  BY <1>2, <1>3, ElementOf
<1> QED  BY <1>1, <1>2, <1>3, <1>4, <1>5

LEMMA RingsStep ==
    ASSUME TypeInv, TypeInv', DigestFollows, ParsedKept, TablesKept, RingsKept,
           ~Twins, disk' = disk, project' = project, [Next]_vars
    PROVE  RingsKept'
<1>1. tables' = tables  BY TablesKeptStep
<1>2. \A texts : SymbolsFor(texts)' = SymbolsFor(texts)
  BY <1>1 DEF SymbolsFor
<1>3. RingEntry' = RingEntry  BY <1>2 DEF RingEntry
<1>4. CASE UNCHANGED <<symbols, filtered>>
  BY <1>3, <1>4 DEF RingsKept
<1>5. CASE Handle
  BY <1>4, <1>5 DEF Handle, DidOpen, DidChange, DidSave, DidClose,
     DidChangeWatchedFiles, Publish, cacheVars
<1>6. CASE Environment \/ ClientReports
  BY <1>4, <1>6, EnvironmentStep DEF serverVars, cacheVars
<1>7. CASE Resume \/ UNCHANGED vars
  BY <1>4, <1>7 DEF Resume, Publish, vars, cacheVars
<1>8. CASE Symbol
  <2> DEFINE key == DocstoreFingerprint(store)
  <2>1. key = Digest(store)  BY FingerprintIsNow
  <2>2. key \in [Uri -> Text \cup {None}]
    BY <2>1 DEF Digest, TypeInv, Documents
  <2>3. SymbolList = SymbolsFor(key)  BY <2>1, ListIsNow
  <2>4. symbols \in Seq(RingEntry) /\ filtered \in Seq(RingEntry)
    BY DEF RingsKept
  <2>5. CASE \E i \in DOMAIN filtered : filtered[i].key = key
    <3>1. UNCHANGED <<symbols, filtered>>  BY <1>8, <2>5 DEF Symbol
    <3> QED  BY <1>4, <3>1
  <2>6. CASE ~\E i \in DOMAIN filtered : filtered[i].key = key
    <3>1. /\ symbols' = GetOrCompute(symbols, key, SymbolsFor(key))
          /\ filtered' = GetOrCompute(filtered, key, ValueOf(symbols', key))
      BY <1>8, <2>3, <2>6 DEF Symbol
    <3> HIDE DEF key
    <3>2. symbols' \in Seq(RingEntry) /\ ValueOf(symbols', key) = SymbolsFor(key)
      BY <2>2, <2>4, <3>1, RingHolds
    <3>3. filtered' = GetOrCompute(filtered, key, SymbolsFor(key))
      BY <3>1, <3>2
    <3>4. filtered' \in Seq(RingEntry)  BY <2>2, <2>4, <3>3, RingHolds
    <3> QED  BY <1>3, <3>2, <3>4 DEF RingsKept
  <2> QED  BY <2>5, <2>6
<1> QED  BY <1>5, <1>6, <1>7, <1>8 DEF Next

SymbolsInv == InboxInv /\ DiskType /\ SymbolInv

LEMMA SymbolsInvInit == Init => SymbolsInv
<1> SUFFICES ASSUME Init PROVE SymbolsInv  OBVIOUS
<1>1. InboxInv /\ DiskType  BY InboxInvInit, DiskTypeInit
<1>2. OpensFromDisk /\ StartsFromDisk(store) /\ DigestFollows /\ ParsedKept
  BY DEF Init, OpensFromDisk, StartsFromDisk, DigestFollows, ParsedKept
<1>3. TablesKept  BY DEF Init, TablesKept
<1>4. RingsKept  BY DEF Init, RingsKept
<1> QED  BY <1>1, <1>2, <1>3, <1>4 DEF SymbolsInv, SymbolInv

LEMMA SymbolsInvStep == SymbolsInv /\ [Next]_vars => SymbolsInv'
<1> SUFFICES ASSUME SymbolsInv, [Next]_vars PROVE SymbolsInv'  OBVIOUS
<1>1. InboxInv /\ InboxInv' /\ DiskType /\ TypeInv /\ TypeInv' /\ InboxFollowsEditor
  BY InboxInvStep DEF SymbolsInv, InboxInv
<1>2. DiskType'  BY <1>1, DiskStep
<1>3. ASSUME ~ghost'.rewritten
      PROVE  /\ OpensFromDisk' /\ StartsFromDisk(store)' /\ DigestFollows'
             /\ ParsedKept' /\ TablesKept' /\ (Twins' \/ RingsKept')
  <2>1. ~ghost.rewritten /\ disk' = disk /\ project' = project
    BY <1>1, <1>3, DiskStays
  <2>2. /\ OpensFromDisk /\ StartsFromDisk(store) /\ DigestFollows
        /\ ParsedKept /\ TablesKept /\ (Twins \/ RingsKept)
    BY <2>1 DEF SymbolsInv, SymbolInv
  <2>3. OpensFromDisk'  BY <1>1, <2>1, <2>2, OpensStep
  <2>4. StartsFromDisk(store)' /\ DigestFollows'  BY <1>1, <2>1, <2>2, DigestStep
  <2>5. ParsedKept'  BY <1>1, <2>1, <2>2, ParsedStep
  <2>6. TablesKept'  BY <1>1, <2>1, <2>2, TablesKeptStep
  <2>7. Twins' <=> Twins  BY <2>1 DEF Twins, Files
  <2>8. Twins \/ RingsKept'  BY <1>1, <2>1, <2>2, RingsStep
  <2> QED  BY <2>3, <2>4, <2>5, <2>6, <2>7, <2>8
<1> QED  BY <1>1, <1>2, <1>3 DEF SymbolsInv, SymbolInv

\* A request for symbols that the rings answer gets those of the open
\* documents as they are and of the files that are not open, unless a file
\* was written since the server started or two files declare one table: the
\* rings are keyed by a fingerprint that is remembered by versions, and a
\* document that is opened again starts its versions afresh.
THEOREM SymbolsAreRight == Spec => []SymbolsCurrent
<1>1. SymbolsInv => SymbolsCurrent
  <2> SUFFICES ASSUME SymbolsInv, NEW i \in DOMAIN filtered,
                      filtered[i].key = DocstoreFingerprint(store),
                      ~ghost.rewritten, ~Twins
               PROVE  filtered[i].value =
                         {[uri |-> u, text |-> store[u].text] : u \in Open(store)}
                         \cup {tables[n] : n \in {m \in Table :
                                 tables[m] # None /\ store[tables[m].uri] = None}}
    BY DEF SymbolsCurrent, Twins
  <2>1. TypeInv /\ DigestFollows /\ TablesKept /\ ParsedKept /\ RingsKept
    BY DEF SymbolsInv, SymbolInv, InboxInv
  <2>2. filtered[i].key = Digest(store)  BY <2>1, FingerprintIsNow
  <2>3. filtered[i] \in RingEntry  BY <2>1, ElementOf DEF RingsKept
  <2>4. filtered[i].value = SymbolsFor(Digest(store))
    BY <2>2, <2>3 DEF RingEntry
  <2> QED  BY <2>1, <2>4, ListIsNow
<1> QED  BY <1>1, SymbolsInvInit, SymbolsInvStep, PTL DEF Spec
=============================================================================
