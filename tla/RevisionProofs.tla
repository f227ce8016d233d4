---------------------------- MODULE RevisionProofs ----------------------------
(***************************************************************************)
(* Proof that the revision command never rewrites a migration file, however *)
(* many of its users overlap.  Between Plan and Answer a command keeps the *)
(* version it has computed, while others write files: what makes the file  *)
(* it will write a new one is the invariant NamesAreFree.                  *)
(***************************************************************************)
EXTENDS Revision, TLAPS

Asking(u) == cmd[u].pc = "asking"
FileOf(u) == FileName(Pattern, cmd[u].version, Message[u])

VersionsAreNat ==
    /\ DOMAIN cmd = Users
    /\ \A u \in Users : Asking(u) => cmd[u].version \in Nat
    /\ VersionsOf(migrations) \subseteq Nat

\* max() of migration_filename's callers has an answer: some version, or 0 in
\* an empty directory, is the newest.
HasNewest ==
    \E m \in VersionsOf(migrations) \cup {0} :
        \A v \in VersionsOf(migrations) \cup {0} : m >= v

NamedByVersion ==
    \A f \in DOMAIN migrations : f[1] = migrations[f].version

NamesAreFree ==
    \A u \in Users : Asking(u) => FileOf(u) \notin DOMAIN migrations

\* The inductive invariant, where NamesAreOwn: without it a file may be
\* overwritten, and even the newest version may go.
FilesInv ==
    /\ VersionsAreNat
    /\ HasNewest
    /\ NamedByVersion
    /\ NamesAreFree

----------------------------------------------------------------------------
(* Versions.                                                               *)

\* The version that load_migrations' maximum leads to is above every file's.
LEMMA NextIsNew ==
    ASSUME VersionsAreNat, HasNewest
    PROVE  /\ NextVersion(migrations) \in Nat
           /\ \A f \in DOMAIN migrations :
                 migrations[f].version < NextVersion(migrations)
<1> DEFINE S == VersionsOf(migrations) \cup {0}
           top == Max(S)
<1>1. S \subseteq Nat  BY DEF VersionsAreNat
<1>2. \E m \in S : \A v \in S : m >= v  BY DEF HasNewest
<1>3. top \in S /\ \A v \in S : top >= v
  <2> HIDE DEF S
  <2> QED  BY <1>2 DEF Max
<1>4. \A f \in DOMAIN migrations : migrations[f].version \in S
  BY DEF VersionsOf
<1>5. NextVersion(migrations) = top + 1  BY DEF NextVersion
<1> HIDE DEF S, top
<1>6. top \in Nat  BY <1>1, <1>3
<1>7. ASSUME NEW f \in DOMAIN migrations
      PROVE  migrations[f].version < top + 1
  <2>1. migrations[f].version \in Nat /\ top >= migrations[f].version
    BY <1>1, <1>3, <1>4
  <2> QED  BY <1>6, <2>1
<1> QED  BY <1>5, <1>6, <1>7

\* FileName tells versions apart where the pattern mentions them, and users
\* where it mentions their messages.
LEMMA NamesTell ==
    ASSUME NEW version \in Nat, NEW other \in Nat, NEW message, NEW word
    PROVE  /\ "version" \in Pattern => FileName(Pattern, version, message)[1] = version
           /\ /\ "message" \in Pattern
              /\ FileName(Pattern, version, message) = FileName(Pattern, other, word)
              => message = word
BY DEF FileName

----------------------------------------------------------------------------
(* The steps.                                                              *)

LEMMA InitFiles == Init => FilesInv
<1> SUFFICES ASSUME Init PROVE FilesInv  OBVIOUS
<1>1. DOMAIN migrations = {}  BY DEF Init
<1>2. VersionsOf(migrations) = {}  BY <1>1 DEF VersionsOf
<1>3. DOMAIN cmd = Users /\ \A u \in Users : ~Asking(u)
  BY DEF Init, Idle, Asking
<1>4. VersionsAreNat  BY <1>2, <1>3 DEF VersionsAreNat
<1>5. HasNewest  BY <1>2 DEF HasNewest
<1>6. NamedByVersion /\ NamesAreFree
  BY <1>1, <1>3 DEF NamedByVersion, NamesAreFree
<1> QED  BY <1>4, <1>5, <1>6 DEF FilesInv

\* What a step leaves true that keeps the files: commands only become idle.
LEMMA SameFiles ==
    ASSUME FilesInv, project' = project, migrations' = migrations,
           DOMAIN cmd' = DOMAIN cmd,
           \A u \in Users : Asking(u)' => cmd'[u] = cmd[u]
    PROVE  FilesInv'
<1>1. /\ Users' = Users /\ Pattern' = Pattern
      /\ VersionsOf(migrations)' = VersionsOf(migrations)
  BY DEF Users, Pattern, VersionsOf
<1>2. \A u \in Users : Asking(u)' => Asking(u) /\ FileOf(u)' = FileOf(u)
  BY <1>1 DEF Asking, FileOf
<1>3. VersionsAreNat'  BY <1>1, <1>2 DEF VersionsAreNat, FilesInv
<1>4. HasNewest'  BY <1>1 DEF HasNewest, FilesInv
<1>5. NamedByVersion' /\ NamesAreFree'
  BY <1>1, <1>2 DEF NamedByVersion, NamesAreFree, FilesInv
<1> QED  BY <1>3, <1>4, <1>5 DEF FilesInv

\* A command that starts to ask has a version above every file's.
LEMMA PlanFiles ==
    ASSUME FilesInv, NamesAreOwn, project' = project,
           NEW u \in Users, NEW order, Plan(u, order)
    PROVE  FilesInv'
<1> DEFINE version == NextVersion(migrations)
           planned == [pc |-> "asking",
                       actions |-> RewriteForRecreation(
                           DiffSchemas(SchemaFromPlans(migrations, order), models),
                           models),
                       baseline |-> SchemaFromPlans(migrations, order),
                       target |-> models, version |-> version]
<1>1. migrations' = migrations /\ cmd' = [cmd EXCEPT ![u] = planned]
  BY DEF Plan
<1>2. planned.version = version  OBVIOUS
<1> HIDE DEF planned
<1>3. /\ Users' = Users /\ Pattern' = Pattern
      /\ VersionsOf(migrations)' = VersionsOf(migrations)
  BY <1>1 DEF Users, Pattern, VersionsOf
<1>4. DOMAIN cmd = Users  BY DEF FilesInv, VersionsAreNat
<1>5. /\ version \in Nat
      /\ \A f \in DOMAIN migrations : migrations[f].version < version
  BY NextIsNew DEF FilesInv
<1> HIDE DEF version
<1>6. cmd'[u].version = version  BY <1>1, <1>2, <1>4
<1>7. \A v \in Users \ {u} : cmd'[v] = cmd[v]  BY <1>1, <1>4
<1>8. VersionsAreNat'
  <2>1. DOMAIN cmd' = Users'  BY <1>1, <1>3, <1>4
  <2>2. ASSUME NEW v \in Users, Asking(v)' PROVE cmd'[v].version \in Nat
    BY <1>5, <1>6, <1>7, <2>2 DEF FilesInv, VersionsAreNat, Asking
  <2> QED  BY <1>3, <2>1, <2>2 DEF FilesInv, VersionsAreNat
<1>9. HasNewest'  BY <1>3 DEF HasNewest, FilesInv
<1>10. NamedByVersion'  BY <1>1 DEF NamedByVersion, FilesInv
<1>11. NamesAreFree'
  <2>1. FileOf(u)' \notin DOMAIN migrations
    <3>1. FileOf(u)' = FileName(Pattern, version, Message[u])
      BY <1>3, <1>6 DEF FileOf
    <3>2. FileOf(u)'[1] = version
      BY <1>5, <3>1, NamesTell DEF NamesAreOwn
    <3>3. SUFFICES ASSUME FileOf(u)' \in DOMAIN migrations PROVE FALSE
      OBVIOUS
    <3>4. migrations[FileOf(u)'].version = version
      BY <3>2, <3>3 DEF FilesInv, NamedByVersion
    <3> QED  BY <1>5, <3>3, <3>4
  <2>2. ASSUME NEW v \in Users \ {u}, Asking(v)'
        PROVE  FileOf(v)' \notin DOMAIN migrations
    BY <1>3, <1>7, <2>2 DEF FilesInv, NamesAreFree, Asking, FileOf
  <2> QED  BY <1>1, <1>3, <2>1, <2>2 DEF NamesAreFree
<1> QED  BY <1>8, <1>9, <1>10, <1>11 DEF FilesInv

\* What write_migration_file does to the files and to the command.
Writes(u, file) ==
    /\ Asking(u)
    /\ migrations' = WithKey(migrations, FileOf(u), file)
    /\ file.version = cmd[u].version
    /\ cmd' = [cmd EXCEPT ![u] = Idle]

LEMMA AnswerWrites ==
    ASSUME NEW u \in Users, Answer(u)
    PROVE  \E file : Writes(u, file)
<1>1. PICK session, deleting : Write(u, session, deleting)  BY DEF Answer
<1> DEFINE file == [version |-> cmd[u].version, actions |-> session.plan]
<1>2. Asking(u)  BY DEF Answer, Asking
<1>3. Writes(u, file)  BY <1>1, <1>2 DEF Write, Writes, FileOf
<1> QED  BY <1>3

\* The name is free, so what is written is one more file; and nobody else is
\* about to write it.
LEMMA AnswerFiles ==
    ASSUME FilesInv, NamesAreOwn, project' = project,
           NEW u \in Users, NEW file, Writes(u, file)
    PROVE  FilesInv'
<1> DEFINE name == FileOf(u)
           version == cmd[u].version
<1>1. /\ Asking(u) /\ migrations' = WithKey(migrations, name, file)
      /\ file.version = version
      /\ cmd' = [cmd EXCEPT ![u] = Idle]
  BY DEF Writes
<1>2. DOMAIN cmd = Users /\ version \in Nat
  BY <1>1 DEF FilesInv, VersionsAreNat
<1>3. name \notin DOMAIN migrations  BY <1>1 DEF FilesInv, NamesAreFree
<1>4. name[1] = version  BY <1>2, NamesTell DEF NamesAreOwn, FileOf
<1> HIDE DEF name, version
<1>5. /\ DOMAIN migrations' = DOMAIN migrations \cup {name}
      /\ migrations'[name] = file
      /\ \A f \in DOMAIN migrations : migrations'[f] = migrations[f]
  BY <1>1, <1>3 DEF WithKey
<1>6. Users' = Users /\ Pattern' = Pattern  BY DEF Users, Pattern
<1>7. ~Asking(u)' /\ \A v \in Users \ {u} : cmd'[v] = cmd[v]
  BY <1>1, <1>2 DEF Asking, Idle
<1>8. VersionsOf(migrations)' = VersionsOf(migrations) \cup {version}
  <2>1. \A f \in DOMAIN migrations' :
            migrations'[f].version \in VersionsOf(migrations) \cup {version}
    BY <1>1, <1>5 DEF VersionsOf
  <2>2. \A f \in DOMAIN migrations :
            f \in DOMAIN migrations' /\ migrations'[f].version = migrations[f].version
    BY <1>5
  <2>3. name \in DOMAIN migrations' /\ migrations'[name].version = version
    BY <1>1, <1>5
  <2> QED  BY <2>1, <2>2, <2>3 DEF VersionsOf
<1>9. VersionsAreNat'
  <2>1. DOMAIN cmd' = Users'  BY <1>1, <1>2, <1>6
  <2>2. \A v \in Users : Asking(v)' => cmd'[v].version \in Nat
    BY <1>7 DEF FilesInv, VersionsAreNat, Asking
  <2>3. VersionsOf(migrations)' \subseteq Nat
    BY <1>2, <1>8 DEF FilesInv, VersionsAreNat
  <2> QED  BY <1>6, <2>1, <2>2, <2>3 DEF VersionsAreNat
<1>10. HasNewest'
  <2> DEFINE S == VersionsOf(migrations) \cup {0}
  <2>1. S \subseteq Nat  BY DEF FilesInv, VersionsAreNat
  <2>2. PICK m \in S : \A v \in S : m >= v  BY DEF FilesInv, HasNewest
  <2>3. (VersionsOf(migrations) \cup {0})' = S \cup {version}  BY <1>8
  <2> HIDE DEF S
  <2>4. \E n \in S \cup {version} : \A v \in S \cup {version} : n >= v
    <3>1. CASE m >= version
      <4>1. \A v \in S \cup {version} : m >= v  BY <2>2, <3>1
      <4> QED  BY <4>1
    <3>2. CASE ~(m >= version)
      <4>1. \A v \in S : version >= v  BY <1>2, <2>1, <2>2, <3>2
      <4>2. version >= version  BY <1>2
      <4> QED  BY <4>1, <4>2
    <3> QED  BY <3>1, <3>2
  <2> QED  BY <2>3, <2>4 DEF HasNewest
<1>11. NamedByVersion'
  <2>1. \A f \in DOMAIN migrations : f[1] = migrations[f].version
    BY DEF FilesInv, NamedByVersion
  <2> QED  BY <1>1, <1>4, <1>5, <2>1 DEF NamedByVersion
<1>12. NamesAreFree'
  <2> SUFFICES ASSUME NEW v \in Users, Asking(v)'
               PROVE  FileOf(v)' \notin DOMAIN migrations'
    BY <1>6 DEF NamesAreFree
  <2>1. v # u /\ cmd'[v] = cmd[v]  BY <1>7
  <2>2. Asking(v) /\ FileOf(v)' = FileOf(v)  BY <1>6, <2>1 DEF Asking, FileOf
  <2>3. FileOf(v) \notin DOMAIN migrations  BY <2>2 DEF FilesInv, NamesAreFree
  <2>4. FileOf(v) # name
    <3>1. "message" \in Pattern /\ Message[v] # Message[u]
      BY <2>1 DEF NamesAreOwn
    <3>2. cmd[v].version \in Nat /\ cmd[u].version \in Nat
      BY <1>1, <2>2 DEF FilesInv, VersionsAreNat
    <3> QED  BY <3>1, <3>2, NamesTell DEF FileOf, name
  <2> QED  BY <1>5, <2>2, <2>3, <2>4
<1> QED  BY <1>9, <1>10, <1>11, <1>12 DEF FilesInv

LEMMA NextFiles ==
    ASSUME NamesAreOwn, FilesInv, [Next]_vars
    PROVE  FilesInv'
<1>1. project' = project  BY DEF Next, vars
<1>2. ASSUME UNCHANGED vars PROVE FilesInv'
  BY <1>1, <1>2, SameFiles DEF vars
<1>3. ASSUME NEW schema \in Models, EditModels(schema) PROVE FilesInv'
  BY <1>1, <1>3, SameFiles DEF EditModels
<1>4. ASSUME NEW u \in Users, NEW order \in LoadOrders(migrations), Plan(u, order)
      PROVE  FilesInv'
  BY <1>1, <1>4, PlanFiles
<1>5. ASSUME NEW u \in Users, Answer(u) PROVE FilesInv'
  BY <1>1, <1>5, AnswerWrites, AnswerFiles
<1>6. ASSUME NEW u \in Users, Cancel(u) PROVE FilesInv'
  <2>1. migrations' = migrations /\ cmd' = [cmd EXCEPT ![u] = Idle]
    BY <1>6 DEF Cancel
  <2>2. DOMAIN cmd = Users  BY DEF FilesInv, VersionsAreNat
  <2>3. DOMAIN cmd' = DOMAIN cmd  BY <2>1
  <2>4. \A v \in Users : Asking(v)' => cmd'[v] = cmd[v]
    BY <2>1, <2>2 DEF Asking, Idle
  <2> QED  BY <1>1, <2>1, <2>3, <2>4, SameFiles
<1> QED  BY <1>2, <1>3, <1>4, <1>5, <1>6 DEF Next

\* Only an answered revision changes the migrations, and it adds a file.
LEMMA StepKeepsFiles ==
    ASSUME NamesAreOwn, FilesInv, [Next]_vars
    PROVE  \A f \in DOMAIN migrations :
               f \in DOMAIN migrations' /\ migrations'[f] = migrations[f]
<1>1. ASSUME migrations' # migrations
      PROVE  \E u \in Users : Answer(u)
  BY <1>1 DEF Next, vars, EditModels, Plan, Cancel
<1>2. ASSUME NEW u \in Users, NEW file, Writes(u, file)
      PROVE  \A f \in DOMAIN migrations :
                 f \in DOMAIN migrations' /\ migrations'[f] = migrations[f]
  <2>1. FileOf(u) \notin DOMAIN migrations
    BY <1>2 DEF Writes, FilesInv, NamesAreFree
  <2> QED  BY <1>2, <2>1 DEF Writes, WithKey
<1> QED  BY <1>1, <1>2, AnswerWrites

----------------------------------------------------------------------------
\* Migration files are never rewritten (write_migration_file): whoever runs
\* the command meanwhile, and whatever the models become, a file that a
\* revision wrote stays as it is, provided that the pattern tells versions and
\* users apart.
THEOREM FilesStayFinal == Spec => FilesAreFinal
<1> DEFINE Inv == NamesAreOwn => FilesInv
           Kept == \A f \in DOMAIN migrations :
                      f \in DOMAIN migrations' /\ migrations'[f] = migrations[f]
<1>1. Init => Inv  BY InitFiles
<1>2. Inv /\ [Next]_vars => Inv'
  <2> SUFFICES ASSUME Inv, [Next]_vars, NamesAreOwn' PROVE FilesInv'  OBVIOUS
  <2>1. project' = project  BY DEF Next, vars
  <2>2. NamesAreOwn  BY <2>1 DEF NamesAreOwn, Users, Pattern
  <2> QED  BY <2>2, NextFiles
<1>3. Inv /\ [Next]_vars => [NamesAreOwn => Kept]_migrations
  BY StepKeepsFiles
<1> QED  BY <1>1, <1>2, <1>3, PTL DEF Spec, FilesAreFinal
=============================================================================
