---------------------------- MODULE ExportProofs ----------------------------
(***************************************************************************)
(* Proofs about the export directory: whatever is exported, edited or      *)
(* killed, a finished export is complete and exact, and the ORMs that do   *)
(* not sweep the directory leave the user's files alone.                   *)
(***************************************************************************)
EXTENDS Export, SequenceFacts

Fields == {"pc", "orm", "loaded", "writes", "declared", "chain"}
Pcs == {"idle", "done", "failed", "refused", "loaded", "writing", "chaining"}

\* The models as a command that has started loaded them.
Active == job.pc \in {"loaded", "writing", "chaining", "done"}
LoadedIn(order) == [i \in DOMAIN order |-> [order[i] EXCEPT !.table = Normalize(@)]]

Outs == Outputs(job.orm, job.loaded)
Entries == UNION {ToSet(ModChain(job.loaded[i])) : i \in DOMAIN job.loaded}

\* What a command holds is what it has computed from the models on disk, which
\* do not change while it runs.
JobInv ==
    /\ DOMAIN job = Fields /\ job.pc \in Pcs
    /\ project \in Projects /\ models \in project.versions
    /\ Active =>
          /\ job.orm \in Orms \cap project.orms
          /\ \E order \in SetToSeqs(models) : job.loaded = LoadedIn(order)
    /\ job.pc = "writing" => job.writes \in Seq(ToSet(Outs))
    /\ job.pc # "writing" => job.writes = <<>>
    /\ job.pc \in {"loaded", "writing"} => job.declared = 0
    /\ job.pc = "chaining" =>
          /\ job.orm = "seaorm"
          /\ job.declared \in 0 .. Len(job.loaded)
          /\ job.chain \in Seq(Entries)
    /\ job.pc # "chaining" => job.chain = <<>>

----------------------------------------------------------------------------
(* Sequences.                                                              *)

LEMMA RemoveAtKeeps ==
    ASSUME NEW S, NEW s \in Seq(S), NEW i \in DOMAIN s
    PROVE  /\ RemoveAt(s, i) \in Seq(S)
           /\ ToSet(RemoveAt(s, i)) \subseteq ToSet(s)
           /\ ToSet(s) \subseteq ToSet(RemoveAt(s, i)) \cup {s[i]}
<1> DEFINE t == SubSeq(s, 1, i - 1)
           u == SubSeq(s, i + 1, Len(s))
           r == t \o u
<1>1. i \in 1 .. Len(s) /\ Len(s) \in Nat  OBVIOUS
<1>2. /\ t \in Seq(S) /\ Len(t) = i - 1
      /\ \A k \in 1 .. (i - 1) : t[k] = s[k]
  BY <1>1
<1>3. /\ u \in Seq(S) /\ Len(u) = Len(s) - i
      /\ \A k \in 1 .. (Len(s) - i) : u[k] = s[k + i]
  BY <1>1
<1> HIDE DEF t, u
<1>4. /\ r \in Seq(S) /\ Len(r) = Len(s) - 1
      /\ \A k \in 1 .. (i - 1) : r[k] = s[k]
      /\ \A k \in i .. (Len(s) - 1) : r[k] = s[k + 1]
  <2> DEFINE At(k) == IF k <= Len(t) THEN t[k] ELSE u[k - Len(t)]
  <2>0. /\ r \in Seq(S) /\ Len(r) = Len(t) + Len(u)
        /\ \A k \in 1 .. Len(t) + Len(u) : r[k] = At(k)
    BY <1>2, <1>3, ConcatProperties
  <2>1. r \in Seq(S) /\ Len(r) = Len(s) - 1  BY <1>1, <1>2, <1>3, <2>0
  <2>2. ASSUME NEW k \in 1 .. (i - 1) PROVE r[k] = s[k]
    <3>1. k \in 1 .. Len(t) /\ k \in 1 .. Len(t) + Len(u)  BY <1>1, <1>2, <1>3
    <3>2. r[k] = t[k]  BY <1>1, <1>2, <2>0, <3>1
    <3> QED  BY <1>2, <3>2
  <2>3. ASSUME NEW k \in i .. (Len(s) - 1) PROVE r[k] = s[k + 1]
    <3>1. k \in 1 .. Len(t) + Len(u) /\ k > Len(t)  BY <1>1, <1>2, <1>3
    <3>2. r[k] = u[k - Len(t)]
      <4>1. ~(k <= Len(t))  BY <1>1, <1>2, <3>1
      <4>2. r[k] = At(k)  BY <2>0, <3>1
      <4> QED  BY <4>1, <4>2
    <3>3. k - Len(t) \in 1 .. (Len(s) - i) /\ k - Len(t) + i = k + 1
      BY <1>1, <1>2
    <3> QED  BY <1>3, <3>2, <3>3
  <2> QED  BY <2>1, <2>2, <2>3
<1>5. RemoveAt(s, i) = r  BY DEF RemoveAt, t, u
<1> HIDE DEF r
<1>6. ASSUME NEW k \in DOMAIN r PROVE r[k] \in ToSet(s)
  <2>1. k \in 1 .. (Len(s) - 1)  BY <1>1, <1>4
  <2>2. CASE k < i  BY <1>1, <1>4, <2>1, <2>2 DEF ToSet
  <2>3. CASE k >= i
    <3>1. k + 1 \in DOMAIN s /\ r[k] = s[k + 1]  BY <1>1, <1>4, <2>1, <2>3
    <3> QED  BY <3>1 DEF ToSet
  <2> QED  BY <1>1, <2>1, <2>2, <2>3
<1>7. ASSUME NEW k \in DOMAIN s, k # i PROVE s[k] \in ToSet(r)
  <2>1. CASE k < i
    <3>1. k \in DOMAIN r /\ r[k] = s[k]  BY <1>1, <1>4, <2>1
    <3> QED  BY <3>1 DEF ToSet
  <2>2. CASE k > i
    <3>1. (k - 1) \in DOMAIN r /\ r[k - 1] = s[k]  BY <1>1, <1>4, <2>2
    <3> QED  BY <3>1 DEF ToSet
  <2> QED  BY <1>1, <1>7, <2>1, <2>2
<1>8. ToSet(r) \subseteq ToSet(s)  BY <1>6 DEF ToSet
<1>9. ToSet(s) \subseteq ToSet(r) \cup {s[i]}  BY <1>7 DEF ToSet
<1> QED  BY <1>4, <1>5, <1>8, <1>9

LEMMA SeqOfImage ==
    ASSUME NEW n \in Nat, NEW f, f = [i \in 1 .. n |-> f[i]]
    PROVE  f \in Seq(ToSet(f))
<1>1. \A i \in 1 .. n : f[i] \in ToSet(f)  BY DEF ToSet
<1>2. f \in [1 .. n -> ToSet(f)]  BY <1>1
<1> QED  BY <1>2

\* The declarations that are left after one of them.
LEMMA TailKeeps ==
    ASSUME NEW S, NEW s \in Seq(S), s # <<>>
    PROVE  /\ Tail(s) \in Seq(S) /\ s[1] \in S
           /\ ToSet(s) = ToSet(Tail(s)) \cup {s[1]}
<1>1. /\ Tail(s) \in Seq(S) /\ Len(Tail(s)) = Len(s) - 1 /\ Len(s) >= 1
      /\ \A k \in 1 .. (Len(s) - 1) : Tail(s)[k] = s[k + 1]
  OBVIOUS
<1>2. ASSUME NEW k \in DOMAIN s PROVE s[k] \in ToSet(Tail(s)) \cup {s[1]}
  <2>1. CASE k = 1  BY <2>1
  <2>2. CASE k # 1
    <3>1. (k - 1) \in DOMAIN Tail(s) /\ Tail(s)[k - 1] = s[k]  BY <1>1, <2>2
    <3> QED  BY <3>1 DEF ToSet
  <2> QED  BY <2>1, <2>2
<1>3. \A k \in DOMAIN Tail(s) : Tail(s)[k] \in ToSet(s)
  BY <1>1 DEF ToSet
<1>4. s[1] \in ToSet(s) /\ s[1] \in S  BY <1>1 DEF ToSet
<1> QED  BY <1>1, <1>2, <1>3, <1>4 DEF ToSet

----------------------------------------------------------------------------
(* What is loaded, and what is made of it.                                 *)

\* Every command that is active has loaded each model once.
LEMMA LoadedOnce ==
    ASSUME JobInv, Active
    PROVE  \E order \in SetToSeqs(models) :
              /\ job.loaded = LoadedIn(order)
              /\ Len(job.loaded) \in Nat /\ DOMAIN job.loaded = 1 .. Len(job.loaded)
              /\ DOMAIN order = DOMAIN job.loaded
              /\ \A i \in DOMAIN job.loaded :
                    /\ order[i] \in models
                    /\ job.loaded[i].dirs = order[i].dirs
                    /\ job.loaded[i].stem = order[i].stem
                    /\ order[i].dirs \in Seq(Seq(STRING))
                    /\ order[i].stem \in Seq(STRING)
              /\ \A i, j \in DOMAIN job.loaded : i # j => order[i] # order[j]
<1>1. PICK order \in SetToSeqs(models) : job.loaded = LoadedIn(order)
  BY DEF JobInv
<1>2. /\ project \in Projects /\ models \in project.versions
  BY DEF JobInv
<1>3. IsFiniteSet(models)  BY <1>2, ProjectsAssumption
<1>4. Cardinality(models) \in Nat
  BY <1>3, FS_CardinalityType
<1>5. /\ order \in [1 .. Cardinality(models) -> models]
      /\ \A i, j \in 1 .. Cardinality(models) : i # j => order[i] # order[j]
  BY DEF SetToSeqs
<1>6. DOMAIN job.loaded = 1 .. Cardinality(models) /\ DOMAIN order = 1 .. Cardinality(models)
  BY <1>1, <1>5 DEF LoadedIn
<1>7. Len(job.loaded) = Cardinality(models)
  BY <1>1, <1>4, <1>5, <1>6 DEF LoadedIn
<1>8. ASSUME NEW i \in DOMAIN job.loaded
      PROVE  /\ order[i] \in models
             /\ job.loaded[i].dirs = order[i].dirs
             /\ job.loaded[i].stem = order[i].stem
             /\ order[i].dirs \in Seq(Seq(STRING))
             /\ order[i].stem \in Seq(STRING)
  <2>1. order[i] \in models  BY <1>5, <1>6
  <2>2. /\ DOMAIN order[i] = {"dirs", "stem", "table"}
        /\ order[i].dirs \in Seq(Seq(STRING))
        /\ order[i].stem \in Seq(STRING)
    BY <1>2, <2>1, ProjectsAssumption
  <2>3. job.loaded[i] = [order[i] EXCEPT !.table = Normalize(@)]
    BY <1>1, <1>5, <1>6 DEF LoadedIn
  <2> QED  BY <2>1, <2>2, <2>3
<1> QED  BY <1>1, <1>4, <1>5, <1>6, <1>7, <1>8

\* A rendering of one table, and one of the whole schema.
TableOut(i) ==
    <<BuildOutputPath(job.loaded[i], job.orm),
      Rendered(job.orm, job.loaded[i].table.name, job.loaded)>>
FixedOut(i) ==
    <<Path(<<>>, FixedFiles(job.orm)[i], FileExtension(job.orm)),
      Rendered(job.orm, <<>>, job.loaded)>>

LEMMA OutputForms ==
    ASSUME NEW o \in ToSet(Outs)
    PROVE  /\ job.orm \in FilePerTable => \E i \in DOMAIN job.loaded : o = TableOut(i)
           /\ job.orm \notin FilePerTable =>
                 \E i \in DOMAIN FixedFiles(job.orm) : o = FixedOut(i)
<1>1. job.orm \in FilePerTable => Outs = [i \in DOMAIN job.loaded |-> TableOut(i)]
  BY DEF Outs, Outputs, TableOut
<1>2. job.orm \notin FilePerTable =>
          Outs = [i \in DOMAIN FixedFiles(job.orm) |-> FixedOut(i)]
  BY DEF Outs, Outputs, FixedOut
<1> QED  BY <1>1, <1>2 DEF ToSet

\* The renderings are marked as those of their ORM.
LEMMA OutputsFit ==
    ASSUME JobInv, Active
    PROVE  /\ Outs \in Seq(ToSet(Outs))
           /\ \A o \in ToSet(Outs) :
                 /\ o = <<o[1], o[2]>>
                 /\ o[1].ext = FileExtension(job.orm)
                 /\ o[2].by = job.orm /\ o[2].mods = {}
           /\ job.orm \notin FilePerTable => \A o, q \in ToSet(Outs) : o[2] = q[2]
<1>1. Len(job.loaded) \in Nat /\ DOMAIN job.loaded = 1 .. Len(job.loaded)
  BY LoadedOnce
<1>2. CASE job.orm \in FilePerTable
  <2>1. Outs = [i \in 1 .. Len(job.loaded) |-> TableOut(i)]
    BY <1>1, <1>2 DEF Outs, Outputs, TableOut
  <2>2. ASSUME NEW i \in 1 .. Len(job.loaded)
        PROVE  /\ TableOut(i) = <<TableOut(i)[1], TableOut(i)[2]>>
               /\ TableOut(i)[1].ext = FileExtension(job.orm)
               /\ TableOut(i)[2].by = job.orm /\ TableOut(i)[2].mods = {}
    BY DEF BuildOutputPath, Path, Rendered, TableOut
  <2>3. Outs \in Seq(ToSet(Outs))
    <3> DEFINE outs == Outs
               n == Len(job.loaded)
    <3>1. n \in Nat /\ outs = [i \in 1 .. n |-> outs[i]]  BY <1>1, <2>1
    <3> HIDE DEF outs, n
    <3>2. outs \in Seq(ToSet(outs))  BY <3>1, SeqOfImage
    <3> QED  BY <3>2 DEF outs
  <2> QED  BY <1>1, <1>2, <2>2, <2>3, OutputForms
<1>3. CASE job.orm \notin FilePerTable
  <2> DEFINE fixed == FixedFiles(job.orm)
  <2>1. Outs = [i \in DOMAIN fixed |-> FixedOut(i)]
    BY <1>3 DEF Outs, Outputs, FixedOut
  <2>2. \E n \in Nat : DOMAIN fixed = 1 .. n
    <3>1. CASE job.orm = "drizzle"
      <4>1. DOMAIN fixed = 1 .. 3  BY <3>1 DEF FixedFiles
      <4> QED  BY <4>1
    <3>2. CASE job.orm # "drizzle"
      <4>1. fixed = <<<<"model", "s">>>>  BY <3>2 DEF FixedFiles
      <4>2. DOMAIN fixed = 1 .. 1  BY <4>1
      <4> QED  BY <4>2
    <3> QED  BY <3>1, <3>2
  <2> HIDE DEF fixed
  <2>3. ASSUME NEW i
        PROVE  /\ FixedOut(i) = <<FixedOut(i)[1], FixedOut(i)[2]>>
               /\ FixedOut(i)[1].ext = FileExtension(job.orm)
               /\ FixedOut(i)[2].by = job.orm /\ FixedOut(i)[2].mods = {}
               /\ FixedOut(i)[2] = Rendered(job.orm, <<>>, job.loaded)
    BY DEF Path, Rendered, FixedOut
  <2>4. Outs \in Seq(ToSet(Outs))
    <3>1. PICK n \in Nat : DOMAIN fixed = 1 .. n  BY <2>2
    <3> DEFINE outs == Outs
    <3>2. outs = [i \in 1 .. n |-> outs[i]]  BY <2>1, <3>1
    <3> HIDE DEF outs
    <3>3. outs \in Seq(ToSet(outs))  BY <3>1, <3>2, SeqOfImage
    <3> QED  BY <3>3 DEF outs
  <2> QED  BY <1>3, <2>3, <2>4, OutputForms DEF fixed
<1> QED  BY <1>2, <1>3

\* No two renderings go to one file.
LEMMA OutputsApart ==
    ASSUME JobInv, Active, PathsApart
    PROVE  \A o, q \in ToSet(Outs) : o[1] = q[1] => o = q
<1>1. CASE job.orm \notin FilePerTable
  BY <1>1, OutputsFit
<1>2. CASE job.orm \in FilePerTable
  <2>1. PICK order \in SetToSeqs(models) :
            /\ \A i \in DOMAIN job.loaded :
                  /\ order[i] \in models
                  /\ job.loaded[i].dirs = order[i].dirs
                  /\ job.loaded[i].stem = order[i].stem
            /\ \A i, j \in DOMAIN job.loaded : i # j => order[i] # order[j]
    BY LoadedOnce
  <2>2. \A i \in DOMAIN job.loaded :
            BuildOutputPath(job.loaded[i], job.orm) = BuildOutputPath(order[i], job.orm)
    BY <2>1 DEF BuildOutputPath
  <2>3. \A i, j \in DOMAIN job.loaded :
            i # j => BuildOutputPath(job.loaded[i], job.orm)
                         # BuildOutputPath(job.loaded[j], job.orm)
    <3>1. /\ project \in Projects /\ models \in project.versions
          /\ job.orm \in project.orms \cap FilePerTable
      BY <1>2 DEF JobInv
    <3>2. \A m \in models : \A n \in models \ {m} :
              BuildOutputPath(m, job.orm) # BuildOutputPath(n, job.orm)
      BY <3>1 DEF PathsApart
    <3> QED  BY <2>1, <2>2, <3>2
  <2> QED  BY <1>2, <2>3, OutputForms DEF TableOut
<1> QED  BY <1>1, <1>2

----------------------------------------------------------------------------
(* The command, step by step.                                              *)

LEMMA InitJob == Init => JobInv
BY DEF Init, JobInv, Idle, Fields, Pcs, Active

Stopped ==
    /\ DOMAIN job' = Fields /\ job'.pc \in {"idle", "failed", "refused"}
    /\ job'.writes = <<>> /\ job'.chain = <<>>

LEMMA StopsJob ==
    ASSUME JobInv, project' = project, models' \in project.versions, Stopped
    PROVE  JobInv'
BY DEF Stopped, JobInv, Pcs, Active

LEMMA StartJob ==
    ASSUME JobInv, NEW orm \in Orms, StartExport(orm)
    PROVE  JobInv'
<1>1. /\ project' = project /\ models' = models /\ orm \in project.orms
      /\ models \in project.versions /\ project \in Projects
  BY DEF StartExport, JobInv
<1>2. PICK order \in SetToSeqs(models) :
          job' = IF \E m \in models : NormalizeFails(m.table)
                 THEN [Idle EXCEPT !.pc = "failed"]
                 ELSE [Idle EXCEPT !.pc = "loaded", !.orm = orm,
                                   !.loaded = LoadedIn(order)]
  BY DEF StartExport, LoadedIn
<1>3. CASE \E m \in models : NormalizeFails(m.table)
  <2>1. /\ DOMAIN job' = Fields /\ job'.pc = "failed"
        /\ job'.writes = <<>> /\ job'.chain = <<>>
    BY <1>2, <1>3 DEF Idle, Fields
  <2> QED  BY <1>1, <2>1 DEF JobInv, Pcs, Active
<1>4. CASE ~\E m \in models : NormalizeFails(m.table)
  <2>1. /\ DOMAIN job' = Fields /\ job'.pc = "loaded" /\ job'.orm = orm
        /\ job'.loaded = LoadedIn(order) /\ job'.declared = 0
        /\ job'.writes = <<>> /\ job'.chain = <<>>
    BY <1>2, <1>4 DEF Idle, Fields
  <2> QED  BY <1>1, <2>1 DEF JobInv, Pcs, Active
<1> QED  BY <1>3, <1>4

\* Steps of a command that is loaded leave what it has loaded.
Goes(pc) ==
    /\ project' = project /\ models' = models
    /\ Active /\ DOMAIN job' = Fields
    /\ job'.pc = pc /\ job'.orm = job.orm /\ job'.loaded = job.loaded

LEMMA GoesOn ==
    ASSUME JobInv, NEW pc \in {"loaded", "writing", "chaining", "done"}, Goes(pc)
    PROVE  /\ Outs' = Outs /\ Entries' = Entries /\ Active'
           /\ job'.orm \in Orms \cap project'.orms
           /\ \E order \in SetToSeqs(models') : job'.loaded = LoadedIn(order)
           /\ project' \in Projects /\ models' \in project'.versions
BY DEF Goes, JobInv, Outs, Entries, Active

LEMMA WritingJob ==
    ASSUME JobInv, Active, job.pc = "loaded", ToWriting,
           project' = project, models' = models
    PROVE  JobInv' /\ Goes("writing") /\ job'.writes = Outs
<1>1. /\ DOMAIN job' = Fields /\ job'.pc = "writing" /\ job'.orm = job.orm
      /\ job'.loaded = job.loaded /\ job'.writes = Outs
      /\ job'.chain = <<>> /\ job'.declared = 0
  BY DEF ToWriting, JobInv, Fields, Outs
<1>2. Goes("writing")  BY <1>1 DEF Goes
<1>3. Outs' = Outs /\ Outs \in Seq(ToSet(Outs))  BY <1>2, GoesOn, OutputsFit
<1>4. JobInv'
  BY <1>1, <1>2, <1>3, GoesOn DEF JobInv, Pcs
<1> QED  BY <1>1, <1>2, <1>4

LEMMA WriteFileJob ==
    ASSUME JobInv, NEW i, i \in DOMAIN job.writes, WriteFile(i)
    PROVE  /\ JobInv' /\ Goes("writing") /\ job.writes[i] \in ToSet(Outs)
           /\ ToSet(job.writes) \subseteq ToSet(job'.writes) \cup {job.writes[i]}
           /\ ToSet(job'.writes) \subseteq ToSet(job.writes)
<1>1. /\ job.pc = "writing" /\ project' = project /\ models' = models
      /\ job' = [job EXCEPT !.writes = RemoveAt(@, i)]
  BY DEF WriteFile
<1>2. /\ job.writes \in Seq(ToSet(Outs)) /\ DOMAIN job = Fields /\ Active
      /\ job.declared = 0 /\ job.chain = <<>>
  BY <1>1 DEF JobInv, Active
<1>3. /\ DOMAIN job' = Fields /\ job'.pc = "writing" /\ job'.orm = job.orm
      /\ job'.loaded = job.loaded /\ job'.writes = RemoveAt(job.writes, i)
      /\ job'.chain = <<>> /\ job'.declared = 0
  BY <1>1, <1>2 DEF Fields
<1>4. Goes("writing")  BY <1>1, <1>2, <1>3 DEF Goes
<1>5. /\ job'.writes \in Seq(ToSet(Outs)) /\ job.writes[i] \in ToSet(Outs)
      /\ ToSet(job.writes) \subseteq ToSet(job'.writes) \cup {job.writes[i]}
      /\ ToSet(job'.writes) \subseteq ToSet(job.writes)
  BY <1>2, <1>3, RemoveAtKeeps
<1>6. JobInv'
  BY <1>3, <1>4, <1>5, GoesOn DEF JobInv, Pcs
<1> QED  BY <1>4, <1>5, <1>6

LEMMA EndWritingJob ==
    ASSUME JobInv, EndWriting
    PROVE  /\ JobInv'
           /\ job.orm = "seaorm" => Goes("chaining") /\ job'.declared = 0
                                    /\ job'.chain = <<>>
           /\ job.orm # "seaorm" => Goes("done")
<1>1. /\ job.pc = "writing" /\ job.writes = <<>>
      /\ project' = project /\ models' = models
      /\ job' = IF job.orm = "seaorm" THEN [job EXCEPT !.pc = "chaining"]
                ELSE [job EXCEPT !.pc = "done"]
  BY DEF EndWriting
<1>2. DOMAIN job = Fields /\ Active /\ job.declared = 0 /\ job.chain = <<>>
  BY <1>1 DEF JobInv, Active
<1>3. /\ DOMAIN job' = Fields /\ job'.orm = job.orm /\ job'.loaded = job.loaded
      /\ job'.writes = <<>> /\ job'.chain = <<>> /\ job'.declared = 0
  BY <1>1, <1>2 DEF Fields
<1>4. CASE job.orm = "seaorm"
  <2>1. job'.pc = "chaining"  BY <1>1, <1>2, <1>4 DEF Fields
  <2>2. Goes("chaining")  BY <1>1, <1>2, <1>3, <2>1 DEF Goes
  <2>3. Len(job'.loaded) \in Nat  BY <1>2, <1>3, LoadedOnce
  <2>4. job'.declared \in 0 .. Len(job'.loaded) /\ job'.chain \in Seq(Entries')
    BY <1>3, <2>3
  <2>5. JobInv'
    BY <1>3, <1>4, <2>1, <2>2, <2>4, GoesOn DEF JobInv, Pcs
  <2> QED  BY <1>3, <1>4, <2>2, <2>5
<1>5. CASE job.orm # "seaorm"
  <2>1. job'.pc = "done"  BY <1>1, <1>2, <1>5 DEF Fields
  <2>2. Goes("done")  BY <1>1, <1>2, <1>3, <2>1 DEF Goes
  <2>3. JobInv'
    BY <1>3, <1>5, <2>1, <2>2, GoesOn DEF JobInv, Pcs
  <2> QED  BY <1>5, <2>2, <2>3
<1> QED  BY <1>4, <1>5

\* The directories and the name of a model's module.
Comps(m) == Append(WordsOfAll(m.dirs), Words(m.stem))
EntryAt(m, depth) ==
    <<ModPath(SubSeq(Comps(m), 1, depth)), Comps(m)[depth + 1]>>

LEMMA ChainOf ==
    ASSUME NEW m, m.dirs \in Seq(Seq(STRING))
    PROVE  /\ Len(Comps(m)) = Len(m.dirs) + 1
           /\ DOMAIN Comps(m) = 1 .. Len(Comps(m))
           /\ Comps(m) \in Seq(ToSet(Comps(m)))
           /\ ToSet(ModChain(m)) = {EntryAt(m, depth) : depth \in 0 .. Len(m.dirs)}
           /\ ModChain(m) \in Seq(ToSet(ModChain(m)))
<1> DEFINE dirs == WordsOfAll(m.dirs)
           S == ToSet(dirs) \cup {Words(m.stem)}
           n == Len(m.dirs) + 1
<1>1. dirs = [i \in 1 .. Len(m.dirs) |-> Words(m.dirs[i])] /\ Len(m.dirs) \in Nat
  BY DEF WordsOfAll
<1>2. dirs \in Seq(ToSet(dirs)) /\ Len(dirs) = Len(m.dirs)
  <2>1. dirs = [i \in 1 .. Len(m.dirs) |-> dirs[i]]  BY <1>1
  <2>2. Len(m.dirs) \in Nat  BY <1>1
  <2> HIDE DEF dirs
  <2>3. dirs \in Seq(ToSet(dirs))  BY <2>1, <2>2, SeqOfImage
  <2>4. Len(dirs) = Len(m.dirs)  BY <2>1, <2>2
  <2> QED  BY <2>3, <2>4
<1>3. dirs \in Seq(S) /\ Words(m.stem) \in S
  <2> HIDE DEF dirs
  <2> QED  BY <1>2
<1>4. /\ Comps(m) = Append(dirs, Words(m.stem)) /\ Len(Comps(m)) = n
      /\ DOMAIN Comps(m) = 1 .. n
  <2> HIDE DEF dirs, S
  <2>1. Len(Append(dirs, Words(m.stem))) = n
        /\ Append(dirs, Words(m.stem)) \in Seq(S)
    BY <1>2, <1>3
  <2> QED  BY <1>1, <2>1 DEF Comps, dirs
<1>5. ModChain(m) = [i \in 1 .. n |-> EntryAt(m, n - i)]
  BY <1>4 DEF ModChain, EntryAt, Comps
<1>6. n \in Nat /\ n - 1 = Len(m.dirs)  BY <1>1
<1> HIDE DEF dirs, S, n
<1>7. ModChain(m) \in Seq(ToSet(ModChain(m)))
  <2> DEFINE chain == ModChain(m)
  <2>1. chain = [i \in 1 .. n |-> chain[i]]  BY <1>5
  <2> HIDE DEF chain
  <2>2. chain \in Seq(ToSet(chain))  BY <1>6, <2>1, SeqOfImage
  <2> QED  BY <2>2 DEF chain
<1>8. ToSet(ModChain(m)) = {EntryAt(m, depth) : depth \in 0 .. Len(m.dirs)}
  <2>1. ASSUME NEW i \in 1 .. n
        PROVE  \E depth \in 0 .. Len(m.dirs) : ModChain(m)[i] = EntryAt(m, depth)
    <3>1. n - i \in 0 .. Len(m.dirs)  BY <1>1, <1>6
    <3> QED  BY <1>5, <3>1
  <2>2. ASSUME NEW depth \in 0 .. Len(m.dirs)
        PROVE  \E i \in 1 .. n : ModChain(m)[i] = EntryAt(m, depth)
    <3>1. n - depth \in 1 .. n /\ n - (n - depth) = depth  BY <1>1, <1>6
    <3> QED  BY <1>5, <3>1
  <2>3. DOMAIN ModChain(m) = 1 .. n  BY <1>5
  <2> QED  BY <2>1, <2>2, <2>3 DEF ToSet
<1>9. Comps(m) \in Seq(ToSet(Comps(m)))
  <2> DEFINE comps == Comps(m)
  <2>1. comps = [i \in 1 .. n |-> comps[i]]
    <3>1. dirs \in Seq(S) /\ Words(m.stem) \in S /\ comps = Append(dirs, Words(m.stem))
      BY <1>3, <1>4
    <3>2. comps \in Seq(S)  BY <3>1, AppendProperties
    <3> QED  BY <1>4, <3>2
  <2> HIDE DEF comps
  <2>2. comps \in Seq(ToSet(comps))  BY <1>6, <2>1, SeqOfImage
  <2> QED  BY <2>2 DEF comps
<1> QED  BY <1>4, <1>7, <1>8, <1>9, <1>6 DEF n

LEMMA NextModelJob ==
    ASSUME JobInv, NextModel
    PROVE  /\ JobInv' /\ Goes("chaining") /\ job.orm = "seaorm"
           /\ job.chain = <<>> /\ job.declared + 1 \in DOMAIN job.loaded
           /\ job'.declared = job.declared + 1
           /\ job'.chain = ModChain(job.loaded[job.declared + 1])
<1> DEFINE k == job.declared + 1
<1>1. /\ job.pc = "chaining" /\ job.chain = <<>> /\ job.declared < Len(job.loaded)
      /\ project' = project /\ models' = models
      /\ job' = [job EXCEPT !.declared = @ + 1, !.chain = ModChain(job.loaded[k])]
  BY DEF NextModel
<1>2. /\ DOMAIN job = Fields /\ Active /\ job.orm = "seaorm"
      /\ job.declared \in 0 .. Len(job.loaded) /\ job.writes = <<>>
  BY <1>1 DEF JobInv, Active
<1>3. /\ DOMAIN job' = Fields /\ job'.pc = "chaining" /\ job'.orm = job.orm
      /\ job'.loaded = job.loaded /\ job'.writes = <<>>
      /\ job'.chain = ModChain(job.loaded[k]) /\ job'.declared = k
  BY <1>1, <1>2 DEF Fields
<1>4. Goes("chaining")  BY <1>1, <1>2, <1>3 DEF Goes
<1>5. /\ Len(job.loaded) \in Nat /\ DOMAIN job.loaded = 1 .. Len(job.loaded)
      /\ \A i \in DOMAIN job.loaded : job.loaded[i].dirs \in Seq(Seq(STRING))
  BY <1>2, LoadedOnce
<1>6. k \in DOMAIN job.loaded /\ k \in 0 .. Len(job.loaded)
  BY <1>1, <1>2, <1>5
<1>7. job'.chain \in Seq(Entries)
  <2>1. ToSet(ModChain(job.loaded[k])) \subseteq Entries  BY <1>6 DEF Entries
  <2>2. ModChain(job.loaded[k]) \in Seq(ToSet(ModChain(job.loaded[k])))
    BY <1>5, <1>6, ChainOf
  <2> QED  BY <1>3, <2>1, <2>2
<1> HIDE DEF k
<1>8. JobInv'
  BY <1>2, <1>3, <1>4, <1>6, <1>7, GoesOn DEF JobInv, Pcs
<1> QED  BY <1>1, <1>2, <1>3, <1>4, <1>6, <1>8 DEF k

LEMMA DeclareModuleJob ==
    ASSUME JobInv, DeclareModule
    PROVE  /\ JobInv' /\ Goes("chaining") /\ job.orm = "seaorm"
           /\ job.chain[1] \in Entries /\ job'.declared = job.declared
           /\ ToSet(job.chain) = ToSet(job'.chain) \cup {job.chain[1]}
<1>1. /\ job.pc = "chaining" /\ job.chain # <<>>
      /\ project' = project /\ models' = models
      /\ job' = [job EXCEPT !.chain = Tail(@)]
  BY DEF DeclareModule
<1>2. /\ DOMAIN job = Fields /\ Active /\ job.orm = "seaorm"
      /\ job.declared \in 0 .. Len(job.loaded) /\ job.writes = <<>>
      /\ job.chain \in Seq(Entries)
  BY <1>1 DEF JobInv, Active
<1>3. /\ DOMAIN job' = Fields /\ job'.pc = "chaining" /\ job'.orm = job.orm
      /\ job'.loaded = job.loaded /\ job'.writes = <<>>
      /\ job'.chain = Tail(job.chain) /\ job'.declared = job.declared
  BY <1>1, <1>2 DEF Fields
<1>4. Goes("chaining")  BY <1>1, <1>2, <1>3 DEF Goes
<1>5. /\ job'.chain \in Seq(Entries) /\ job.chain[1] \in Entries
      /\ ToSet(job.chain) = ToSet(job'.chain) \cup {job.chain[1]}
  BY <1>1, <1>2, <1>3, TailKeeps
<1>6. JobInv'
  BY <1>2, <1>3, <1>4, <1>5, GoesOn DEF JobInv, Pcs
<1> QED  BY <1>2, <1>3, <1>4, <1>5, <1>6

LEMMA EndChainingJob ==
    ASSUME JobInv, EndChaining
    PROVE  /\ JobInv' /\ Goes("done") /\ job.orm = "seaorm"
           /\ job.chain = <<>> /\ job.declared = Len(job.loaded)
<1>1. /\ job.pc = "chaining" /\ job.chain = <<>> /\ job.declared = Len(job.loaded)
      /\ project' = project /\ models' = models
      /\ job' = [job EXCEPT !.pc = "done"]
  BY DEF EndChaining
<1>2. DOMAIN job = Fields /\ Active /\ job.orm = "seaorm" /\ job.writes = <<>>
  BY <1>1 DEF JobInv, Active
<1>3. /\ DOMAIN job' = Fields /\ job'.pc = "done" /\ job'.orm = job.orm
      /\ job'.loaded = job.loaded /\ job'.writes = <<>> /\ job'.chain = <<>>
  BY <1>1, <1>2 DEF Fields
<1>4. Goes("done")  BY <1>1, <1>2, <1>3 DEF Goes
<1>5. JobInv'
  BY <1>3, <1>4, GoesOn DEF JobInv, Pcs
<1> QED  BY <1>1, <1>2, <1>4, <1>5

LEMMA NextJob ==
    ASSUME JobInv, [Next]_vars
    PROVE  JobInv'
<1>1. ASSUME UNCHANGED vars PROVE JobInv'
  BY <1>1 DEF vars, JobInv, Active, Outs, Entries
<1>2. ASSUME EditModels PROVE JobInv'
  <2>1. project' = project /\ models' \in project.versions /\ Stopped
    BY <1>2 DEF EditModels, Idle, Stopped, Fields
  <2> QED  BY <2>1, StopsJob
<1>3. ASSUME NEW path \in OwnPaths, WriteOwnFile(path) PROVE JobInv'
  <2>1. project' = project /\ models' \in project.versions /\ Stopped
    BY <1>3 DEF WriteOwnFile, Idle, JobInv, Stopped, Fields
  <2> QED  BY <2>1, StopsJob
<1>4. ASSUME NEW orm \in Orms, StartExport(orm) PROVE JobInv'
  BY <1>4, StartJob
<1>5. ASSUME NEW path \in DOMAIN dir, RemoveFile(path) PROVE JobInv'
  BY <1>5 DEF RemoveFile, JobInv, Active, Outs, Entries
<1>6. ASSUME EndSweep PROVE JobInv'
  BY <1>6, WritingJob DEF EndSweep, Active
<1>7. ASSUME SkipSweep PROVE JobInv'
  BY <1>7, WritingJob DEF SkipSweep, Active
<1>8. ASSUME CheckMarker PROVE JobInv'
  <2>1. /\ job.pc = "loaded" /\ project' = project /\ models' = models
        /\ ToWriting \/ Stopped
    BY <1>8 DEF CheckMarker, Idle, Stopped, Fields
  <2>2. models' \in project.versions  BY <2>1 DEF JobInv
  <2> QED  BY <2>1, <2>2, WritingJob, StopsJob DEF Active
<1>9. ASSUME NEW i \in DOMAIN job.writes, WriteFile(i) PROVE JobInv'
  BY <1>9, WriteFileJob
<1>10. ASSUME EndWriting PROVE JobInv'
  BY <1>10, EndWritingJob
<1>11. ASSUME NextModel PROVE JobInv'
  BY <1>11, NextModelJob
<1>12. ASSUME DeclareModule PROVE JobInv'
  BY <1>12, DeclareModuleJob
<1>13. ASSUME EndChaining PROVE JobInv'
  BY <1>13, EndChainingJob
<1>14. ASSUME Crash PROVE JobInv'
  <2>1. project' = project /\ models' \in project.versions /\ Stopped
    BY <1>14 DEF Crash, Idle, JobInv, Stopped, Fields
  <2> QED  BY <2>1, StopsJob
<1> QED  BY <1>1, <1>2, <1>3, <1>4, <1>5, <1>6, <1>7, <1>8, <1>9, <1>10, <1>11,
            <1>12, <1>13, <1>14 DEF Next

----------------------------------------------------------------------------
(* The user's own files.                                                   *)

Safe(path) == path \in DOMAIN dir => dir[path] # Own

\* A user's file is where a user may write one, and not where a command that
\* does not sweep is about to write.
OwnInv ==
    /\ \A p \in DOMAIN dir : dir[p] = Own => p \in OwnPaths
    /\ job.pc = "writing" /\ job.orm \notin Sweeping =>
          \A o \in ToSet(job.writes) : Safe(o[1])

LEMMA WriteSpares ==
    ASSUME NEW path, NEW content, Write(path, content), content # Own
    PROVE  /\ \A p \in DOMAIN dir' : dir'[p] = Own => p \in DOMAIN dir /\ dir[p] = Own
           /\ \A p \in DOMAIN dir : p # path => p \in DOMAIN dir' /\ dir'[p] = dir[p]
BY DEF Write

LEMMA NotOwn ==
    /\ \A content : content.by \in Orms => content # Own
    /\ \A mods : ModFile(mods) # Own
    /\ \A content : content.by \in Orms \cup {"mods"} /\ DOMAIN content = DOMAIN Own =>
          \A torn \in Torn(content) : torn # Own
<1>1. "user" \notin Orms \cup {"mods", "torn"} /\ Own.by = "user"
  BY DEF Orms, Own
<1>2. ASSUME NEW mods PROVE ModFile(mods).by = "mods"  BY DEF ModFile, Own
<1>3. ASSUME NEW content, content.by \in Orms \cup {"mods"},
             DOMAIN content = DOMAIN Own, NEW torn \in Torn(content)
      PROVE  torn.by \in Orms \cup {"mods", "torn"}
  BY <1>3 DEF Torn, Own
<1> HIDE DEF Own
<1> QED  BY <1>1, <1>2, <1>3

LEMMA OutputIsWhole ==
    ASSUME JobInv, Active
    PROVE  \A o \in ToSet(Outs) :
              DOMAIN o[2] = DOMAIN Own /\ o[2].by \in Orms
<1>1. \A o \in ToSet(Outs) : o[2].by \in Orms  BY OutputsFit DEF JobInv
<1>2. \A o \in ToSet(Outs) : DOMAIN o[2] = DOMAIN Own
  BY OutputForms DEF TableOut, FixedOut, Rendered, Own
<1> QED  BY <1>1, <1>2

\* The files that Drizzle overwrites, and the one that GORM and Django look at.
LEMMA SafeToWrite ==
    ASSUME JobInv, OwnInv, OwnPathsApart, SkipSweep \/ CheckMarker, job'.pc = "writing"
    PROVE  \A o \in ToSet(Outs) : Safe(o[1])
<1>1. CASE SkipSweep
  <2>1. job.orm = "drizzle"  BY <1>1 DEF SkipSweep
  <2>2. job.orm \notin FilePerTable  BY <2>1 DEF FilePerTable
  <2>3. ASSUME NEW o \in ToSet(Outs)
        PROVE  o[1] \notin OwnPaths
    BY <2>1, <2>2, <2>3, OutputForms DEF FixedOut, OwnPathsApart
  <2> QED  BY <2>3 DEF Safe, OwnInv
<1>2. CASE CheckMarker
  <2>1. /\ job.pc = "loaded" /\ job.orm \in Marked
        /\ HasMarker(Outs[1][1])
    BY <1>2 DEF CheckMarker, Outs, Idle
  <2>2. job.orm \notin FilePerTable /\ job.orm # "drizzle"
    BY <2>1 DEF Marked, FilePerTable
  <2>3. FixedFiles(job.orm) = <<<<"model", "s">>>>
    BY <2>2 DEF FixedFiles
  <2>4. \A o \in ToSet(Outs) : o = Outs[1]
    BY <2>2, <2>3 DEF Outs, Outputs, ToSet
  <2>5. job.orm # "user"  BY <2>1 DEF Marked
  <2>6. Safe(Outs[1][1])
    BY <2>1, <2>5 DEF HasMarker, Safe, Own
  <2> QED  BY <2>4, <2>6
<1> QED  BY <1>1, <1>2

LEMMA InitOwn == Init => OwnInv
BY DEF Init, OwnInv, Idle

Kept ==
    Running /\ job.orm \notin Sweeping =>
        \A p \in DOMAIN dir : dir[p] = Own => p \in DOMAIN dir' /\ dir'[p] = Own

\* A write of what is not a user's text, where none is if nothing is swept.
LEMMA SparingWrite ==
    ASSUME OwnInv, NEW path, NEW content, Write(path, content), content # Own,
           job.orm \notin Sweeping => Safe(path),
           \/ job'.pc # "writing"
           \/ /\ job'.orm = job.orm /\ job.pc = "writing"
              /\ ToSet(job'.writes) \subseteq ToSet(job.writes)
    PROVE  OwnInv' /\ Kept
<1>1. /\ \A p \in DOMAIN dir' : dir'[p] = Own => p \in DOMAIN dir /\ dir[p] = Own
      /\ \A p \in DOMAIN dir : p # path => p \in DOMAIN dir' /\ dir'[p] = dir[p]
  BY WriteSpares
<1>2. \A p \in DOMAIN dir' : dir'[p] = Own => p \in OwnPaths
  BY <1>1 DEF OwnInv
<1>3. \A q : Safe(q) => Safe(q)'  BY <1>1 DEF Safe
<1>4. OwnInv'  BY <1>2, <1>3 DEF OwnInv
<1>5. Kept  BY <1>1 DEF Kept, Safe
<1> QED  BY <1>4, <1>5

LEMMA QuietStep ==
    ASSUME OwnInv, dir' = dir, job'.pc # "writing"
    PROVE  OwnInv' /\ Kept
BY DEF OwnInv, Kept, Safe

LEMMA NextOwn ==
    ASSUME JobInv, OwnInv, OwnPathsApart, [Next]_vars
    PROVE  OwnInv' /\ Kept
<1>1. ASSUME UNCHANGED vars PROVE OwnInv' /\ Kept
  BY <1>1 DEF vars, OwnInv, Kept, Safe
<1>2. ASSUME EditModels PROVE OwnInv' /\ Kept
  BY <1>2, QuietStep DEF EditModels, Idle
<1>3. ASSUME NEW path \in OwnPaths, WriteOwnFile(path) PROVE OwnInv' /\ Kept
  <2>1. ~Running /\ Write(path, Own) /\ job'.pc = "idle"
    BY <1>3 DEF WriteOwnFile, Idle
  <2>2. \A p \in DOMAIN dir' : dir'[p] = Own => p \in OwnPaths
    BY <2>1 DEF Write, OwnInv
  <2> QED  BY <2>1, <2>2 DEF OwnInv, Kept
<1>4. ASSUME NEW orm \in Orms, StartExport(orm) PROVE OwnInv' /\ Kept
  <2>1. dir' = dir /\ job'.pc # "writing"  BY <1>4 DEF StartExport, Idle
  <2> QED  BY <2>1, QuietStep
<1>5. ASSUME NEW path \in DOMAIN dir, RemoveFile(path) PROVE OwnInv' /\ Kept
  <2>1. /\ job' = job /\ job.pc = "loaded" /\ job.orm \in Sweeping
        /\ dir' = [p \in DOMAIN dir \ {path} |-> dir[p]]
    BY <1>5 DEF RemoveFile
  <2> QED  BY <2>1 DEF OwnInv, Kept
<1>6. ASSUME EndSweep PROVE OwnInv' /\ Kept
  <2>1. /\ dir' = dir /\ job.orm \in Sweeping /\ job.pc = "loaded"
        /\ project' = project /\ models' = models /\ ToWriting
    BY <1>6 DEF EndSweep
  <2>2. job'.orm = job.orm  BY <2>1, WritingJob DEF Active, Goes
  <2> QED  BY <2>1, <2>2 DEF OwnInv, Kept
<1>7. ASSUME SkipSweep \/ CheckMarker PROVE OwnInv' /\ Kept
  <2>1. /\ dir' = dir /\ job.pc = "loaded"
        /\ project' = project /\ models' = models
        /\ ToWriting \/ job'.pc = "refused"
    BY <1>7 DEF SkipSweep, CheckMarker, Idle
  <2>2. CASE job'.pc = "writing"
    <3>1. ToWriting  BY <2>1, <2>2
    <3>2. job'.writes = Outs  BY <2>1, <3>1, WritingJob DEF Active
    <3>3. \A o \in ToSet(Outs) : Safe(o[1])  BY <1>7, <2>2, SafeToWrite
    <3>4. OwnInv'  BY <2>1, <3>2, <3>3 DEF OwnInv, Safe
    <3> QED  BY <2>1, <3>4 DEF Kept
  <2> QED  BY <2>1, <2>2, QuietStep
<1>8. ASSUME NEW i \in DOMAIN job.writes, WriteFile(i) PROVE OwnInv' /\ Kept
  <2> DEFINE o == job.writes[i]
  <2>1. job.pc = "writing" /\ Write(o[1], o[2]) /\ o \in ToSet(job.writes)
    BY <1>8 DEF WriteFile, ToSet
  <2>2. /\ Goes("writing") /\ o \in ToSet(Outs)
        /\ ToSet(job'.writes) \subseteq ToSet(job.writes)
    BY <1>8, WriteFileJob
  <2> HIDE DEF o
  <2>3. o[2] # Own  BY <2>1, <2>2, OutputIsWhole, NotOwn DEF Active
  <2>4. job.orm \notin Sweeping => Safe(o[1])  BY <2>1 DEF OwnInv
  <2> QED  BY <2>1, <2>2, <2>3, <2>4, SparingWrite DEF Goes
<1>9. ASSUME EndWriting PROVE OwnInv' /\ Kept
  <2>1. dir' = dir  BY <1>9 DEF EndWriting
  <2>2. job'.pc # "writing"  BY <1>9, EndWritingJob DEF Goes
  <2> QED  BY <2>1, <2>2, QuietStep
<1>10. ASSUME NextModel PROVE OwnInv' /\ Kept
  <2>1. dir' = dir  BY <1>10 DEF NextModel
  <2>2. job'.pc # "writing"  BY <1>10, NextModelJob DEF Goes
  <2> QED  BY <2>1, <2>2, QuietStep
<1>11. ASSUME DeclareModule PROVE OwnInv' /\ Kept
  <2>1. PICK path, mods : Write(path, ModFile(mods))
    BY <1>11 DEF DeclareModule
  <2>2. job'.pc # "writing" /\ job.orm \in Sweeping
    BY <1>11, DeclareModuleJob DEF Goes, Sweeping, FilePerTable
  <2> QED  BY <2>1, <2>2, NotOwn, SparingWrite
<1>12. ASSUME EndChaining PROVE OwnInv' /\ Kept
  <2>1. dir' = dir  BY <1>12 DEF EndChaining
  <2>2. job'.pc # "writing"  BY <1>12, EndChainingJob DEF Goes
  <2> QED  BY <2>1, <2>2, QuietStep
<1>13. ASSUME Crash PROVE OwnInv' /\ Kept
  <2>1. job'.pc # "writing"  BY <1>13 DEF Crash, Idle
  <2>2. CASE UNCHANGED dir  BY <2>1, <2>2, QuietStep
  <2>3. ASSUME NEW i \in DOMAIN job.writes, NEW content \in Torn(job.writes[i][2]),
               Write(job.writes[i][1], content)
        PROVE  OwnInv' /\ Kept
    <3> DEFINE o == job.writes[i]
    <3>1. job.pc = "writing"  BY <2>3 DEF JobInv
    <3>2. o \in ToSet(Outs) /\ o \in ToSet(job.writes)
      BY <2>3, <3>1 DEF JobInv, ToSet
    <3> HIDE DEF o
    <3>3. content # Own
      <4>1. content \in Torn(o[2])  BY <2>3 DEF o
      <4>2. DOMAIN o[2] = DOMAIN Own /\ o[2].by \in Orms
        BY <3>1, <3>2, OutputIsWhole DEF Active
      <4> QED  BY <4>1, <4>2, NotOwn
    <3>4. Write(o[1], content)  BY <2>3 DEF o
    <3>5. job.orm \notin Sweeping => Safe(o[1])  BY <3>1, <3>2 DEF OwnInv
    <3> QED  BY <2>1, <3>3, <3>4, <3>5, SparingWrite
  <2>4. ASSUME NEW content \in Torn(ModFile({})), job.chain # <<>>,
               Write(job.chain[1][1], content)
        PROVE  OwnInv' /\ Kept
    <3>1. job.orm \in Sweeping  BY <2>4 DEF JobInv, Sweeping, FilePerTable
    <3>2. content # Own
      <4>1. ModFile({}).by = "mods" /\ DOMAIN ModFile({}) = DOMAIN Own
        BY DEF ModFile, Own
      <4> QED  BY <2>4, <4>1, NotOwn
    <3> QED  BY <2>1, <2>4, <3>1, <3>2, SparingWrite
  <2> QED  BY <1>13, <2>2, <2>3, <2>4 DEF Crash
<1> QED  BY <1>1, <1>2, <1>3, <1>4, <1>5, <1>6, <1>7, <1>8, <1>9, <1>10, <1>11,
            <1>12, <1>13 DEF Next

\* cmd_export_models_file and cmd_export_drizzle leave the user's files as they
\* are, at whatever step they fail or are killed, if none has the name of a
\* file that Drizzle writes without looking.
THEOREM OwnFilesStay ==
    ASSUME OwnPathsApart
    PROVE  Spec => OwnFilesKept
<1>1. JobInv /\ OwnInv /\ [Next]_vars => (JobInv /\ OwnInv)' /\ Kept
  BY NextJob, NextOwn
<1>2. JobInv /\ OwnInv /\ [Next]_vars => [Kept]_vars  BY <1>1
<1> QED  BY <1>1, <1>2, InitJob, InitOwn, PTL DEF Spec, OwnFilesKept, Kept

----------------------------------------------------------------------------
(* The directory that a finished export leaves.                            *)

Written(o) == o[1] \in DOMAIN dir /\ dir[o[1]] = o[2]
IsOutput(p) == \E o \in ToSet(Outs) : o[1] = p /\ dir[p] = o[2]
IsModList(p) == p.stem = <<"mod">> /\ dir[p].by = "mods"
Declared(e) == e[1] \in DOMAIN dir /\ e[2] \in dir[e[1]].mods

\* Only Rust files declare modules.
RustMods == \A p \in DOMAIN dir : dir[p].mods # {} => p.ext = "rs"

\* While files are written: what is missing is still to be written, and the
\* sweep has left nothing else with the extension.
WritingInv ==
    job.pc = "writing" =>
        /\ \A o \in ToSet(Outs) : Written(o) \/ o \in ToSet(job.writes)
        /\ job.orm \in Sweeping => \A p \in Swept(job.orm) : IsOutput(p)

\* While modules are declared: a declaration is made, in the chain at hand or
\* in that of a later file; and no other is made.
Awaited(e) ==
    \/ e \in ToSet(job.chain)
    \/ \E i \in (job.declared + 1) .. Len(job.loaded) : e \in ToSet(ModChain(job.loaded[i]))

ChainingInv ==
    job.pc = "chaining" =>
        /\ \A o \in ToSet(Outs) : Written(o)
        /\ \A p \in Swept("seaorm") : IsOutput(p) \/ IsModList(p)
        /\ \A e \in Entries : Declared(e) \/ Awaited(e)
        /\ \A p \in DOMAIN dir : \A child \in dir[p].mods : <<p, child>> \in Entries

FreshInv ==
    /\ RustMods /\ WritingInv /\ ChainingInv /\ ExportIsFresh

LEMMA InitFresh == Init => FreshInv
BY DEF Init, Idle, FreshInv, RustMods, WritingInv, ChainingInv, ExportIsFresh

\* A command that is neither writing nor done promises nothing.
LEMMA NothingPromised ==
    ASSUME job'.pc \notin {"writing", "chaining", "done"}, RustMods'
    PROVE  FreshInv'
BY DEF FreshInv, WritingInv, ChainingInv, ExportIsFresh

\* Every write keeps RustMods: only ModFile has modules, and goes to mod.rs.
LEMMA RustWrite ==
    ASSUME RustMods, NEW path, NEW content, Write(path, content),
           content.mods # {} => path.ext = "rs"
    PROVE  RustMods'
BY DEF RustMods, Write

\* The files of SeaORM are no module lists.
LEMMA SeaOrmFilesFit ==
    ASSUME JobInv, Active, PathsApart, job.orm = "seaorm"
    PROVE  /\ \A i \in DOMAIN job.loaded :
                 /\ WordsOfAll(job.loaded[i].dirs) = job.loaded[i].dirs
                 /\ Words(job.loaded[i].stem) # <<"mod">>
                 /\ job.loaded[i].dirs \in Seq(Seq(STRING))
           /\ \A o \in ToSet(Outs) : \E i \in DOMAIN job.loaded :
                 o[1] = Path(job.loaded[i].dirs, Words(job.loaded[i].stem), "rs")
           /\ \A i \in DOMAIN job.loaded : \E o \in ToSet(Outs) :
                 o[1] = Path(job.loaded[i].dirs, Words(job.loaded[i].stem), "rs")
<1>1. PICK order \in SetToSeqs(models) :
          \A i \in DOMAIN job.loaded :
              /\ order[i] \in models
              /\ job.loaded[i].dirs = order[i].dirs
              /\ job.loaded[i].stem = order[i].stem
              /\ order[i].dirs \in Seq(Seq(STRING))
  BY LoadedOnce
<1>2. /\ project \in Projects /\ models \in project.versions
      /\ "seaorm" \in project.orms \cap FilePerTable
  BY DEF JobInv, FilePerTable
<1>3. \A m \in models : WordsOfAll(m.dirs) = m.dirs /\ Words(m.stem) # <<"mod">>
  BY <1>2 DEF PathsApart
<1>4. \A i : TableOut(i)[1] = Path(job.loaded[i].dirs, Words(job.loaded[i].stem), "rs")
  BY DEF TableOut, BuildOutputPath, FileExtension
<1>5. \A i \in DOMAIN job.loaded : TableOut(i) \in ToSet(Outs)
  BY <1>2 DEF Outs, Outputs, TableOut, ToSet
<1>6. \A o \in ToSet(Outs) : \E i \in DOMAIN job.loaded : o = TableOut(i)
  BY <1>2, OutputForms
<1> QED  BY <1>1, <1>3, <1>4, <1>5, <1>6

LEMMA EntriesFit ==
    ASSUME JobInv, Active
    PROVE  /\ \A e \in Entries : e = <<e[1], e[2]>> /\ e[1].ext = "rs" /\ e[1].stem = <<"mod">>
           /\ \A e : e \in Entries <=>
                 \E i \in DOMAIN job.loaded : \E depth \in 0 .. Len(job.loaded[i].dirs) :
                     e = EntryAt(job.loaded[i], depth)
<1>1. \A i \in DOMAIN job.loaded :
          ToSet(ModChain(job.loaded[i]))
              = {EntryAt(job.loaded[i], depth) : depth \in 0 .. Len(job.loaded[i].dirs)}
  <2>1. \A i \in DOMAIN job.loaded : job.loaded[i].dirs \in Seq(Seq(STRING))
    BY LoadedOnce
  <2> QED  BY <2>1, ChainOf
<1>2. \A e : e \in Entries <=>
          \E i \in DOMAIN job.loaded : \E depth \in 0 .. Len(job.loaded[i].dirs) :
              e = EntryAt(job.loaded[i], depth)
  BY <1>1 DEF Entries
<1>3. \A m, depth : LET e == EntryAt(m, depth)
                    IN  e = <<e[1], e[2]>> /\ e[1].ext = "rs" /\ e[1].stem = <<"mod">>
  BY DEF EntryAt, ModPath, Path
<1> QED  BY <1>2, <1>3

\* A swept directory holds nothing with the extension; what is there to write
\* is everything.
LEMMA WritingFresh ==
    ASSUME JobInv, Active, FreshInv, job.pc = "loaded", ToWriting,
           project' = project, models' = models, dir' = dir,
           job.orm \in Sweeping => Swept(job.orm) = {}
    PROVE  FreshInv'
<1>1. Goes("writing") /\ job'.writes = Outs  BY WritingJob
<1>2. Outs' = Outs /\ job'.orm = job.orm /\ job'.pc = "writing"
  BY <1>1, GoesOn DEF Goes
<1>3. Swept(job.orm)' = Swept(job.orm)  BY <1>2 DEF Swept
<1>4. WritingInv'  BY <1>1, <1>2, <1>3 DEF WritingInv
<1>5. RustMods'  BY DEF RustMods, FreshInv
<1> QED  BY <1>2, <1>4, <1>5 DEF FreshInv, ChainingInv, ExportIsFresh

LEMMA WriteFileFresh ==
    ASSUME JobInv, FreshInv, PathsApart, NEW i \in DOMAIN job.writes, WriteFile(i)
    PROVE  FreshInv'
<1> DEFINE o == job.writes[i]
<1>1. job.pc = "writing" /\ Write(o[1], o[2])  BY DEF WriteFile
<1>2. /\ Goes("writing") /\ o \in ToSet(Outs)
      /\ ToSet(job.writes) \subseteq ToSet(job'.writes) \cup {o}
  BY WriteFileJob
<1> HIDE DEF o
<1>3. Active  BY <1>1 DEF Active
<1>4. /\ DOMAIN dir' = DOMAIN dir \cup {o[1]} /\ dir'[o[1]] = o[2]
      /\ \A p \in DOMAIN dir : p # o[1] => dir'[p] = dir[p]
  BY <1>1 DEF Write
<1>5. Outs' = Outs /\ job'.orm = job.orm /\ job'.pc = "writing"
  BY <1>2, GoesOn DEF Goes
<1>6. ASSUME NEW q \in ToSet(Outs)
      PROVE  Written(q)' \/ q \in ToSet(job'.writes)
  <2>1. CASE q[1] = o[1]
    <3>1. q = o  BY <1>2, <1>3, <2>1, OutputsApart
    <3> QED  BY <1>4, <3>1 DEF Written
  <2>2. CASE q[1] # o[1]
    <3>1. Written(q) \/ q \in ToSet(job'.writes)
      BY <1>1, <1>2, <2>2 DEF FreshInv, WritingInv
    <3> QED  BY <1>4, <2>2, <3>1 DEF Written
  <2> QED  BY <2>1, <2>2
<1>7. ASSUME job.orm \in Sweeping, NEW p \in Swept(job.orm)'
      PROVE  IsOutput(p)'
  <2>1. CASE p = o[1]  BY <1>2, <1>4, <1>5, <2>1 DEF IsOutput
  <2>2. CASE p # o[1]
    <3>1. p \in Swept(job.orm) /\ dir'[p] = dir[p]
      BY <1>4, <1>5, <1>7, <2>2 DEF Swept
    <3>2. IsOutput(p)  BY <1>1, <1>7, <3>1 DEF FreshInv, WritingInv
    <3> QED  BY <1>5, <3>1, <3>2 DEF IsOutput
  <2> QED  BY <2>1, <2>2
<1>8. WritingInv'  BY <1>5, <1>6, <1>7 DEF WritingInv
<1>9. RustMods'
  <2>1. o[2].mods = {}  BY <1>2, <1>3, OutputsFit
  <2> QED  BY <1>1, <2>1, RustWrite DEF FreshInv
<1> QED  BY <1>5, <1>8, <1>9 DEF FreshInv, ChainingInv, ExportIsFresh

LEMMA EndWritingFresh ==
    ASSUME JobInv, FreshInv, EndWriting
    PROVE  FreshInv'
<1>1. job.pc = "writing" /\ job.writes = <<>> /\ dir' = dir  BY DEF EndWriting
<1>2. Active  BY <1>1 DEF Active
<1>3. \A o \in ToSet(Outs) : Written(o)
  BY <1>1 DEF FreshInv, WritingInv, ToSet
<1>4. job.orm \in Sweeping => \A p \in Swept(job.orm) : IsOutput(p)
  BY <1>1 DEF FreshInv, WritingInv
<1>5. RustMods /\ RustMods'  BY <1>1 DEF FreshInv, RustMods
<1>6. CASE job.orm = "seaorm"
  <2>1. Goes("chaining") /\ job'.declared = 0  BY <1>6, EndWritingJob
  <2>2. /\ Outs' = Outs /\ Entries' = Entries /\ job'.orm = job.orm
        /\ job'.loaded = job.loaded /\ job'.pc = "chaining"
    BY <2>1, GoesOn DEF Goes
  <2>3. \A p \in Swept("seaorm") : IsOutput(p)
    BY <1>4, <1>6 DEF Sweeping, FilePerTable
  <2>4. \A p \in DOMAIN dir : dir[p].mods = {}
    <3>1. SUFFICES ASSUME NEW p \in DOMAIN dir, dir[p].mods # {} PROVE FALSE
      OBVIOUS
    <3>2. p \in Swept("seaorm")  BY <1>5, <3>1 DEF RustMods, Swept, FileExtension
    <3>3. PICK o \in ToSet(Outs) : dir[p] = o[2]  BY <2>3, <3>2 DEF IsOutput
    <3> QED  BY <1>2, <3>1, <3>3, OutputsFit
  <2>5. ASSUME NEW e \in Entries PROVE Awaited(e)'
    <3>1. PICK i \in DOMAIN job.loaded : e \in ToSet(ModChain(job.loaded[i]))
      BY DEF Entries
    <3>2. /\ Len(job.loaded) \in Nat /\ i \in 1 .. Len(job.loaded)
      BY <1>2, <3>1, LoadedOnce
    <3>3. i \in (job'.declared + 1) .. Len(job'.loaded)  BY <2>1, <2>2, <3>2
    <3> QED  BY <2>2, <3>1, <3>3 DEF Awaited
  <2>6. /\ \A o \in ToSet(Outs') : Written(o)'
        /\ \A p \in Swept("seaorm")' : IsOutput(p)'
    BY <1>1, <1>3, <2>2, <2>3 DEF Written, IsOutput, Swept
  <2>7. \A p \in DOMAIN dir' : \A child \in dir'[p].mods : <<p, child>> \in Entries'
    BY <1>1, <2>4
  <2>8. ChainingInv'  BY <2>2, <2>5, <2>6, <2>7 DEF ChainingInv
  <2> QED  BY <1>5, <2>2, <2>8 DEF FreshInv, WritingInv, ExportIsFresh
<1>7. CASE job.orm # "seaorm"
  <2>1. Goes("done")  BY <1>7, EndWritingJob
  <2>2. Outs' = Outs /\ job'.orm = job.orm /\ job'.pc = "done"
    BY <2>1, GoesOn DEF Goes
  <2>3. \A o \in ToSet(Outs') : o[1] \in DOMAIN dir' /\ dir'[o[1]] = o[2]
    BY <1>1, <1>3, <2>2 DEF Written
  <2>4. job'.orm \in Sweeping =>
            \A p \in Swept(job.orm)' :
                /\ dir'[p].by = job'.orm
                /\ \E o \in ToSet(Outs') : o[1] = p
    <3>1. Swept(job.orm)' = Swept(job.orm)  BY <1>1, <2>2 DEF Swept
    <3> QED  BY <1>1, <1>2, <1>4, <2>2, <3>1, OutputsFit DEF IsOutput
  <2>5. ExportIsFresh'
    <3> DEFINE outs == Outs'
    <3>1. outs = Outputs(job'.orm, job'.loaded)  BY DEF Outs
    <3>2. \A o \in ToSet(outs) : o[1] \in DOMAIN dir' /\ dir'[o[1]] = o[2]
      BY <2>3
    <3>3. job'.orm \in Sweeping =>
              \A p \in Swept(job.orm)' :
                  /\ dir'[p].by = job'.orm
                  /\ \E o \in ToSet(outs) : o[1] = p
      BY <2>4
    <3> HIDE DEF outs
    <3> QED  BY <1>7, <2>2, <3>1, <3>2, <3>3 DEF ExportIsFresh
  <2> QED  BY <1>5, <2>2, <2>5 DEF FreshInv, WritingInv, ChainingInv
<1> QED  BY <1>6, <1>7

LEMMA NextModelFresh ==
    ASSUME JobInv, FreshInv, NextModel
    PROVE  FreshInv'
<1> DEFINE k == job.declared + 1
<1>1. job.pc = "chaining" /\ dir' = dir  BY DEF NextModel
<1>2. /\ Goes("chaining") /\ job.chain = <<>> /\ k \in DOMAIN job.loaded
      /\ job'.declared = k /\ job'.chain = ModChain(job.loaded[k])
  BY NextModelJob
<1>3. /\ Outs' = Outs /\ Entries' = Entries /\ job'.loaded = job.loaded
      /\ job'.pc = "chaining"
  BY <1>2, GoesOn DEF Goes
<1>4. /\ \A o \in ToSet(Outs) : Written(o)
      /\ \A p \in Swept("seaorm") : IsOutput(p) \/ IsModList(p)
      /\ \A e \in Entries : Declared(e) \/ Awaited(e)
      /\ \A p \in DOMAIN dir : \A child \in dir[p].mods : <<p, child>> \in Entries
  BY <1>1 DEF FreshInv, ChainingInv
<1>5. ASSUME NEW e, Awaited(e) PROVE Awaited(e)'
  <2>1. PICK i \in k .. Len(job.loaded) : e \in ToSet(ModChain(job.loaded[i]))
    BY <1>2, <1>5 DEF Awaited, ToSet
  <2>2. CASE i = k  BY <1>2, <2>1, <2>2 DEF Awaited
  <2>3. CASE i # k
    <3>1. k \in Nat /\ Len(job.loaded) \in Nat
      BY <1>1, <1>2, LoadedOnce DEF Active
    <3>2. i \in (k + 1) .. Len(job.loaded)  BY <2>1, <2>3, <3>1
    <3> QED  BY <1>2, <1>3, <2>1, <3>2 DEF Awaited
  <2> QED  BY <2>2, <2>3
<1>6. \A e \in Entries : Declared(e)' \/ Awaited(e)'
  BY <1>1, <1>4, <1>5 DEF Declared
<1>7. ChainingInv'
  BY <1>1, <1>3, <1>4, <1>6 DEF ChainingInv, Written, IsOutput, IsModList, Swept
<1>8. RustMods'  BY <1>1 DEF FreshInv, RustMods
<1> QED  BY <1>3, <1>7, <1>8 DEF FreshInv, WritingInv, ExportIsFresh

LEMMA DeclareModuleFresh ==
    ASSUME JobInv, FreshInv, PathsApart, DeclareModule
    PROVE  FreshInv'
<1> DEFINE e1 == job.chain[1]
           path == e1[1]
           before == IF path \in DOMAIN dir THEN dir[path].mods ELSE {}
           mods == before \cup {e1[2]}
<1>1. job.pc = "chaining" /\ Write(path, ModFile(mods))  BY DEF DeclareModule
<1>2. /\ Goes("chaining") /\ job.orm = "seaorm" /\ e1 \in Entries
      /\ job'.declared = job.declared
      /\ ToSet(job.chain) = ToSet(job'.chain) \cup {e1}
  BY DeclareModuleJob
<1> HIDE DEF e1
<1>3. Active  BY <1>1 DEF Active
<1>4. /\ Outs' = Outs /\ Entries' = Entries /\ job'.loaded = job.loaded
      /\ job'.pc = "chaining"
  BY <1>2, GoesOn DEF Goes
<1>5. path.ext = "rs" /\ path.stem = <<"mod">> /\ e1 = <<path, e1[2]>>
  BY <1>2, <1>3, EntriesFit
<1>6. ModFile(mods).by = "mods" /\ ModFile(mods).mods = mods
  BY DEF ModFile, Own
<1> HIDE DEF path
<1>7. /\ DOMAIN dir' = DOMAIN dir \cup {path}
      /\ dir'[path].by = "mods" /\ dir'[path].mods = mods
      /\ \A p \in DOMAIN dir : p # path => dir'[p] = dir[p]
  BY <1>1, <1>6 DEF Write
<1>8. /\ \A o \in ToSet(Outs) : Written(o)
      /\ \A p \in Swept("seaorm") : IsOutput(p) \/ IsModList(p)
      /\ \A e \in Entries : Declared(e) \/ Awaited(e)
      /\ \A p \in DOMAIN dir : \A child \in dir[p].mods : <<p, child>> \in Entries
  BY <1>1 DEF FreshInv, ChainingInv
<1>9. \A o \in ToSet(Outs) : o[1] # path
  <2>1. ASSUME NEW o \in ToSet(Outs) PROVE o[1].stem # <<"mod">>
    <3>1. PICK i \in DOMAIN job.loaded :
              o[1] = Path(job.loaded[i].dirs, Words(job.loaded[i].stem), "rs")
      BY <1>2, <1>3, SeaOrmFilesFit
    <3>2. o[1].stem = Words(job.loaded[i].stem)  BY <3>1 DEF Path
    <3> QED  BY <1>2, <1>3, <3>2, SeaOrmFilesFit
  <2> QED  BY <1>5, <2>1
<1>10. \A o \in ToSet(Outs) : Written(o)'  BY <1>7, <1>8, <1>9 DEF Written
<1>11. ASSUME NEW p \in Swept("seaorm")' PROVE IsOutput(p)' \/ IsModList(p)'
  <2>1. CASE p = path  BY <1>5, <1>7, <2>1 DEF IsModList
  <2>2. CASE p # path
    <3>1. p \in Swept("seaorm") /\ dir'[p] = dir[p]
      BY <1>7, <2>2 DEF Swept
    <3> QED  BY <1>4, <1>8, <3>1 DEF IsOutput, IsModList
  <2> QED  BY <2>1, <2>2
<1>12. ASSUME NEW e \in Entries PROVE Declared(e)' \/ Awaited(e)'
  <2>1. CASE e = e1  BY <1>7, <2>1 DEF Declared, path
  <2>2. CASE e # e1 /\ Awaited(e)
    BY <1>2, <1>4, <2>2 DEF Awaited
  <2>3. CASE Declared(e)
    <3>1. CASE e[1] = path  BY <1>7, <2>3, <3>1 DEF Declared
    <3>2. CASE e[1] # path  BY <1>7, <2>3, <3>2 DEF Declared
    <3> QED  BY <3>1, <3>2
  <2> QED  BY <1>8, <2>1, <2>2, <2>3
<1>13. ASSUME NEW p \in DOMAIN dir', NEW child \in dir'[p].mods
       PROVE  <<p, child>> \in Entries
  <2>1. CASE p # path  BY <1>7, <1>8, <1>13, <2>1
  <2>2. CASE p = path
    <3>1. child = e1[2] \/ (path \in DOMAIN dir /\ child \in dir[path].mods)
      BY <1>7, <1>13, <2>2
    <3> QED  BY <1>2, <1>5, <1>8, <2>2, <3>1
  <2> QED  BY <2>1, <2>2
<1>14. ChainingInv'
  BY <1>4, <1>10, <1>11, <1>12, <1>13 DEF ChainingInv
<1>15. RustMods'  BY <1>1, <1>5, RustWrite DEF FreshInv
<1> QED  BY <1>4, <1>14, <1>15 DEF FreshInv, WritingInv, ExportIsFresh

\* When every declaration is made: from the root to each file, and nothing
\* but directories and files that are there.
LEMMA ChainsComplete ==
    ASSUME JobInv, Active, PathsApart, job.orm = "seaorm",
           \A o \in ToSet(Outs) : Written(o),
           \A p \in Swept("seaorm") : IsOutput(p) \/ IsModList(p),
           \A e \in Entries : Declared(e),
           \A p \in DOMAIN dir : \A child \in dir[p].mods : <<p, child>> \in Entries
    PROVE  ModulesComplete
<1>1. \A i \in DOMAIN job.loaded :
          /\ WordsOfAll(job.loaded[i].dirs) = job.loaded[i].dirs
          /\ Words(job.loaded[i].stem) # <<"mod">>
          /\ job.loaded[i].dirs \in Seq(Seq(STRING))
  BY SeaOrmFilesFit
<1>2. ASSUME NEW p \in DOMAIN dir, p.ext = "rs", p.stem # <<"mod">>,
             NEW n \in DOMAIN Append(p.dirs, p.stem)
      PROVE  LET comps == Append(p.dirs, p.stem)
                 parent == ModPath(SubSeq(comps, 1, n - 1))
             IN  parent \in DOMAIN dir /\ comps[n] \in dir[parent].mods
  <2>1. p \in Swept("seaorm") /\ ~IsModList(p)
    BY <1>2 DEF Swept, FileExtension, IsModList
  <2>2. PICK o \in ToSet(Outs) : o[1] = p  BY <2>1 DEF IsOutput
  <2>3. PICK i \in DOMAIN job.loaded :
            p = Path(job.loaded[i].dirs, Words(job.loaded[i].stem), "rs")
    BY <2>2, SeaOrmFilesFit
  <2> DEFINE m == job.loaded[i]
  <2>4. p.dirs = m.dirs /\ p.stem = Words(m.stem)  BY <2>3 DEF Path
  <2>5. Append(p.dirs, p.stem) = Comps(m)  BY <1>1, <2>4 DEF Comps
  <2>6. /\ Len(Comps(m)) = Len(m.dirs) + 1 /\ DOMAIN Comps(m) = 1 .. Len(Comps(m))
        /\ m.dirs \in Seq(Seq(STRING))
    BY <1>1, ChainOf
  <2>7. n \in 1 .. Len(m.dirs) + 1 /\ Len(m.dirs) \in Nat  BY <2>5, <2>6
  <2>8. n - 1 \in 0 .. Len(m.dirs) /\ (n - 1) + 1 = n  BY <2>7
  <2> HIDE DEF m
  <2>9. EntryAt(m, n - 1) \in Entries  BY <2>8, EntriesFit DEF m
  <2>10. Declared(EntryAt(m, n - 1))  BY <2>9
  <2>11. /\ EntryAt(m, n - 1)[1] = ModPath(SubSeq(Comps(m), 1, n - 1))
         /\ EntryAt(m, n - 1)[2] = Comps(m)[n]
    BY <2>8 DEF EntryAt
  <2> QED  BY <2>5, <2>10, <2>11 DEF Declared
<1>3. ASSUME NEW p \in DOMAIN dir, NEW child \in dir[p].mods
      PROVE  \/ Path(p.dirs, child, "rs") \in DOMAIN dir
             \/ ModPath(Append(p.dirs, child)) \in DOMAIN dir
  <2>1a. PICK i \in DOMAIN job.loaded : \E depth \in 0 .. Len(job.loaded[i].dirs) :
            <<p, child>> = EntryAt(job.loaded[i], depth)
    BY <1>3, EntriesFit
  <2>1. PICK depth \in 0 .. Len(job.loaded[i].dirs) :
            <<p, child>> = EntryAt(job.loaded[i], depth)
    BY <2>1a
  <2> DEFINE m == job.loaded[i]
             comps == Comps(m)
  <2>2. p = ModPath(SubSeq(comps, 1, depth)) /\ child = comps[depth + 1]
    BY <2>1 DEF EntryAt
  <2>3. p.dirs = SubSeq(comps, 1, depth)  BY <2>2 DEF ModPath, Path
  <2>4. /\ m.dirs \in Seq(Seq(STRING)) /\ Len(m.dirs) \in Nat
        /\ Len(comps) = Len(m.dirs) + 1 /\ comps \in Seq(ToSet(comps))
        /\ comps = Append(m.dirs, Words(m.stem))
    BY <1>1, ChainOf DEF Comps
  <2>5. CASE depth = Len(m.dirs)
    <3> DEFINE T == Seq(STRING) \cup {Words(m.stem)}
               w == Words(m.stem)
    <3>1. m.dirs \in Seq(T) /\ w \in T  BY <2>4
    <3> HIDE DEF m, T, w
    <3>2. /\ comps[Len(m.dirs) + 1] = w
          /\ \A k \in 1 .. Len(m.dirs) : comps[k] = m.dirs[k]
      BY <2>4, <3>1, AppendProperties DEF w
    <3>3. SubSeq(comps, 1, Len(m.dirs)) = m.dirs
      <4> DEFINE front == SubSeq(comps, 1, Len(m.dirs))
      <4>1. \A k \in 1 .. Len(m.dirs) : comps[k] \in T
        BY <2>4, <3>1, <3>2
      <4>2. /\ front \in Seq(T) /\ Len(front) = Len(m.dirs)
            /\ \A k \in 1 .. Len(m.dirs) : front[k] = comps[k]
        <5> HIDE DEF comps
        <5>1. \A k \in 1 .. Len(m.dirs) : 1 + k - 1 = k  BY <2>4
        <5>2. /\ front \in Seq(T)
              /\ Len(front) = IF 1 <= Len(m.dirs) THEN Len(m.dirs) - 1 + 1 ELSE 0
              /\ \A k \in 1 .. Len(m.dirs) - 1 + 1 : front[k] = comps[1 + k - 1]
          BY <2>4, <4>1, SubSeqProperties
        <5> QED  BY <2>4, <5>1, <5>2
      <4> HIDE DEF front, comps
      <4> QED  BY <3>1, <3>2, <4>2, SeqEqual DEF front
    <3>4. p.dirs = m.dirs /\ child = w  BY <2>2, <2>3, <2>5, <3>2, <3>3
    <3>5. \E o \in ToSet(Outs) : o[1] = Path(m.dirs, w, "rs")
      BY SeaOrmFilesFit DEF m, w
    <3> QED  BY <3>4, <3>5 DEF Written
  <2>6. CASE depth # Len(m.dirs)
    <3>1. depth + 1 \in 0 .. Len(m.dirs) /\ depth + 1 \in 1 .. Len(comps)
      BY <2>4, <2>6
    <3>2. EntryAt(m, depth + 1) \in Entries  BY <3>1, EntriesFit
    <3>3. EntryAt(m, depth + 1)[1] = ModPath(SubSeq(comps, 1, depth + 1))
      BY DEF EntryAt
    <3>4. ModPath(SubSeq(comps, 1, depth + 1)) \in DOMAIN dir
      BY <3>2, <3>3 DEF Declared
    <3>5. Append(p.dirs, child) = SubSeq(comps, 1, depth + 1)
      <4> DEFINE T == ToSet(comps)
                 front == SubSeq(comps, 1, depth)
      <4>1. comps \in Seq(T) /\ depth + 1 \in 1 .. Len(comps) /\ depth \in Nat
        BY <2>4, <3>1
      <4> HIDE DEF comps, T
      <4>2. \A k \in 1 .. depth : comps[k] \in T
        BY <4>1
      <4>3. front \in Seq(T)  BY <4>1, <4>2, SubSeqProperties
      <4>4. comps[depth + 1] \in T  BY <4>1
      <4>5. SubSeq(comps, 1, depth + 1)
                = SubSeq(comps, 1, depth + 1 - 1) \o <<comps[depth + 1]>>
        BY <4>1, SubSeqRecursiveSecond
      <4>6. depth + 1 - 1 = depth  BY <4>1
      <4>7. Append(front, comps[depth + 1]) = front \o <<comps[depth + 1]>>
        BY <4>3, <4>4, AppendIsConcat
      <4> QED  BY <2>2, <2>3, <4>5, <4>6, <4>7
    <3> QED  BY <3>4, <3>5
  <2> QED  BY <2>5, <2>6
<1> QED  BY <1>2, <1>3 DEF ModulesComplete

LEMMA EndChainingFresh ==
    ASSUME JobInv, FreshInv, PathsApart, EndChaining
    PROVE  FreshInv'
<1>1. job.pc = "chaining" /\ dir' = dir  BY DEF EndChaining
<1>2. /\ Goes("done") /\ job.orm = "seaorm" /\ job.chain = <<>>
      /\ job.declared = Len(job.loaded)
  BY EndChainingJob
<1>3. Active  BY <1>1 DEF Active
<1>4. /\ \A o \in ToSet(Outs) : Written(o)
      /\ \A p \in Swept("seaorm") : IsOutput(p) \/ IsModList(p)
      /\ \A e \in Entries : Declared(e) \/ Awaited(e)
      /\ \A p \in DOMAIN dir : \A child \in dir[p].mods : <<p, child>> \in Entries
  BY <1>1 DEF FreshInv, ChainingInv
<1>5. \A e : ~Awaited(e)
  <2>1. Len(job.loaded) \in Nat  BY <1>3, LoadedOnce
  <2>2. (job.declared + 1) .. Len(job.loaded) = {}  BY <1>2, <2>1
  <2>3. ToSet(job.chain) = {}  BY <1>2 DEF ToSet
  <2> QED  BY <2>2, <2>3 DEF Awaited
<1>6. ModulesComplete
  BY <1>2, <1>3, <1>4, <1>5, ChainsComplete
<1>7. ModulesComplete'  BY <1>1, <1>6 DEF ModulesComplete
<1>8. Outs' = Outs /\ job'.orm = job.orm /\ job'.pc = "done"
  BY <1>2, GoesOn DEF Goes
<1>9. Swept("seaorm")' = Swept("seaorm")  BY <1>1 DEF Swept
<1>10. \A p \in Swept("seaorm") :
           /\ dir[p].by \in {"seaorm", "mods"}
           /\ p.stem # <<"mod">> => \E o \in ToSet(Outs) : o[1] = p
  BY <1>2, <1>3, <1>4, OutputsFit DEF IsOutput, IsModList
<1>11. ExportIsFresh'
  <2> DEFINE outs == Outs'
  <2>1. outs = Outputs(job'.orm, job'.loaded) /\ outs = Outs  BY <1>8 DEF Outs
  <2> HIDE DEF outs
  <2>2. \A o \in ToSet(outs) : o[1] \in DOMAIN dir' /\ dir'[o[1]] = o[2]
    BY <1>1, <1>4, <2>1 DEF Written
  <2>3. \A p \in Swept("seaorm")' :
            /\ dir'[p].by \in {"seaorm", "mods"}
            /\ p.stem # <<"mod">> => \E o \in ToSet(outs) : o[1] = p
    BY <1>1, <1>9, <1>10, <2>1
  <2>4. job'.orm = "seaorm"  BY <1>2, <1>8
  <2>5. Swept(job.orm)' = Swept("seaorm")'  BY <2>4
  <2> QED  BY <1>7, <2>1, <2>2, <2>3, <2>4, <2>5 DEF ExportIsFresh
<1>12. RustMods'  BY <1>1 DEF FreshInv, RustMods
<1> QED  BY <1>8, <1>11, <1>12 DEF FreshInv, WritingInv, ChainingInv

LEMMA CrashFresh ==
    ASSUME JobInv, FreshInv, Crash
    PROVE  FreshInv'
<1>1. job'.pc = "failed"  BY DEF Crash, Idle
<1>2. ASSUME NEW whole, DOMAIN whole = DOMAIN Own, NEW content \in Torn(whole)
      PROVE  content.mods = {}
  BY <1>2 DEF Torn, Own
<1>3. CASE UNCHANGED dir
  BY <1>1, <1>3, NothingPromised DEF FreshInv, RustMods
<1>4. ASSUME NEW path, NEW whole, DOMAIN whole = DOMAIN Own,
             NEW content \in Torn(whole), Write(path, content)
      PROVE  FreshInv'
  BY <1>1, <1>2, <1>4, RustWrite, NothingPromised DEF FreshInv
<1>5. ASSUME NEW i \in DOMAIN job.writes
      PROVE  DOMAIN job.writes[i][2] = DOMAIN Own
  <2>1. job.pc = "writing" /\ job.writes[i] \in ToSet(Outs)
    <3>1. job.pc = "writing"  BY <1>5 DEF JobInv
    <3> QED  BY <1>5, <3>1 DEF JobInv
  <2> QED  BY <2>1, OutputIsWhole DEF Active
<1>6. DOMAIN ModFile({}) = DOMAIN Own  BY DEF ModFile, Own
<1> QED  BY <1>3, <1>4, <1>5, <1>6 DEF Crash

LEMMA NextFresh ==
    ASSUME JobInv, FreshInv, PathsApart, [Next]_vars
    PROVE  FreshInv'
<1>1. ASSUME dir' = dir, job'.pc \notin {"writing", "chaining", "done"}
      PROVE  FreshInv'
  BY <1>1, NothingPromised DEF FreshInv, RustMods
<1>2. ASSUME UNCHANGED vars PROVE FreshInv'
  BY <1>2 DEF vars, FreshInv, RustMods, WritingInv, ChainingInv, ExportIsFresh,
              Written, IsOutput, IsModList, Declared, Awaited, Outs, Entries, Swept,
              ModulesComplete
<1>3. ASSUME EditModels PROVE FreshInv'
  BY <1>1, <1>3 DEF EditModels, Idle
<1>4. ASSUME NEW path \in OwnPaths, WriteOwnFile(path) PROVE FreshInv'
  <2>1. Write(path, Own) /\ Own.mods = {} /\ job'.pc = "idle"
    BY <1>4 DEF WriteOwnFile, Idle, Own
  <2> QED  BY <2>1, RustWrite, NothingPromised DEF FreshInv
<1>5. ASSUME NEW orm \in Orms, StartExport(orm) PROVE FreshInv'
  <2>1. dir' = dir /\ job'.pc \in {"failed", "loaded"}
    BY <1>5 DEF StartExport, Idle
  <2> QED  BY <1>1, <2>1
<1>6. ASSUME NEW path \in DOMAIN dir, RemoveFile(path) PROVE FreshInv'
  <2>1. /\ job'.pc = "loaded"
        /\ dir' = [p \in DOMAIN dir \ {path} |-> dir[p]]
    BY <1>6 DEF RemoveFile
  <2>2. RustMods'  BY <2>1 DEF FreshInv, RustMods
  <2> QED  BY <2>1, <2>2, NothingPromised
<1>7. ASSUME EndSweep PROVE FreshInv'
  BY <1>7, WritingFresh DEF EndSweep, Active
<1>8. ASSUME SkipSweep PROVE FreshInv'
  <2>1. job.orm \notin Sweeping
    BY <1>8 DEF SkipSweep, Sweeping, FilePerTable
  <2> QED  BY <1>8, <2>1, WritingFresh DEF SkipSweep, Active
<1>9. ASSUME CheckMarker PROVE FreshInv'
  <2>1. job.orm \notin Sweeping
    BY <1>9 DEF CheckMarker, Sweeping, FilePerTable, Marked
  <2>2. /\ dir' = dir /\ job.pc = "loaded"
        /\ project' = project /\ models' = models
        /\ ToWriting \/ job'.pc = "refused"
    BY <1>9 DEF CheckMarker, Idle
  <2> QED  BY <1>1, <2>1, <2>2, WritingFresh DEF Active
<1>10. ASSUME NEW i \in DOMAIN job.writes, WriteFile(i) PROVE FreshInv'
  BY <1>10, WriteFileFresh
<1>11. ASSUME EndWriting PROVE FreshInv'
  BY <1>11, EndWritingFresh
<1>12. ASSUME NextModel PROVE FreshInv'
  BY <1>12, NextModelFresh
<1>13. ASSUME DeclareModule PROVE FreshInv'
  BY <1>13, DeclareModuleFresh
<1>14. ASSUME EndChaining PROVE FreshInv'
  BY <1>14, EndChainingFresh
<1>15. ASSUME Crash PROVE FreshInv'
  BY <1>15, CrashFresh
<1> QED  BY <1>2, <1>3, <1>4, <1>5, <1>6, <1>7, <1>8, <1>9, <1>10, <1>11, <1>12,
            <1>13, <1>14, <1>15 DEF Next

\* When cmd_export ends, the directory holds exactly the renderings of the
\* models that are on disk, in one piece, and ensure_mod_chain has declared
\* each of SeaORM's modules: whatever files, finished, torn or the user's, were
\* there before, and in whatever order clean_export_dir removed them and the
\* new ones were written, if each model has a file of its own.
THEOREM FinishedExportIsFresh ==
    ASSUME PathsApart
    PROVE  Spec => []ExportIsFresh
<1>1. Init => JobInv /\ FreshInv  BY InitJob, InitFresh
<1>2. JobInv /\ FreshInv /\ [Next]_vars => (JobInv /\ FreshInv)'
  BY NextJob, NextFresh
<1>3. FreshInv => ExportIsFresh  BY DEF FreshInv
<1> QED  BY <1>1, <1>2, <1>3, PTL DEF Spec

----------------------------------------------------------------------------
(* The symbols of the rendered files.                                      *)

\* collect_table_enums: each entry is the type of an enum column, and each
\* enum column finds an entry with its label.
LEMMA TableEnums ==
    ASSUME NEW table, NEW E, table.cols \in Seq(E)
    PROVE  /\ CollectTableEnums(table) \in Seq({c.type : c \in ToSet(table.cols)})
           /\ \A i \in DOMAIN CollectTableEnums(table) :
                 IsEnum(CollectTableEnums(table)[i])
           /\ \A c \in ToSet(table.cols) : IsEnum(c.type) =>
                 \E i \in DOMAIN CollectTableEnums(table) :
                    CollectTableEnums(table)[i].label = c.type.label
<1> DEFINE cols == table.cols
           n == Len(cols)
           A == Seq({c.type : c \in ToSet(cols)})
           New(acc, c) == IsEnum(c.type) /\ \A i \in DOMAIN acc : acc[i].label # c.type.label
           Op(acc, c) == IF New(acc, c) THEN Append(acc, c.type) ELSE acc
           h == [p \in A \X (1 .. n) |-> Op(p[1], cols[p[2]])]
           Body(it) == [s \in SUBSET DOMAIN cols |->
                           IF s = {} THEN <<>>
                           ELSE Op(it[s \ {Max(s)}], cols[Max(s)])]
<1>1. n \in Nat /\ DOMAIN cols = 1 .. n  OBVIOUS
<1>2. \A k \in 1 .. n : cols[k] \in ToSet(cols)  BY <1>1 DEF ToSet
<1>3. \A acc \in A : \A k \in 1 .. n : Op(acc, cols[k]) \in A
  <2>1. ASSUME NEW acc \in A, NEW k \in 1 .. n PROVE Op(acc, cols[k]) \in A
    <3>1. cols[k].type \in {c.type : c \in ToSet(cols)}  BY <1>2
    <3>2. Append(acc, cols[k].type) \in A
      <4> HIDE DEF cols
      <4> QED  BY <3>1
    <3> HIDE DEF A, New, cols
    <3> QED  BY <3>2
  <2> QED  BY <2>1
<1>4. h \in [A \X (1 .. n) -> A]
  <2> HIDE DEF A, Op, n, cols
  <2> QED  BY <1>3
<1>5. <<>> \in A  OBVIOUS
<1>6. \E it \in [SUBSET (1 .. n) -> A] : it = Body(it)
  <2>1. PICK it : FoldsBy(it, A, n, <<>>, h)
    <3> HIDE DEF A, h, n
    <3> QED  BY <1>1, <1>4, <1>5, FoldIter
  <2>2. ASSUME NEW s \in SUBSET (1 .. n), s # {}
        PROVE  h[<<it[s \ {Max(s)}], Max(s)>>] = Op(it[s \ {Max(s)}], cols[Max(s)])
    <3>1. Max(s) \in 1 .. n
      <4> HIDE DEF n
      <4> QED  BY <1>1, <2>2, MaxIsMember
    <3> HIDE DEF A, Op, n, cols
    <3>2. it[s \ {Max(s)}] \in A  BY <2>1 DEF FoldsBy
    <3> QED  BY <3>1, <3>2
  <2>3. it = Body(it)
    <3> HIDE DEF A, h, Op, n, cols
    <3> QED  BY <1>1, <2>1, <2>2 DEF FoldsBy
  <2>4. it \in [SUBSET (1 .. n) -> A]  BY <2>1 DEF FoldsBy
  <2> HIDE DEF A, Body, n
  <2> QED  BY <2>3, <2>4
<1> DEFINE it0 == CHOOSE it : it = Body(it)
<1>7. it0 = Body(it0)
  <2> HIDE DEF Body, A, n
  <2> QED  BY <1>6
<1>8. CollectTableEnums(table) = it0[DOMAIN cols]
  BY DEF CollectTableEnums, FoldLeft, MapThenFoldSet
<1> HIDE DEF it0
<1> DEFINE st(k) == it0[1 .. k]
<1>9. st(0) = <<>>
  <2>1. 1 .. 0 = {} /\ {} \in SUBSET DOMAIN cols  OBVIOUS
  <2> HIDE DEF Op, cols
  <2> QED  BY <1>7, <2>1
<1>10. ASSUME NEW k \in 1 .. n PROVE st(k) = Op(st(k - 1), cols[k])
  <2>1. k \in 1 .. k /\ k \in Nat /\ (1 .. k) \ {k} = 1 .. (k - 1)  OBVIOUS
  <2>2. 1 .. k \in SUBSET DOMAIN cols /\ 1 .. k # {}
    <3>1. \A i \in 1 .. k : i \in 1 .. n  BY <1>1
    <3> HIDE DEF cols, n
    <3> QED  BY <1>1, <2>1, <3>1
  <2>3. Max(1 .. k) = k  BY <2>1, MaxUpTo
  <2> HIDE DEF Op, cols
  <2> QED  BY <1>7, <2>1, <2>2, <2>3
<1> HIDE DEF st
<1> DEFINE Good(acc, k) ==
             /\ acc \in A
             /\ \A i \in DOMAIN acc : IsEnum(acc[i])
             /\ \A j \in 1 .. k : IsEnum(cols[j].type) =>
                   \E i \in DOMAIN acc : acc[i].label = cols[j].type.label
           G == {k \in Nat : Good(st(k), k)}
<1>11. 0 \in G
  <2>1. DOMAIN st(0) = {} /\ 1 .. 0 = {}  BY <1>9
  <2> HIDE DEF A, cols
  <2> QED  BY <1>5, <1>9, <2>1
<1>12. ASSUME NEW k \in 1 .. n, k - 1 \in G PROVE k \in G
  <2> DEFINE acc == st(k - 1)
  <2>1. Good(acc, k - 1)  BY <1>12
  <2>2. st(k) = Op(acc, cols[k])  BY <1>10
  <2>3. st(k) \in A
    <3> HIDE DEF A, Op, cols, n
    <3> QED  BY <1>3, <2>1, <2>2
  <2>4. \A j \in 1 .. k : j \in 1 .. (k - 1) \/ j = k  OBVIOUS
  <2>5. CASE New(acc, cols[k])
    <3>1. st(k) = Append(acc, cols[k].type)  BY <2>2, <2>5
    <3>2. acc \in A  BY <2>1
    <3> DEFINE T == {c.type : c \in ToSet(cols)}
    <3>3. cols[k].type \in T  BY <1>2
    <3>4. /\ Len(acc) \in Nat /\ DOMAIN acc = 1 .. Len(acc)
          /\ DOMAIN st(k) = 1 .. (Len(acc) + 1)
          /\ \A i \in 1 .. Len(acc) : st(k)[i] = acc[i]
          /\ st(k)[Len(acc) + 1] = cols[k].type
      <4>1. acc \in Seq(T)  BY <3>2
      <4> HIDE DEF acc, T, cols
      <4> QED  BY <3>1, <3>3, <4>1
    <3>5. \A i \in DOMAIN st(k) : IsEnum(st(k)[i])
      <4>1. \A i \in 1 .. (Len(acc) + 1) : i \in 1 .. Len(acc) \/ i = Len(acc) + 1
        BY <3>4
      <4> HIDE DEF acc, cols, A
      <4> QED  BY <2>1, <2>5, <3>4, <4>1
    <3>6. ASSUME NEW j \in 1 .. k, IsEnum(cols[j].type)
          PROVE  \E i \in DOMAIN st(k) : st(k)[i].label = cols[j].type.label
      <4>1. CASE j = k
        <5>1. Len(acc) + 1 \in DOMAIN st(k)  BY <3>4
        <5> QED  BY <3>4, <4>1, <5>1
      <4>2. CASE j # k
        <5>1. PICK i \in DOMAIN acc : acc[i].label = cols[j].type.label
          BY <2>1, <2>4, <3>6, <4>2
        <5>2. i \in DOMAIN st(k) /\ st(k)[i] = acc[i]  BY <3>4
        <5> QED  BY <5>1, <5>2
      <4> QED  BY <4>1, <4>2
    <3> QED  BY <2>3, <3>5, <3>6
  <2>6. CASE ~New(acc, cols[k])
    <3>1. st(k) = acc  BY <2>2, <2>6
    <3>2. IsEnum(cols[k].type) => \E i \in DOMAIN acc : acc[i].label = cols[k].type.label
      BY <2>6
    <3> HIDE DEF acc, A, New, cols
    <3> QED  BY <2>1, <2>3, <2>4, <3>1, <3>2
  <2> QED  BY <2>5, <2>6
<1>13. \A k \in 0 .. n : k \in G
  <2> HIDE DEF G, n
  <2> QED  BY <1>1, <1>11, <1>12, UpTo
<1>14. Good(st(n), n) /\ CollectTableEnums(table) = st(n)
  <2>1. n \in G
    <3> HIDE DEF G, n
    <3> QED  BY <1>1, <1>13
  <2> QED  BY <1>1, <1>8, <2>1 DEF st
<1>15. \A c \in ToSet(cols) : \E j \in 1 .. n : c = cols[j]  BY <1>1 DEF ToSet
<1> HIDE DEF st
<1> QED  BY <1>14, <1>15

ColsOf(tables) == [i \in DOMAIN tables |-> tables[i].cols]

\* custom_type_decls is not empty when a column has a custom type.
LEMMA CustomTypesFound ==
    ASSUME NEW tables, NEW C, ColsOf(tables) \in Seq(Seq(C)), NEW dialect,
           NEW i \in DOMAIN tables, NEW c \in ToSet(tables[i].cols),
           CustomLabel(c.type, dialect) # Absent
    PROVE  CustomTypes(tables, dialect) # <<>>
<1> DEFINE cols == FlattenSeq(ColsOf(tables))
           n == Len(cols)
           label(k) == CustomLabel(cols[k].type, dialect)
           L == {label(k)[1] : k \in 1 .. n}
           A == Seq(L)
           Op(acc, k) == IF label(k) = Absent \/ Contains(acc, label(k)[1]) THEN acc
                         ELSE Append(acc, label(k)[1])
           h == [p \in A \X (1 .. n) |-> Op(p[1], p[2])]
           Body(it) == [s \in SUBSET DOMAIN cols |->
                           IF s = {} THEN <<>> ELSE Op(it[s \ {Max(s)}], Max(s))]
<1>0. /\ cols \in Seq(C)
      /\ ToSet(cols) = UNION {ToSet(ColsOf(tables)[j]) : j \in DOMAIN ColsOf(tables)}
  BY FlattenRange
<1>1. n \in Nat /\ DOMAIN cols = 1 .. n
  <2> HIDE DEF cols
  <2> QED  BY <1>0
<1>2. \E m \in 1 .. n : cols[m] = c
  <2>1. c \in ToSet(cols)
    <3>1. i \in DOMAIN ColsOf(tables) /\ ColsOf(tables)[i] = tables[i].cols  BY DEF ColsOf
    <3> HIDE DEF cols
    <3> QED  BY <1>0, <3>1
  <2> HIDE DEF cols
  <2> QED  BY <1>1, <2>1 DEF ToSet
<1> HIDE DEF cols
<1>3. \A acc \in A : \A k \in 1 .. n : Op(acc, k) \in A
  <2>1. ASSUME NEW acc \in A, NEW k \in 1 .. n PROVE Op(acc, k) \in A
    <3> DEFINE x == label(k)[1]
    <3>1. x \in L  OBVIOUS
    <3>2. Append(acc, x) \in A
      <4> HIDE DEF x, L
      <4> QED  BY <3>1
    <3> HIDE DEF A, label
    <3> QED  BY <3>2
  <2> QED  BY <2>1
<1>4. h \in [A \X (1 .. n) -> A]
  <2> HIDE DEF A, Op, n
  <2> QED  BY <1>3
<1>5. <<>> \in A  OBVIOUS
<1>6. \E it : it = Body(it)
  <2>1. PICK it : FoldsBy(it, A, n, <<>>, h)
    <3> HIDE DEF A, h, n
    <3> QED  BY <1>1, <1>4, <1>5, FoldIter
  <2>2. ASSUME NEW s \in SUBSET (1 .. n), s # {}
        PROVE  h[<<it[s \ {Max(s)}], Max(s)>>] = Op(it[s \ {Max(s)}], Max(s))
    <3>1. Max(s) \in 1 .. n
      <4> HIDE DEF n
      <4> QED  BY <1>1, <2>2, MaxIsMember
    <3> HIDE DEF A, Op, n
    <3>2. it[s \ {Max(s)}] \in A  BY <2>1 DEF FoldsBy
    <3> QED  BY <3>1, <3>2
  <2>3. it = Body(it)
    <3> HIDE DEF A, h, Op, n
    <3> QED  BY <1>1, <2>1, <2>2 DEF FoldsBy
  <2> HIDE DEF Body
  <2> QED  BY <2>3
<1> DEFINE it0 == CHOOSE it : it = Body(it)
<1>7. it0 = Body(it0)
  <2> HIDE DEF Body
  <2> QED  BY <1>6
<1>8. CustomTypes(tables, dialect) = it0[DOMAIN cols]
  BY DEF CustomTypes, FoldLeft, MapThenFoldSet, cols, ColsOf
<1> HIDE DEF it0
<1> DEFINE st(k) == it0[1 .. k]
<1>9. st(0) = <<>>
  <2>1. 1 .. 0 = {} /\ {} \in SUBSET DOMAIN cols  OBVIOUS
  <2> HIDE DEF Op
  <2> QED  BY <1>7, <2>1
<1>10. ASSUME NEW k \in 1 .. n PROVE st(k) = Op(st(k - 1), k)
  <2>1. k \in 1 .. k /\ k \in Nat /\ (1 .. k) \ {k} = 1 .. (k - 1)  OBVIOUS
  <2>2. 1 .. k \in SUBSET DOMAIN cols /\ 1 .. k # {}
    <3>1. \A j \in 1 .. k : j \in 1 .. n  BY <1>1
    <3> HIDE DEF n
    <3> QED  BY <1>1, <2>1, <3>1
  <2>3. Max(1 .. k) = k  BY <2>1, MaxUpTo
  <2> HIDE DEF Op
  <2> QED  BY <1>7, <2>1, <2>2, <2>3
<1> HIDE DEF st
<1> DEFINE Good(acc, k) ==
             /\ acc \in A
             /\ (\E j \in 1 .. k : label(j) # Absent) => acc # <<>>
           G == {k \in Nat : Good(st(k), k)}
<1>11. 0 \in G
  <2>1. 1 .. 0 = {}  OBVIOUS
  <2> HIDE DEF A, label
  <2> QED  BY <1>5, <1>9, <2>1
<1>12. ASSUME NEW k \in 1 .. n, k - 1 \in G PROVE k \in G
  <2> DEFINE acc == st(k - 1)
  <2>1. Good(acc, k - 1)  BY <1>12
  <2>2. st(k) = Op(acc, k)  BY <1>10
  <2>3. st(k) \in A
    <3> HIDE DEF A, Op, n
    <3> QED  BY <1>3, <2>1, <2>2
  <2>4. \A j \in 1 .. k : j \in 1 .. (k - 1) \/ j = k  OBVIOUS
  <2>5. Append(acc, label(k)[1]) # <<>>
    <3> DEFINE x == label(k)[1]
    <3>1. acc \in Seq(L)  BY <2>1
    <3> HIDE DEF acc, x, L
    <3>2. Len(Append(acc, x)) = Len(acc) + 1 /\ Len(acc) \in Nat  BY <3>1
    <3>3. Len(Append(acc, x)) # 0  BY <3>2
    <3>4. Len(<<>>) = 0  OBVIOUS
    <3> QED  BY <3>3, <3>4, Zenon DEF x
  <2>6. Contains(acc, label(k)[1]) => acc # <<>>
    <3>1. DOMAIN <<>> = {}  OBVIOUS
    <3> HIDE DEF acc, label
    <3> QED  BY <3>1 DEF Contains
  <2>7. label(k) # Absent => st(k) # <<>>
    <3> HIDE DEF acc, label
    <3> QED  BY <2>2, <2>5, <2>6
  <2>8. label(k) = Absent => st(k) = acc
    <3> HIDE DEF acc, label
    <3> QED  BY <2>2
  <2>9. acc # <<>> => st(k) # <<>>
    <3> HIDE DEF acc, label
    <3> QED  BY <2>2, <2>5
  <2> HIDE DEF acc, label, A
  <2> QED  BY <2>1, <2>3, <2>4, <2>7, <2>9
<1>13. \A k \in 0 .. n : k \in G
  <2> HIDE DEF G, n
  <2> QED  BY <1>1, <1>11, <1>12, UpTo
<1>14. Good(st(n), n) /\ CustomTypes(tables, dialect) = st(n)
  <2>1. n \in G
    <3> HIDE DEF G, n
    <3> QED  BY <1>1, <1>13
  <2> QED  BY <1>1, <1>8, <2>1 DEF st
<1> HIDE DEF st
<1> QED  BY <1>2, <1>14

\* collect_table_enums keeps a string enum of a table unless an integer enum
\* of the table has its label.
LEMMA PgEnumDeclared ==
    ASSUME NEW tables, NEW C, ColsOf(tables) \in Seq(Seq(C)),
           NEW i \in DOMAIN tables, NEW d \in ToSet(tables[i].cols),
           d.type.kind = "senum",
           \A c \in ToSet(tables[i].cols) :
               ~(c.type.kind = "ienum" /\ c.type.label = d.type.label)
    PROVE  DeclaresPgEnum(tables, "pg")
<1> DEFINE enums(k) == CollectTableEnums(tables[k])
           part(k) == [j \in DOMAIN enums(k) |->
                          [table |-> tables[k].name, type |-> enums(k)[j]]]
           parts == [k \in DOMAIN tables |-> part(k)]
           S == UNION {ToSet(part(k)) : k \in DOMAIN tables}
           types(k) == {c.type : c \in ToSet(tables[k].cols)}
<1>1. \A k \in DOMAIN tables : tables[k].cols \in Seq(C)  BY DEF ColsOf
<1>2. DOMAIN tables = 1 .. Len(ColsOf(tables)) /\ Len(ColsOf(tables)) \in Nat
  BY DEF ColsOf
<1>3. ASSUME NEW k \in DOMAIN tables PROVE part(k) \in Seq(S)
  <2>1. enums(k) \in Seq(types(k))  BY <1>1, TableEnums
  <2>2. DOMAIN enums(k) = 1 .. Len(enums(k)) /\ Len(enums(k)) \in Nat
    <3> HIDE DEF enums, types
    <3> QED  BY <2>1
  <2>3. ToSet(part(k)) \subseteq S  OBVIOUS
  <2>4. \A j \in DOMAIN enums(k) : part(k)[j] \in S
    <3>1. \A j \in DOMAIN enums(k) : part(k)[j] \in ToSet(part(k))
      <4> HIDE DEF enums
      <4> QED  BY DEF ToSet
    <3> HIDE DEF part, enums, S
    <3> QED  BY <2>3, <3>1
  <2>5. part(k) \in [1 .. Len(enums(k)) -> S]
    <3> HIDE DEF enums, S
    <3> QED  BY <2>2, <2>4
  <2> HIDE DEF part, enums, S
  <2> QED  BY <2>2, <2>5
<1>4. parts \in Seq(Seq(S))
  <2> HIDE DEF part, S
  <2> QED  BY <1>2, <1>3
<1>5. SchemaEnums(tables) = FlattenSeq(parts)  BY DEF SchemaEnums
<1>6. PICK j \in DOMAIN enums(i) : IsEnum(enums(i)[j]) /\ enums(i)[j].label = d.type.label
  BY <1>1, TableEnums DEF IsEnum
<1>7. enums(i)[j].kind = "senum"
  <2>1. enums(i) \in Seq(types(i))  BY <1>1, TableEnums
  <2>2. enums(i)[j] \in types(i)
    <3> HIDE DEF enums, types
    <3> QED  BY <1>6, <2>1
  <2>3. PICK c \in ToSet(tables[i].cols) : enums(i)[j] = c.type  BY <2>2
  <2> HIDE DEF enums
  <2> QED  BY <1>6, <2>3 DEF IsEnum
<1> DEFINE e == [table |-> tables[i].name, type |-> enums(i)[j]]
<1>8. e \in ToSet(FlattenSeq(parts))
  <2>1. e \in ToSet(part(i))
    <3> HIDE DEF enums
    <3> QED  BY <1>6 DEF ToSet
  <2>2. parts[i] = part(i) /\ i \in DOMAIN parts  OBVIOUS
  <2>3. ToSet(FlattenSeq(parts)) = UNION {ToSet(parts[k]) : k \in DOMAIN parts}
    BY <1>4, FlattenRange
  <2> HIDE DEF parts, part, e
  <2> QED  BY <2>1, <2>2, <2>3
<1>9. e.type.kind = "senum"
  <2> HIDE DEF enums
  <2> QED  BY <1>7
<1>10. \E k \in DOMAIN FlattenSeq(parts) : FlattenSeq(parts)[k] = e
  <2> HIDE DEF parts, e
  <2> QED  BY <1>8 DEF ToSet
<1> HIDE DEF parts, e
<1> QED  BY <1>5, <1>9, <1>10 DEF DeclaresPgEnum, Some

\* The type maps of the backends and the groups in which they collect.
LEMMA SaTypesCollected ==
    ASSUME NEW type
    PROVE  Mapped(ColumnTypeToSqlAlchemy, type) \subseteq AddSaTypes(type)
<1> DEFINE class == ClassOf(type)
<1>1. CASE class \notin DOMAIN ColumnTypeToSqlAlchemy  BY <1>1 DEF Mapped
<1>2. CASE class \in DOMAIN ColumnTypeToSqlAlchemy
  <2>1. Mapped(ColumnTypeToSqlAlchemy, type) = {ColumnTypeToSqlAlchemy[class]}
    BY <1>2 DEF Mapped
  <2>2. ColumnTypeToSqlAlchemy[class] \in AddSaTypes(type)
    <3> HIDE DEF class
    <3> QED  BY <1>2 DEF ColumnTypeToSqlAlchemy, AddSaTypes, UsesIf, class
  <2> QED  BY <2>1, <2>2
<1> QED  BY <1>1, <1>2

LEMMA SqlAlchemyResolves ==
    ASSUME NEW table
    PROVE  SqlAlchemyFile(table).uses \subseteq SqlAlchemyFile(table).imports
<1> DEFINE Needed(col) == AddColumnType(col) \cup AddSaTypes(col.type) \cup EnumSymbols(col)
           imports == OrmSymbols \cup SqlAlchemyImports(table)
<1>1. SqlAlchemyFile(table).imports = imports  BY DEF SqlAlchemyFile, File
<1>2. SqlAlchemyFile(table).uses =
        OrmSymbols \cup (UNION {SqlAlchemyUses(table, table.cols[i]) : i \in DOMAIN table.cols})
            \cup TableArgs(table, AnyIndex(table))
  BY DEF SqlAlchemyFile, File, InColumns
<1>3. SqlAlchemyImports(table) =
        (UNION {Needed(table.cols[i]) : i \in DOMAIN table.cols})
            \cup TableArgs(table, AnyIndex(table))
            \cup UsesIf(\E i \in DOMAIN table.cols : HasFk(table, table.cols[i]), "ForeignKey")
            \cup UsesIf(\E i \in DOMAIN table.cols : ContainsParen(table.cols[i].default), "text")
  BY DEF SqlAlchemyImports, InColumns, Some
<1>4. ASSUME NEW i \in DOMAIN table.cols
      PROVE  SqlAlchemyUses(table, table.cols[i]) \subseteq SqlAlchemyImports(table)
  <2> DEFINE col == table.cols[i]
  <2>1. PythonSymbols(col) = AddColumnType(col)
    BY DEF PythonSymbols, AddColumnType, PythonType
  <2>2. Mapped(ColumnTypeToSqlAlchemy, col.type) \subseteq AddSaTypes(col.type)
    BY SaTypesCollected
  <2>3. PythonSymbols(col) \cup EnumSymbols(col)
            \cup Mapped(ColumnTypeToSqlAlchemy, col.type) \subseteq Needed(col)
    BY <2>1, <2>2
  <2>4. Needed(col) \subseteq SqlAlchemyImports(table)
    <3> HIDE DEF Needed
    <3> QED  BY <1>3
  <2>5. UsesIf(HasFk(table, col), "ForeignKey") \subseteq SqlAlchemyImports(table)
    <3> HIDE DEF Needed
    <3> QED  BY <1>3 DEF UsesIf
  <2>6. UsesIf(ContainsParen(col.default), "text") \subseteq SqlAlchemyImports(table)
    <3> HIDE DEF Needed
    <3> QED  BY <1>3 DEF UsesIf
  <2>7. SqlAlchemyUses(table, col) =
          PythonSymbols(col) \cup EnumSymbols(col)
              \cup Mapped(ColumnTypeToSqlAlchemy, col.type)
              \cup UsesIf(HasFk(table, col), "ForeignKey")
              \cup UsesIf(ContainsParen(col.default), "text")
    BY DEF SqlAlchemyUses
  <2> HIDE DEF Needed, col
  <2> QED  BY <2>3, <2>4, <2>5, <2>6, <2>7 DEF col
<1>5. TableArgs(table, AnyIndex(table)) \subseteq SqlAlchemyImports(table)
  <2> HIDE DEF Needed
  <2> QED  BY <1>3
<1> HIDE DEF Needed
<1> QED  BY <1>1, <1>2, <1>4, <1>5

LEMMA SqlModelResolves ==
    ASSUME NEW table,
           \A c \in ToSet(table.cols) :
               SqlModelDefaultIsText(c.default) => ContainsParen(c.default)
    PROVE  SqlModelFile(table).uses \subseteq SqlModelFile(table).imports
<1> DEFINE Needed(col) == AddFieldType(col) \cup EnumSymbols(col)
                              \cup UsesIf(ContainsParen(col.default), "text")
           args == TableArgs(table, CompositeIndex(table))
<1>1. SqlModelFile(table).imports =
        {"Field", "SQLModel"} \cup ((UNION {Needed(table.cols[i]) : i \in DOMAIN table.cols}) \cup args)
  BY DEF SqlModelFile, File, SqlModelImports, InColumns
<1>2. SqlModelFile(table).uses =
        {"Field", "SQLModel"} \cup (UNION {SqlModelUses(table.cols[i]) : i \in DOMAIN table.cols})
            \cup args
  BY DEF SqlModelFile, File, InColumns
<1>3. ASSUME NEW i \in DOMAIN table.cols
      PROVE  SqlModelUses(table.cols[i]) \subseteq Needed(table.cols[i])
  <2> DEFINE col == table.cols[i]
             class == ClassOf(col.type)
  <2>1. Mapped(PythonType, col.type) \subseteq AddFieldType(col)
    <3>1. CASE class \notin DOMAIN PythonType  BY <3>1 DEF Mapped
    <3>2. CASE class \in DOMAIN PythonType
      <4>1. Mapped(PythonType, col.type) = {PythonType[class]}  BY <3>2 DEF Mapped
      <4>2. PythonType[class] \in AddFieldType(col)
        <5> HIDE DEF class, col
        <5> QED  BY <3>2 DEF PythonType, AddFieldType, UsesIf, class
      <4> QED  BY <4>1, <4>2
    <3> QED  BY <3>1, <3>2
  <2>2. PythonSymbols(col) \subseteq AddFieldType(col)
    BY <2>1 DEF PythonSymbols, AddFieldType
  <2>3. col \in ToSet(table.cols)  BY DEF ToSet
  <2>4. UsesIf(SqlModelDefaultIsText(col.default), "text")
            \subseteq UsesIf(ContainsParen(col.default), "text")
    BY <2>3 DEF UsesIf
  <2> HIDE DEF col
  <2> QED  BY <2>2, <2>4 DEF SqlModelUses, col
<1> HIDE DEF Needed, args
<1> QED  BY <1>1, <1>2, <1>3

LEMMA JpaResolves ==
    ASSUME NEW table
    PROVE  JpaFile(table).uses \subseteq JpaFile(table).imports
<1>1. \A col : JavaImports(col) = Mapped(JavaType, col.type)
  BY DEF JavaImports, JavaType
<1> QED  BY <1>1 DEF JpaFile, File, InColumns

LEMMA SeaOrmResolves ==
    ASSUME NEW table, NEW E, table.cols \in Seq(E)
    PROVE  SeaOrmFile(table).uses \subseteq SeaOrmFile(table).imports
<1>1. ASSUME CollectTableEnums(table) # <<>>
      PROVE  Some(table.cols, LAMBDA c : IsEnum(c.type))
  <2> DEFINE enums == CollectTableEnums(table)
             types == {c.type : c \in ToSet(table.cols)}
  <2>1. enums \in Seq(types) /\ \A i \in DOMAIN enums : IsEnum(enums[i])  BY TableEnums
  <2>2. 1 \in DOMAIN enums /\ enums[1] \in types
    <3> HIDE DEF types, enums
    <3> QED  BY <1>1, <2>1 DEF enums
  <2>3. PICK c \in ToSet(table.cols) : enums[1] = c.type  BY <2>2
  <2>4. IsEnum(c.type)  BY <2>1, <2>2, <2>3
  <2> QED  BY <2>4 DEF Some, ToSet
<1> QED  BY <1>1 DEF SeaOrmFile, File, SeaOrmEnumSymbols, UsesIf

LEMMA GormResolves ==
    ASSUME NEW tables
    PROVE  GormFile(tables).imports = GormFile(tables).uses
<1>1. ASSUME NEW type PROVE GoImports(type) = GoBaseType(type)
  <2> DEFINE class == ClassOf(type)
             json == IsJsonbCustomType(type)
  <2>1. GoImports(type) =
          UsesIf(class \in {"Date", "Time", "Timestamp", "Timestamptz"}, "time")
              \cup UsesIf(class = "Uuid", "uuid")
              \cup UsesIf(class = "Json" \/ json, "datatypes")
              \cup UsesIf(class = "numeric", "decimal")
    BY DEF GoImports
  <2>2. GoBaseType(type) =
          (IF class \in DOMAIN GoPackage THEN {GoPackage[class]} ELSE {})
              \cup UsesIf(json, "datatypes")
    BY DEF GoBaseType, Mapped
  <2> HIDE DEF class, json
  <2>3. CASE class \in DOMAIN GoPackage
    BY <2>1, <2>2, <2>3 DEF GoPackage, UsesIf
  <2>4. CASE class \notin DOMAIN GoPackage
    BY <2>1, <2>2, <2>4 DEF GoPackage, UsesIf
  <2> QED  BY <2>3, <2>4
<1> QED  BY <1>1 DEF GormFile, File

LEMMA DjangoResolves ==
    ASSUME NEW tables
    PROVE  DjangoFile(tables).uses = DjangoFile(tables).imports
BY DEF DjangoFile, File

\* Every constructor of a column is a name that its dialect reserves.
LEMMA CtorsReserved ==
    ASSUME NEW d \in DOMAIN TableFn, NEW type
    PROVE  ColumnCtor(type, d) \subseteq ImportVocabulary(d)
<1> DEFINE class == ClassOf(type)
           simple == CASE d = "pg" -> PgTypes
                       [] d = "mysql" -> MysqlTypes
                       [] d = "sqlite" -> SqliteTypes
           map == IF type.kind = "simple" THEN simple ELSE ComplexTypes[d]
<1>1. ColumnCtor(type, d) = IF class \in DOMAIN map THEN {map[class]} ELSE {}
  BY DEF ColumnCtor, Mapped
<1>2. CASE d = "pg"
  <2>1. map = IF type.kind = "simple" THEN PgTypes ELSE ComplexTypes.pg
    BY <1>2
  <2>2. class \in DOMAIN PgTypes => PgTypes[class] \in ImportVocabulary("pg")
    <3> HIDE DEF class
    <3> QED  BY DEF PgTypes, ImportVocabulary
  <2>3. class \in DOMAIN ComplexTypes.pg => ComplexTypes.pg[class] \in ImportVocabulary("pg")
    <3> HIDE DEF class
    <3> QED  BY DEF ComplexTypes, ImportVocabulary
  <2> HIDE DEF class, map
  <2> QED  BY <1>1, <1>2, <2>1, <2>2, <2>3
<1>3. CASE d = "mysql"
  <2>1. map = IF type.kind = "simple" THEN MysqlTypes ELSE ComplexTypes.mysql
    BY <1>3
  <2>2. class \in DOMAIN MysqlTypes => MysqlTypes[class] \in ImportVocabulary("mysql")
    <3> HIDE DEF class
    <3> QED  BY DEF MysqlTypes, ImportVocabulary
  <2>3. class \in DOMAIN ComplexTypes.mysql =>
          ComplexTypes.mysql[class] \in ImportVocabulary("mysql")
    <3> HIDE DEF class
    <3> QED  BY DEF ComplexTypes, ImportVocabulary
  <2> HIDE DEF class, map
  <2> QED  BY <1>1, <1>3, <2>1, <2>2, <2>3
<1>4. CASE d = "sqlite"
  <2>1. map = IF type.kind = "simple" THEN SqliteTypes ELSE ComplexTypes.sqlite
    BY <1>4
  <2>2. class \in DOMAIN SqliteTypes => SqliteTypes[class] \in ImportVocabulary("sqlite")
    <3> HIDE DEF class
    <3> QED  BY DEF SqliteTypes, ImportVocabulary
  <2>3. class \in DOMAIN ComplexTypes.sqlite =>
          ComplexTypes.sqlite[class] \in ImportVocabulary("sqlite")
    <3> HIDE DEF class
    <3> QED  BY DEF ComplexTypes, ImportVocabulary
  <2> HIDE DEF class, map
  <2> QED  BY <1>1, <1>4, <2>1, <2>2, <2>3
<1> QED  BY <1>2, <1>3, <1>4 DEF TableFn

\* What the tables of a Drizzle file mention is reserved.
LEMMA DrizzleTableReserved ==
    ASSUME NEW d \in DOMAIN TableFn, NEW table
    PROVE  DrizzleTableSymbols(table, d) \subseteq ImportVocabulary(d)
<1>1. {"primaryKey", "foreignKey", "uniqueIndex", "index", "check", "sql", TableFn[d]}
          \subseteq ImportVocabulary(d)
  BY DEF ImportVocabulary
<1>2. \A col : DrizzleColumnSymbols(table, col, d) \subseteq ImportVocabulary(d)
  BY <1>1, CtorsReserved DEF DrizzleColumnSymbols, UsesIf
<1> QED  BY <1>1, <1>2 DEF DrizzleTableSymbols, InColumns, UsesIf

LEMMA DrizzleResolves ==
    ASSUME NEW tables, NEW C, ColsOf(tables) \in Seq(Seq(C)),
           ~MixedEnumGap(tables), NEW d \in DOMAIN TableFn
    PROVE  /\ DrizzleFile(tables, d).uses \subseteq DrizzleFile(tables, d).imports
           /\ DrizzleFile(tables, d).imports \subseteq ImportVocabulary(d)
<1> DEFINE cols == UNION {ToSet(tables[i].cols) : i \in DOMAIN tables}
           body == UNION {DrizzleTableSymbols(tables[i], d) : i \in DOMAIN tables}
           related == UsesIf(\E i \in DOMAIN tables :
                                 Fks(tables[i]) # <<>>
                                     \/ CollectBackRelations(tables[i].name, tables) # <<>>,
                             "relations")
           custom == UsesIf(CustomTypes(tables, d) # <<>>, "customType")
           pgEnum == UsesIf(DeclaresPgEnum(tables, d), "pgEnum")
           consts == UNION {LocalCtor(c.type, d) : c \in cols}
<1>1. /\ DrizzleFile(tables, d).imports = body \cup related \cup custom \cup pgEnum
      /\ DrizzleFile(tables, d).uses = body \cup related \cup consts
  BY DEF DrizzleFile, File
<1>2. ASSUME NEW i \in DOMAIN tables, NEW c \in ToSet(tables[i].cols)
      PROVE  LocalCtor(c.type, d) \subseteq custom \cup pgEnum
  <2>1. CustomLabel(c.type, d) # Absent => "customType" \in custom
    BY CustomTypesFound DEF UsesIf
  <2>2. d = "pg" /\ c.type.kind = "senum" => "pgEnum" \in pgEnum
    <3> SUFFICES ASSUME d = "pg", c.type.kind = "senum" PROVE DeclaresPgEnum(tables, d)
      BY DEF UsesIf
    <3>1. tables[i] \in ToSet(tables)  BY DEF ToSet
    <3>2. \A e \in ToSet(tables[i].cols) :
              ~(e.type.kind = "ienum" /\ e.type.label = c.type.label)
      BY <3>1 DEF MixedEnumGap
    <3> QED  BY <3>2, PgEnumDeclared
  <2> HIDE DEF custom, pgEnum
  <2> QED  BY <2>1, <2>2 DEF LocalCtor, UsesIf
<1>3. consts \subseteq custom \cup pgEnum
  <2> HIDE DEF custom, pgEnum
  <2> QED  BY <1>2
<1>4. body \subseteq ImportVocabulary(d)  BY DrizzleTableReserved
<1>5. related \cup custom \subseteq ImportVocabulary(d)
  <2>1. {"relations", "customType"} \subseteq ImportVocabulary(d)  BY DEF ImportVocabulary
  <2>2. related \subseteq {"relations"} /\ custom \subseteq {"customType"}  BY DEF UsesIf
  <2> QED  BY <2>1, <2>2
<1>6. pgEnum \subseteq ImportVocabulary(d)
  <2>1. DeclaresPgEnum(tables, d) => d = "pg"  BY DEF DeclaresPgEnum
  <2>2. "pgEnum" \in ImportVocabulary("pg")  BY DEF ImportVocabulary
  <2> QED  BY <2>1, <2>2 DEF UsesIf
<1> HIDE DEF body, related, custom, pgEnum, consts
<1> QED  BY <1>1, <1>3, <1>4, <1>5, <1>6

LEMMA SchemaResolves ==
    ASSUME NEW tables, NEW C, ColsOf(tables) \in Seq(Seq(C)), NEW orm \in Orms,
           ~SymbolsGap(orm, tables)
    PROVE  FilesResolve(orm, tables)
<1>1. \A i \in DOMAIN tables : tables[i].cols \in Seq(C)  BY DEF ColsOf
<1>2. \A t \in ToSet(tables) : t.cols \in Seq(C)  BY <1>1 DEF ToSet
<1>3. CASE orm = "sqlalchemy"
  BY <1>3, SqlAlchemyResolves DEF FilesResolve, SymbolFiles
<1>4. CASE orm = "sqlmodel"
  <2>1. \A t \in ToSet(tables) : SqlModelFile(t).uses \subseteq SqlModelFile(t).imports
    BY <1>4, SqlModelResolves DEF SymbolsGap, TextGap
  <2> QED  BY <1>4, <2>1 DEF FilesResolve, SymbolFiles
<1>5. CASE orm = "jpa"
  BY <1>5, JpaResolves DEF FilesResolve, SymbolFiles
<1>6. CASE orm = "seaorm"
  <2>1. \A t \in ToSet(tables) : SeaOrmFile(t).uses \subseteq SeaOrmFile(t).imports
    BY <1>2, SeaOrmResolves
  <2> QED  BY <1>6, <2>1 DEF FilesResolve, SymbolFiles
<1>7. CASE orm = "gorm"
  BY <1>7, GormResolves DEF FilesResolve, SymbolFiles
<1>8. CASE orm = "django"
  BY <1>8, DjangoResolves DEF FilesResolve, SymbolFiles
<1>9. CASE orm = "drizzle"
  <2>1. ~MixedEnumGap(tables)  BY <1>9 DEF SymbolsGap
  <2>2. \A d \in DOMAIN TableFn :
           /\ DrizzleFile(tables, d).uses \subseteq DrizzleFile(tables, d).imports
           /\ DrizzleFile(tables, d).imports \subseteq ImportVocabulary(d)
    BY <2>1, DrizzleResolves
  <2> QED  BY <1>9, <2>2 DEF FilesResolve, SymbolFiles
<1>10. CASE orm = "prisma"
  BY <1>10 DEF FilesResolve, SymbolFiles
<1> QED  BY <1>3, <1>4, <1>5, <1>6, <1>7, <1>8, <1>9, <1>10 DEF Orms

\* Normalising a model leaves its columns alone, a sequence.
LEMMA LoadedColumns ==
    ASSUME JobInv, Active
    PROVE  ColsOf(LoadedTables)
               \in Seq(Seq(UNION {ToSet(job.loaded[i].table.cols) : i \in DOMAIN job.loaded}))
<1> DEFINE cols(i) == job.loaded[i].table.cols
           C == UNION {ToSet(cols(i)) : i \in DOMAIN job.loaded}
<1>1. PICK order \in SetToSeqs(models) :
         /\ job.loaded = LoadedIn(order)
         /\ Len(job.loaded) \in Nat /\ DOMAIN job.loaded = 1 .. Len(job.loaded)
         /\ DOMAIN order = DOMAIN job.loaded
         /\ \A i \in DOMAIN job.loaded : order[i] \in models
  BY LoadedOnce
<1>2. project \in Projects /\ models \in project.versions  BY DEF JobInv
<1>3. ASSUME NEW i \in DOMAIN job.loaded PROVE cols(i) \in Seq(C)
  <2>1. order[i] \in models  BY <1>1
  <2>2. /\ DOMAIN order[i] = {"dirs", "stem", "table"}
        /\ {"name", "cols", "cons"} \subseteq DOMAIN order[i].table
        /\ order[i].table.cols \in Seq(ToSet(order[i].table.cols))
    BY <1>2, <2>1, ProjectsAssumption
  <2>3. job.loaded[i] = [order[i] EXCEPT !.table = Normalize(@)]
    BY <1>1 DEF LoadedIn
  <2>4. job.loaded[i].table = Normalize(order[i].table)  BY <2>2, <2>3
  <2>5. cols(i) = order[i].table.cols
    <3>1. Normalize(order[i].table).cols = order[i].table.cols
      BY <2>2 DEF Normalize
    <3> QED  BY <2>4, <3>1
  <2>6. ToSet(cols(i)) \subseteq C  OBVIOUS
  <2>7. cols(i) \in Seq(ToSet(cols(i)))  BY <2>2, <2>5
  <2> HIDE DEF cols, C
  <2> QED  BY <2>6, <2>7
<1>4. ColsOf(LoadedTables) = [i \in 1 .. Len(job.loaded) |-> cols(i)]
  BY <1>1 DEF ColsOf, LoadedTables
<1> HIDE DEF cols
<1>5. ColsOf(LoadedTables) \in Seq(Seq(C))
  <2> HIDE DEF C
  <2> QED  BY <1>1, <1>3, <1>4
<1> QED  BY <1>5 DEF cols

\* Whatever the models are, a rendered file imports every symbol that it
\* mentions, a Go file no other, and a Drizzle file none that its bindings may
\* be called: the passes over the columns of the eight backends, written one
\* by one, agree with what render_column and its like write.
THEOREM SymbolsAlwaysResolve == Spec => []SymbolsResolve
<1>1. JobInv => SymbolsResolve
  <2> SUFFICES ASSUME JobInv, job.pc = "loaded", ~SymbolsGap(job.orm, LoadedTables)
               PROVE  FilesResolve(job.orm, LoadedTables)
    BY DEF SymbolsResolve
  <2>1. Active /\ job.orm \in Orms  BY DEF Active, JobInv
  <2> QED  BY <2>1, LoadedColumns, SchemaResolves
<1> QED  BY <1>1, InitJob, NextJob, PTL DEF Spec
=============================================================================
