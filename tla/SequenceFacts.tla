--------------------------- MODULE SequenceFacts ---------------------------
(***************************************************************************)
(* Facts about sequences that the proofs about data share: induction on    *)
(* the length of a prefix, the steps of a left fold, and what FlattenSeq   *)
(* puts together.  The library defines folds by a function on the subsets  *)
(* of the indices that takes the largest index first; FoldIter says that   *)
(* this function exists, for a step that is given as a function.           *)
(***************************************************************************)
EXTENDS SequencesExt, WellFoundedInduction, FiniteSetTheorems, SequenceTheorems, TLAPS

\* What holds of 0, and of each number up to n that follows one it holds of.
LEMMA UpTo ==
    ASSUME NEW n \in Nat, NEW G, 0 \in G,
           \A k \in 1 .. n : k - 1 \in G => k \in G
    PROVE  \A k \in 0 .. n : k \in G
<1> DEFINE B == {k \in 0 .. n : k \notin G}
<1>1. ASSUME B # {} PROVE FALSE
  <2>1. B \subseteq Nat  OBVIOUS
  <2>2. \E k \in B : \A m \in B : ~(<<m, k>> \in OpToRel(<, Nat))
    <3> HIDE DEF B
    <3> QED  BY <1>1, <2>1, NatLessThanWellFounded, WFMin, Zenon
  <2>3. PICK k \in B : \A m \in B : ~(m < k)
    <3>1. \A m, k \in B : <<m, k>> \in OpToRel(<, Nat) <=> m < k
      <4>1. \A m, k \in Nat : <<m, k>> \in OpToRel(<, Nat) <=> m < k
        BY Zenon DEF OpToRel
      <4> QED  BY <2>1, <4>1, Zenon
    <3> HIDE DEF B
    <3> QED  BY <2>2, <3>1, Zenon
  <2>4. k \in 1 .. n  OBVIOUS
  <2>5. k - 1 \in G
    <3>1. k - 1 \in 0 .. n /\ k - 1 < k  BY <2>4
    <3> QED  BY <2>3, <3>1
  <2> QED  BY <2>4, <2>5
<1> QED  BY <1>1

LEMMA MaxUpTo ==
    ASSUME NEW k \in Nat, NEW s \in SUBSET (1 .. k), k \in s
    PROVE  Max(s) = k
<1>1. \A x \in s : x <= k  OBVIOUS
<1>2. k \in Nat /\ \A x \in s : x \in Nat  OBVIOUS
<1>3. \A x \in s : (\A y \in s : x >= y) => x = k  BY <1>1, <1>2
<1>4. \A y \in s : k >= y  BY <1>1, <1>2
<1> QED  BY <1>3, <1>4 DEF Max

LEMMA MaxIsMember ==
    ASSUME NEW k \in Nat, NEW s \in SUBSET (1 .. k), s # {}
    PROVE  Max(s) \in s
<1> DEFINE G == {j \in Nat : \A t \in SUBSET (1 .. j) : t # {} => Max(t) \in t}
<1>1. 0 \in G
  <2>1. \A t \in SUBSET (1 .. 0) : t = {}  OBVIOUS
  <2> QED  BY <2>1
<1>2. ASSUME NEW j \in 1 .. k, j - 1 \in G PROVE j \in G
  <2>1. ASSUME NEW t \in SUBSET (1 .. j), t # {} PROVE Max(t) \in t
    <3>1. CASE j \in t  BY <3>1, MaxUpTo
    <3>2. CASE j \notin t
      <4>1. t \in SUBSET (1 .. (j - 1))  BY <3>2
      <4> QED  BY <1>2, <2>1, <4>1
    <3> QED  BY <3>1, <3>2
  <2> QED  BY <2>1
<1>3. \A j \in 0 .. k : j \in G
  <2> HIDE DEF G
  <2> QED  BY <1>1, <1>2, UpTo
<1>4. k \in G  BY <1>3
<1> QED  BY <1>4

\* The function that a left fold over n elements is defined by: h takes what
\* has been folded and the index of the next element.
FoldsBy(it, A, n, base, h) ==
    /\ it \in [SUBSET (1 .. n) -> A]
    /\ it = [s \in SUBSET (1 .. n) |->
                IF s = {} THEN base ELSE h[<<it[s \ {Max(s)}], Max(s)>>]]

LEMMA FoldIter ==
    ASSUME NEW A, NEW n \in Nat, NEW base \in A, NEW h \in [A \X (1 .. n) -> A]
    PROVE  \E it : FoldsBy(it, A, n, base, h)
<1> DEFINE Works(k, it) ==
             /\ it \in [SUBSET (1 .. k) -> A]
             /\ \A s \in SUBSET (1 .. k) :
                    it[s] = IF s = {} THEN base ELSE h[<<it[s \ {Max(s)}], Max(s)>>]
           G == {k \in Nat : \E it : Works(k, it)}
<1>1. 0 \in G
  <2> DEFINE it == [s \in SUBSET (1 .. 0) |-> base]
  <2>1. Works(0, it)
    <3>1. SUBSET (1 .. 0) = {{}}  OBVIOUS
    <3> QED  BY <3>1
  <2> QED  BY <2>1
<1>2. ASSUME NEW k \in 1 .. n, k - 1 \in G PROVE k \in G
  <2>1. PICK g : Works(k - 1, g)  BY <1>2
  <2> DEFINE it == [s \in SUBSET (1 .. k) |->
                       IF k \in s THEN h[<<g[s \ {k}], k>>] ELSE g[s]]
  <2>2. \A s \in SUBSET (1 .. k) : s \ {k} \in SUBSET (1 .. (k - 1))  OBVIOUS
  <2>3. \A s \in SUBSET (1 .. k) : k \notin s => s \in SUBSET (1 .. (k - 1))  OBVIOUS
  <2>4. \A s \in SUBSET (1 .. (k - 1)) : g[s] \in A  BY <2>1
  <2>5. it \in [SUBSET (1 .. k) -> A]
    <3>1. ASSUME NEW s \in SUBSET (1 .. k) PROVE it[s] \in A
      <4>1. CASE k \in s
        <5>1. <<g[s \ {k}], k>> \in A \X (1 .. n)  BY <2>2, <2>4
        <5> QED  BY <4>1, <5>1
      <4>2. CASE k \notin s  BY <2>3, <2>4, <4>2
      <4> QED  BY <4>1, <4>2
    <3> QED  BY <3>1
  <2>6. ASSUME NEW s \in SUBSET (1 .. k)
        PROVE  it[s] = IF s = {} THEN base ELSE h[<<it[s \ {Max(s)}], Max(s)>>]
    <3>1. CASE k \in s
      <4>1. Max(s) = k /\ s # {}  BY <3>1, MaxUpTo
      <4>2. k \notin s \ {k} /\ s \ {k} \in SUBSET (1 .. k)  OBVIOUS
      <4>3. it[s \ {k}] = g[s \ {k}]  BY <4>2
      <4> QED  BY <3>1, <4>1, <4>3
    <3>2. CASE k \notin s
      <4>1. s \in SUBSET (1 .. (k - 1))  BY <2>3, <3>2
      <4>2. it[s] = g[s]  BY <3>2
      <4>3. CASE s = {}  BY <2>1, <4>1, <4>2, <4>3
      <4>4. CASE s # {}
        <5>1. k \notin s \ {Max(s)} /\ s \ {Max(s)} \in SUBSET (1 .. k)  BY <3>2
        <5>2. it[s \ {Max(s)}] = g[s \ {Max(s)}]  BY <5>1
        <5> QED  BY <2>1, <4>1, <4>2, <4>4, <5>2
      <4> QED  BY <4>3, <4>4
    <3> QED  BY <3>1, <3>2
  <2>7. Works(k, it)  BY <2>5, <2>6
  <2>8. k \in Nat  OBVIOUS
  <2> HIDE DEF Works, it
  <2> QED  BY <2>7, <2>8
<1>3. \A k \in 0 .. n : k \in G
  <2> HIDE DEF G
  <2> QED  BY <1>1, <1>2, UpTo
<1>4. PICK it : Works(n, it)
  <2>1. n \in G
    <3> HIDE DEF G
    <3> QED  BY <1>3
  <2> HIDE DEF Works
  <2> QED  BY <2>1
<1>5. it = [s \in SUBSET (1 .. n) |->
               IF s = {} THEN base ELSE h[<<it[s \ {Max(s)}], Max(s)>>]]
  BY <1>4
<1> QED  BY <1>4, <1>5 DEF FoldsBy

LEMMA ConcatRange ==
    ASSUME NEW S, NEW s \in Seq(S), NEW t \in Seq(S)
    PROVE  s \o t \in Seq(S) /\ ToSet(s \o t) = ToSet(s) \cup ToSet(t)
<1> DEFINE u == s \o t
<1>1. /\ u \in Seq(S) /\ Len(u) = Len(s) + Len(t)
      /\ \A k \in 1 .. Len(s) : u[k] = s[k]
      /\ \A k \in 1 .. Len(t) : u[Len(s) + k] = t[k]
  OBVIOUS
<1>2. /\ DOMAIN u = 1 .. Len(u) /\ DOMAIN s = 1 .. Len(s) /\ DOMAIN t = 1 .. Len(t)
      /\ Len(s) \in Nat /\ Len(t) \in Nat
  BY <1>1
<1> HIDE DEF u
<1>3. ASSUME NEW k \in DOMAIN u PROVE u[k] \in ToSet(s) \cup ToSet(t)
  <2>1. CASE k \in 1 .. Len(s)  BY <1>1, <1>2, <2>1 DEF ToSet
  <2>2. CASE k \notin 1 .. Len(s)
    <3>1. k - Len(s) \in 1 .. Len(t) /\ k = Len(s) + (k - Len(s))
      BY <1>1, <1>2, <2>2
    <3>2. u[k] = t[k - Len(s)]  BY <1>1, <3>1
    <3> QED  BY <1>2, <3>1, <3>2 DEF ToSet
  <2> QED  BY <2>1, <2>2
<1>4. \A k \in DOMAIN s : s[k] \in ToSet(u)
  <2>1. \A k \in DOMAIN s : k \in DOMAIN u /\ u[k] = s[k]  BY <1>1, <1>2
  <2> QED  BY <2>1 DEF ToSet
<1>5. \A k \in DOMAIN t : t[k] \in ToSet(u)
  <2>1. \A k \in DOMAIN t : Len(s) + k \in DOMAIN u /\ u[Len(s) + k] = t[k]
    BY <1>1, <1>2
  <2> QED  BY <2>1 DEF ToSet
<1>6. ToSet(u) \subseteq ToSet(s) \cup ToSet(t)  BY <1>3 DEF ToSet
<1>7. ToSet(s) \cup ToSet(t) \subseteq ToSet(u)  BY <1>4, <1>5 DEF ToSet
<1> QED  BY <1>1, <1>6, <1>7 DEF u

\* A flattened sequence holds what its parts hold.
LEMMA FlattenRange ==
    ASSUME NEW S, NEW seqs \in Seq(Seq(S))
    PROVE  /\ FlattenSeq(seqs) \in Seq(S)
           /\ ToSet(FlattenSeq(seqs)) = UNION {ToSet(seqs[i]) : i \in DOMAIN seqs}
<1> DEFINE n == Len(seqs)
           Body(f, k) == [i \in 1 .. k |-> IF i = 1 THEN seqs[i] ELSE f[i - 1] \o seqs[i]]
           G == {k \in Nat : \E f \in [1 .. k -> Seq(S)] : f = Body(f, k)}
<1>1. n \in Nat /\ DOMAIN seqs = 1 .. n /\ \A i \in 1 .. n : seqs[i] \in Seq(S)
  OBVIOUS
<1>2. CASE n = 0
  <2>1. seqs = <<>> /\ FlattenSeq(seqs) = seqs  BY <1>2 DEF FlattenSeq
  <2>2. FlattenSeq(seqs) \in Seq(S) /\ ToSet(FlattenSeq(seqs)) = {}
    <3>1. DOMAIN <<>> = {}  OBVIOUS
    <3>2. <<>> \in Seq(S)  OBVIOUS
    <3>3. ToSet(<<>>) = {}  BY <3>1 DEF ToSet
    <3> QED  BY <2>1, <3>2, <3>3, Zenon
  <2>3. DOMAIN seqs = {}  BY <2>1
  <2> QED  BY <2>2, <2>3
<1>3. CASE n # 0
  <2>1. 0 \in G
    <3>1. <<>> \in [1 .. 0 -> Seq(S)] /\ <<>> = Body(<<>>, 0)  OBVIOUS
    <3> HIDE DEF Body
    <3> QED  BY <3>1
  <2>2. ASSUME NEW k \in 1 .. n, k - 1 \in G PROVE k \in G
    <3>1. PICK g \in [1 .. (k - 1) -> Seq(S)] : g = Body(g, k - 1)  BY <2>2
    <3>2. seqs[k] \in Seq(S)  BY <1>1
    <3> DEFINE last == IF k = 1 THEN seqs[k] ELSE g[k - 1] \o seqs[k]
               f == [i \in 1 .. k |-> IF i = k THEN last ELSE g[i]]
    <3>3. last \in Seq(S)
      <4>1. CASE k = 1  BY <3>2, <4>1
      <4>2. CASE k # 1
        <5>1. g[k - 1] \in Seq(S)  BY <4>2
        <5> QED  BY <3>2, <4>2, <5>1, ConcatRange
      <4> QED  BY <4>1, <4>2
    <3>4. f \in [1 .. k -> Seq(S)]
      <4> HIDE DEF last
      <4> QED  BY <3>3
    <3>5. ASSUME NEW i \in 1 .. k
          PROVE  f[i] = IF i = 1 THEN seqs[i] ELSE f[i - 1] \o seqs[i]
      <4>1. CASE i = k
        <5>1. k # 1 => f[k - 1] = g[k - 1]  OBVIOUS
        <5> QED  BY <4>1, <5>1
      <4>2. CASE i # k
        <5>1. i \in 1 .. (k - 1)  BY <4>2
        <5>2. f[i] = g[i] /\ (i # 1 => f[i - 1] = g[i - 1])  BY <4>2, <5>1
        <5>3. g[i] = IF i = 1 THEN seqs[i] ELSE g[i - 1] \o seqs[i]
          BY <3>1, <5>1
        <5> QED  BY <5>2, <5>3
      <4> QED  BY <4>1, <4>2
    <3>6. f = Body(f, k)
      <4> HIDE DEF last
      <4> QED  BY <3>5
    <3>7. k \in Nat  OBVIOUS
    <3> HIDE DEF f, Body
    <3> QED  BY <3>4, <3>6, <3>7
  <2>3. \A k \in 0 .. n : k \in G
    <3> HIDE DEF G, n
    <3> QED  BY <1>1, <2>1, <2>2, UpTo
  <2>4. \E f : f = Body(f, n)
    <3> HIDE DEF Body, n
    <3> QED  BY <1>1, <2>3
  <2> DEFINE flat == CHOOSE f : f = Body(f, n)
  <2>5. flat = Body(flat, n)
    <3> HIDE DEF Body, n
    <3> QED  BY <2>4
  <2>6. FlattenSeq(seqs) = flat[n]  BY <1>3 DEF FlattenSeq
  <2> HIDE DEF flat
  <2> DEFINE Parts(k) == UNION {ToSet(seqs[i]) : i \in 1 .. k}
             H == {k \in Nat : k >= 1 => flat[k] \in Seq(S) /\ ToSet(flat[k]) = Parts(k)}
  <2>7. 0 \in H  OBVIOUS
  <2>8. ASSUME NEW k \in 1 .. n, k - 1 \in H PROVE k \in H
    <3>1. flat[k] = IF k = 1 THEN seqs[k] ELSE flat[k - 1] \o seqs[k]  BY <2>5
    <3>2. seqs[k] \in Seq(S)  BY <1>1
    <3>3. CASE k = 1
      <4>1. Parts(1) = ToSet(seqs[1])
        <5>1. 1 .. 1 = {1}  OBVIOUS
        <5> QED  BY <5>1
      <4> QED  BY <3>1, <3>2, <3>3, <4>1
    <3>4. CASE k # 1
      <4>1. k - 1 >= 1 /\ k - 1 \in Nat  BY <3>4
      <4>2. flat[k - 1] \in Seq(S) /\ ToSet(flat[k - 1]) = Parts(k - 1)
        BY <2>8, <4>1
      <4>3. flat[k] = flat[k - 1] \o seqs[k]  BY <3>1, <3>4
      <4>4. flat[k] \in Seq(S) /\ ToSet(flat[k]) = Parts(k - 1) \cup ToSet(seqs[k])
        BY <3>2, <4>2, <4>3, ConcatRange
      <4>5. Parts(k) = Parts(k - 1) \cup ToSet(seqs[k])
        <5>1. 1 .. k = 1 .. (k - 1) \cup {k}  BY <4>1
        <5> QED  BY <5>1
      <4>6. k \in Nat  OBVIOUS
      <4> HIDE DEF Parts
      <4> QED  BY <4>4, <4>5, <4>6
    <3> QED  BY <3>3, <3>4
  <2>9. \A k \in 0 .. n : k \in H
    <3> HIDE DEF H, n
    <3> QED  BY <1>1, <2>7, <2>8, UpTo
  <2>10. n \in H /\ n >= 1
    <3> HIDE DEF H
    <3> QED  BY <1>1, <1>3, <2>9
  <2> QED  BY <1>1, <2>6, <2>10
<1> QED  BY <1>2, <1>3
=============================================================================
