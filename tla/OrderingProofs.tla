--------------------------- MODULE OrderingProofs ---------------------------
(***************************************************************************)
(* For every finite set of tables and every graph of references between    *)
(* them, kahn_ready_order places a name after its dependencies, and leaves *)
(* out names only on account of a cycle; sort_delete_tables puts every     *)
(* DeleteTable action where the stable sort wants it, and a table after    *)
(* every table that references it.                                         *)
(***************************************************************************)
EXTENDS SortDeletes, SequenceFacts, Integers

----------------------------------------------------------------------------
(* Sequences and what they hold.                                           *)

\* What a sequence holds after order.push(name).
LEMMA RangeAppend ==
    ASSUME NEW S, NEW s \in Seq(S), NEW x \in S
    PROVE  RangeOf(Append(s, x)) = RangeOf(s) \cup {x}
BY DEF RangeOf

\* What the queue holds after newly ready names are pushed at its back.
LEMMA RangeConcat ==
    ASSUME NEW S, NEW s \in Seq(S), NEW t \in Seq(S)
    PROVE  RangeOf(s \o t) = RangeOf(s) \cup RangeOf(t)
<1> DEFINE st == s \o t
<1>1. /\ st \in Seq(S)
      /\ Len(st) = Len(s) + Len(t)
      /\ \A i \in 1..Len(st) :
            st[i] = IF i <= Len(s) THEN s[i] ELSE t[i - Len(s)]
  OBVIOUS
<1>2. ASSUME NEW x \in RangeOf(st) PROVE x \in RangeOf(s) \cup RangeOf(t)
  BY <1>1 DEF RangeOf
<1>3. ASSUME NEW x \in RangeOf(s) PROVE x \in RangeOf(st)
  BY <1>1 DEF RangeOf
<1>4. ASSUME NEW x \in RangeOf(t) PROVE x \in RangeOf(st)
  <2>1. PICK i \in 1..Len(t) : x = t[i]
    BY DEF RangeOf
  <2>2. i + Len(s) \in 1..Len(st) /\ st[i + Len(s)] = x
    BY <1>1, <2>1
  <2> QED BY <2>2 DEF RangeOf
<1> QED BY <1>2, <1>3, <1>4

\* What the queue holds after pop_front.
LEMMA RangeHeadTail ==
    ASSUME NEW S, NEW s \in Seq(S), s # <<>>
    PROVE  /\ Head(s) \in S
           /\ Tail(s) \in Seq(S)
           /\ RangeOf(s) = {Head(s)} \cup RangeOf(Tail(s))
<1>1. /\ Len(s) \in Nat \ {0}
      /\ Tail(s) \in Seq(S)
      /\ Len(Tail(s)) = Len(s) - 1
      /\ Head(s) = s[1]
      /\ \A i \in 1..Len(Tail(s)) : Tail(s)[i] = s[i + 1]
  OBVIOUS
<1>2. ASSUME NEW x \in RangeOf(s) PROVE x \in {Head(s)} \cup RangeOf(Tail(s))
  <2>1. PICK i \in 1..Len(s) : x = s[i]
    BY DEF RangeOf
  <2>2. CASE i = 1
    BY <1>1, <2>1, <2>2
  <2>3. CASE i # 1
    <3>1. i - 1 \in 1..Len(Tail(s)) /\ Tail(s)[i - 1] = x
      BY <1>1, <2>1, <2>3
    <3> QED BY <3>1 DEF RangeOf
  <2> QED BY <2>2, <2>3
<1>3. Head(s) \in RangeOf(s)
  BY <1>1 DEF RangeOf
<1>4. ASSUME NEW x \in RangeOf(Tail(s)) PROVE x \in RangeOf(s)
  <2>1. PICK i \in 1..Len(Tail(s)) : x = Tail(s)[i]
    BY DEF RangeOf
  <2>2. i + 1 \in 1..Len(s) /\ s[i + 1] = x
    BY <1>1, <2>1
  <2> QED BY <2>2 DEF RangeOf
<1>5. Head(s) \in S
  BY <1>1
<1> QED BY <1>1, <1>2, <1>3, <1>4, <1>5

\* A name that is popped is not in the queue any more.
LEMMA InjectiveTail ==
    ASSUME NEW S, NEW s \in Seq(S), s # <<>>, NoRepeats(s)
    PROVE  NoRepeats(Tail(s)) /\ Head(s) \notin RangeOf(Tail(s))
<1>1. /\ Len(s) \in Nat \ {0}
      /\ Len(Tail(s)) = Len(s) - 1
      /\ Head(s) = s[1]
      /\ \A i \in 1..Len(Tail(s)) : Tail(s)[i] = s[i + 1]
  OBVIOUS
<1>2. NoRepeats(Tail(s))
  <2>1. ASSUME NEW i \in 1..Len(Tail(s)), NEW j \in 1..Len(Tail(s)),
               Tail(s)[i] = Tail(s)[j]
        PROVE  i = j
    <3>1. i + 1 \in 1..Len(s) /\ j + 1 \in 1..Len(s) /\ s[i + 1] = s[j + 1]
      BY <1>1, <2>1
    <3>2. i + 1 = j + 1
      BY <3>1 DEF NoRepeats
    <3> QED BY <3>2
  <2> QED BY <2>1 DEF NoRepeats
<1>3. ASSUME Head(s) \in RangeOf(Tail(s)) PROVE FALSE
  <2>1. PICK i \in 1..Len(Tail(s)) : Head(s) = Tail(s)[i]
    BY <1>3 DEF RangeOf
  <2>2. 1 \in 1..Len(s) /\ i + 1 \in 1..Len(s) /\ s[i + 1] = s[1]
    BY <1>1, <2>1
  <2>3. i + 1 = 1
    BY <2>2 DEF NoRepeats
  <2> QED BY <2>3
<1> QED BY <1>2, <1>3

\* Placing a name that is not placed yet places none twice.
LEMMA InjectiveAppend ==
    ASSUME NEW S, NEW s \in Seq(S), NEW x \in S, NoRepeats(s),
           x \notin RangeOf(s)
    PROVE  NoRepeats(Append(s, x))
BY DEF NoRepeats, RangeOf

\* Queueing names that are not queued yet queues none twice.
LEMMA InjectiveConcat ==
    ASSUME NEW S, NEW s \in Seq(S), NEW t \in Seq(S),
           NoRepeats(s), NoRepeats(t), RangeOf(s) \cap RangeOf(t) = {}
    PROVE  NoRepeats(s \o t)
<1> DEFINE st == s \o t
<1>1. /\ Len(st) = Len(s) + Len(t)
      /\ \A i \in 1..Len(st) :
            st[i] = IF i <= Len(s) THEN s[i] ELSE t[i - Len(s)]
  OBVIOUS
<1>2. ASSUME NEW i \in 1..Len(st), NEW j \in 1..Len(st), st[i] = st[j]
      PROVE  i = j
  <2>1. CASE i <= Len(s) /\ j <= Len(s)
    BY <1>1, <1>2, <2>1 DEF NoRepeats
  <2>2. CASE i <= Len(s) /\ ~(j <= Len(s))
    <3>1. s[i] = t[j - Len(s)] /\ j - Len(s) \in 1..Len(t) /\ i \in 1..Len(s)
      BY <1>1, <1>2, <2>2
    <3> QED BY <3>1 DEF RangeOf
  <2>3. CASE ~(i <= Len(s)) /\ j <= Len(s)
    <3>1. s[j] = t[i - Len(s)] /\ i - Len(s) \in 1..Len(t) /\ j \in 1..Len(s)
      BY <1>1, <1>2, <2>3
    <3> QED BY <3>1 DEF RangeOf
  <2>4. CASE ~(i <= Len(s)) /\ ~(j <= Len(s))
    <3>1. /\ i - Len(s) \in 1..Len(t)
          /\ j - Len(s) \in 1..Len(t)
          /\ t[i - Len(s)] = t[j - Len(s)]
      BY <1>1, <1>2, <2>4
    <3>2. i - Len(s) = j - Len(s)
      BY <3>1 DEF NoRepeats
    <3> QED BY <3>2
  <2> QED BY <2>1, <2>2, <2>3, <2>4
<1> QED BY <1>2 DEF NoRepeats

----------------------------------------------------------------------------
(* The loop.                                                               *)

\* Dependencies are finite sets, and a count of 0 means that none is open.
LEMMA OpenFinite ==
    ASSUME deps \in Graphs, NEW n \in Name
    PROVE  /\ deps[n] \subseteq Name
           /\ IsFiniteSet(Open(n))
           /\ Cardinality(Open(n)) \in Nat
           /\ Cardinality(Open(n)) = 0 <=> Open(n) = {}
<1>1. deps[n] \subseteq Name
  BY DEF Graphs
<1>2. IsFiniteSet(Open(n))
  BY <1>1, NameAssumption, FS_Subset DEF Open
<1> QED BY <1>1, <1>2, FS_CardinalityType, FS_EmptySet

\* The state before the first pop_front satisfies the invariant.
LEMMA KahnInitInv == KahnInit => KahnInv
<1> SUFFICES ASSUME KahnInit PROVE KahnInv
  OBVIOUS
<1> USE DEF KahnInit
<1>1. RangeOf(order) = {} /\ NoRepeats(order) /\ order \in Seq(Name)
  BY DEF RangeOf, NoRepeats
<1>2. \A n \in Name : Open(n) = deps[n]
  BY <1>1 DEF Open
<1>3. \A n \in Name : degree[n] \in Nat
  BY <1>2, OpenFinite
<1> DEFINE ready == {n \in Name : degree[n] = 0}
<1>4. /\ queue \in Seq(Name)
      /\ RangeOf(queue) = ready
      /\ NoRepeats(queue)
  <2> queue = KeyOrder[ready] /\ ready \in SUBSET Name
    OBVIOUS
  <2> QED BY KeyOrderAssumption
<1>5. KahnType
  BY <1>1, <1>3, <1>4 DEF KahnType
<1>6. DegreesCount
  BY <1>2 DEF DegreesCount
<1>7. ReadyOnce
  BY <1>1, <1>4 DEF ReadyOnce
<1>8. DependenciesFirst
  BY <1>1 DEF DependenciesFirst
<1> QED BY <1>5, <1>6, <1>7, <1>8 DEF KahnInv

\* One turn of the loop keeps it.
LEMMA PopKeepsInv == KahnInv /\ Pop => KahnInv'
<1> SUFFICES ASSUME KahnInv, Pop PROVE KahnInv'
  OBVIOUS
<1> USE DEF KahnInv
<1> DEFINE name == Head(queue)
           new == KeyOrder[Ready(name)]
<1>1. /\ name \in Name
      /\ Tail(queue) \in Seq(Name)
      /\ RangeOf(queue) = {name} \cup RangeOf(Tail(queue))
  BY RangeHeadTail DEF Pop, KahnType
<1>2. NoRepeats(Tail(queue)) /\ name \notin RangeOf(Tail(queue))
  BY InjectiveTail DEF Pop, KahnType, ReadyOnce
<1>3. name \notin RangeOf(order) /\ degree[name] = 0
  BY <1>1 DEF ReadyOnce
<1>4. /\ new \in Seq(Name)
      /\ RangeOf(new) = Ready(name)
      /\ NoRepeats(new)
  <2> Ready(name) \in SUBSET Name
    BY DEF Ready
  <2> QED BY KeyOrderAssumption
<1>5. /\ order' = Append(order, name)
      /\ queue' = Tail(queue) \o new
      /\ degree' = Decremented(name)
      /\ deps' = deps
  BY DEF Pop
<1>6. order' \in Seq(Name) /\ RangeOf(order') = RangeOf(order) \cup {name}
  BY <1>1, <1>5, RangeAppend DEF KahnType
<1>7. /\ queue' \in Seq(Name)
      /\ RangeOf(queue') = RangeOf(Tail(queue)) \cup Ready(name)
  <2>1. Tail(queue) \o new \in Seq(Name)
    BY <1>1, <1>4
  <2>2. RangeOf(Tail(queue) \o new) = RangeOf(Tail(queue)) \cup RangeOf(new)
    <3>1. \A s, t \in Seq(Name) : RangeOf(s \o t) = RangeOf(s) \cup RangeOf(t)
      BY RangeConcat, Zenon
    <3> QED BY <1>1, <1>4, <3>1, Zenon
  <2> QED BY <1>4, <1>5, <2>1, <2>2, Zenon
<1>8. ASSUME NEW n \in Name
      PROVE  /\ degree'[n] \in Nat
             /\ degree'[n] = Cardinality(Open(n)')
             /\ degree'[n] = IF name \in deps[n] THEN degree[n] - 1
                             ELSE degree[n]
             /\ name \in deps[n] => degree[n] # 0
  <2>1. Open(n)' = Open(n) \ {name}
    BY <1>5, <1>6 DEF Open
  <2>2. degree'[n] = IF name \in deps[n] THEN degree[n] - 1 ELSE degree[n]
    BY <1>5 DEF Decremented
  <2>3. degree[n] = Cardinality(Open(n)) /\ degree[n] \in Nat
    BY DEF DegreesCount, KahnType
  <2>4. CASE name \in deps[n]
    <3>1. name \in Open(n)
      BY <1>3, <2>4 DEF Open
    <3>2. Cardinality(Open(n) \ {name}) = Cardinality(Open(n)) - 1
      BY <3>1, OpenFinite, FS_RemoveElement DEF KahnType
    <3>3. degree[n] # 0
      BY <3>1, <2>3, OpenFinite DEF KahnType
    <3> QED BY <2>1, <2>2, <2>3, <2>4, <3>2, <3>3
  <2>5. CASE name \notin deps[n]
    <3>1. Open(n) \ {name} = Open(n)
      BY <2>5 DEF Open
    <3> QED BY <2>1, <2>2, <2>3, <2>5, <3>1
  <2> QED BY <2>4, <2>5
<1>9. KahnType'
  <2>1. degree' \in [Name -> Nat]
    BY <1>5, <1>8 DEF Decremented
  <2> QED BY <2>1, <1>5, <1>6, <1>7 DEF KahnType
<1>10. DegreesCount'
  BY <1>8 DEF DegreesCount
<1>11. \A n \in Ready(name) : n \notin RangeOf(queue) \cup RangeOf(order)
  BY <1>8 DEF ReadyOnce, Ready
<1>12. ReadyOnce'
  <2>1. ASSUME NEW n \in Name
        PROVE  degree'[n] = 0 <=> n \in RangeOf(queue') \cup RangeOf(order')
    <3>1. RangeOf(queue') \cup RangeOf(order')
            = RangeOf(queue) \cup RangeOf(order) \cup Ready(name)
      BY <1>1, <1>6, <1>7
    <3>2. degree[n] = 0 <=> n \in RangeOf(queue) \cup RangeOf(order)
      BY DEF ReadyOnce
    <3>3. n \in Ready(name) <=> name \in deps[n] /\ degree'[n] = 0
      BY <1>5 DEF Ready
    <3> QED BY <1>8, <3>1, <3>2, <3>3
  <2>2. RangeOf(queue') \cap RangeOf(order') = {}
    <3>1. RangeOf(Tail(queue)) \cap (RangeOf(order) \cup {name}) = {}
      BY <1>1, <1>2 DEF ReadyOnce
    <3>2. Ready(name) \cap (RangeOf(order) \cup {name}) = {}
      BY <1>1, <1>11
    <3> QED BY <1>6, <1>7, <3>1, <3>2
  <2>3. NoRepeats(queue')
    <3>1. RangeOf(Tail(queue)) \cap RangeOf(new) = {}
      BY <1>1, <1>4, <1>11
    <3> QED BY <1>1, <1>2, <1>4, <1>5, <3>1, InjectiveConcat
  <2>4. NoRepeats(order')
    BY <1>1, <1>3, <1>5, InjectiveAppend DEF ReadyOnce, KahnType
  <2> QED BY <2>1, <2>2, <2>3, <2>4 DEF ReadyOnce
<1>13. DependenciesFirst'
  <2>1. deps[name] \subseteq RangeOf(order)
    <3>1. Open(name) = {}
      BY <1>1, <1>3, OpenFinite DEF DegreesCount, KahnType
    <3> QED BY <3>1 DEF Open
  <2>2. ASSUME NEW i \in 1..Len(order')
        PROVE  deps'[order'[i]] \subseteq {order'[j] : j \in 1..(i - 1)}
    <3>1. /\ Len(order) \in Nat
          /\ Len(order') = Len(order) + 1
          /\ order'[Len(order) + 1] = name
          /\ \A j \in 1..Len(order) : order'[j] = order[j]
      BY <1>1, <1>5 DEF KahnType
    <3>2. CASE i = Len(order) + 1
      BY <1>5, <2>1, <3>1, <3>2 DEF RangeOf
    <3>3. CASE i \in 1..Len(order)
      <4>1. deps[order[i]] \subseteq {order[j] : j \in 1..(i - 1)}
        BY <3>3 DEF DependenciesFirst
      <4>2. \A j \in 1..(i - 1) : order'[j] = order[j]
        BY <3>1, <3>3
      <4> QED BY <1>5, <3>1, <3>3, <4>1, <4>2
    <3> QED BY <3>1, <3>2, <3>3
  <2> QED BY <2>2 DEF DependenciesFirst
<1> QED BY <1>9, <1>10, <1>12, <1>13

\* The invariant speaks of Kahn's variables only.
LEMMA KahnStutter == KahnInv /\ UNCHANGED kahnVars => KahnInv'
BY DEF KahnInv, KahnType, DegreesCount, ReadyOnce, DependenciesFirst, Open,
       kahnVars, Graphs

\* A name that is never placed waits for another one that is not.
LEMMA InvPlacesAll == KahnInv => AllPlaced
<1> SUFFICES ASSUME KahnInv PROVE AllPlaced
  OBVIOUS
<1> USE DEF KahnInv
<1>1. ASSUME queue = <<>>, Acyclic PROVE RangeOf(order) = Name
  <2> DEFINE left == Name \ RangeOf(order)
  <2>1. RangeOf(order) \subseteq Name
    BY DEF KahnType, RangeOf
  <2>2. ASSUME left # {} PROVE FALSE
    <3>1. PICK n \in left : deps[n] \cap left = {}
      BY <1>1, <2>2 DEF Acyclic
    <3>2. Open(n) = {}
      BY <3>1, OpenFinite DEF Open, KahnType
    <3>3. degree[n] = 0
      BY <3>2, OpenFinite DEF DegreesCount, KahnType
    <3>4. RangeOf(queue) = {}
      BY <1>1 DEF RangeOf
    <3> QED BY <3>3, <3>4 DEF ReadyOnce
  <2> QED BY <2>1, <2>2
<1> QED BY <1>1 DEF AllPlaced, ReadyOnce

\* kahn_ready_order on its own: a name comes after its dependencies, and all
\* the names are placed unless there is a cycle.
THEOREM KahnOrders == KahnSpec => [](DependenciesFirst /\ AllPlaced)
<1>1. KahnInv /\ [Pop]_kahnVars => KahnInv'
  BY PopKeepsInv, KahnStutter
<1>2. KahnInv => DependenciesFirst /\ AllPlaced
  BY InvPlacesAll DEF KahnInv
<1> QED BY <1>1, <1>2, KahnInitInv, PTL DEF KahnSpec

----------------------------------------------------------------------------
(* The sorted slots.                                                       *)

\* The actions to be sorted: one for each table.
LEMMA OriginalType ==
    /\ Original \in Seq(Name)
    /\ Len(Original) \in Nat
    /\ \A r \in Ranks : Original[r] \in Name
    /\ \A r \in Ranks, s \in Ranks : Original[r] = Original[s] => r = s
<1>1. Original \in Seq(Name) /\ NoRepeats(Original)
  BY KeyOrderAssumption DEF Original
<1> QED BY <1>1 DEF NoRepeats, Ranks

\* sorted_positions: names placed by Kahn's loop count from the end.
LEMMA PositionOfPlaced ==
    ASSUME KahnInv, NEW i \in 1..Len(order)
    PROVE  Position(order[i]) = Len(order) - i
<1>1. order[i] \in RangeOf(order)
  BY DEF RangeOf
<1> DEFINE at == CHOOSE k \in 1..Len(order) : order[k] = order[i]
<1>2. at \in 1..Len(order) /\ order[at] = order[i]
  OBVIOUS
<1>3. at = i
  BY <1>2 DEF KahnInv, ReadyOnce, NoRepeats
<1> QED BY <1>1, <1>3 DEF Position

LEMMA PositionType ==
    ASSUME KahnInv, NEW n
    PROVE  Position(n) \in Nat
<1>1. CASE n \in RangeOf(order)
  <2>1. PICK i \in 1..Len(order) : n = order[i]
    BY <1>1 DEF RangeOf
  <2>2. Len(order) \in Nat
    BY DEF KahnInv, KahnType
  <2> QED BY <2>1, <2>2, PositionOfPlaced
<1>2. CASE n \notin RangeOf(order)
  BY <1>2 DEF Position
<1> QED BY <1>1, <1>2

\* No rank appears twice in the sorted order.
LEMMA SortedInjective ==
    ASSUME KahnInv, NEW f, StablySorted(f),
           NEW i \in Ranks, NEW j \in Ranks, f[i] = f[j]
    PROVE  i = j
<1>1. ASSUME NEW a \in Ranks, NEW b \in Ranks, a < b PROVE f[a] # f[b]
  <2>1. f[a] \in Ranks /\ f[b] \in Ranks
    BY DEF StablySorted
  <2>2. f[a] \in Nat /\ f[b] \in Nat
    BY <2>1, OriginalType DEF Ranks
  <2>3. Position(Original[f[a]]) \in Nat /\ Position(Original[f[b]]) \in Nat
    BY PositionType
  <2>4. \/ Position(Original[f[a]]) < Position(Original[f[b]])
        \/ f[a] < f[b]
    BY <1>1 DEF StablySorted
  <2> QED BY <2>2, <2>3, <2>4
<1>2. i \in Nat /\ j \in Nat
  BY OriginalType DEF Ranks
<1>3. ~(i < j) /\ ~(j < i)
  BY <1>1
<1> QED BY <1>2, <1>3

----------------------------------------------------------------------------
(* The in-place permutation.                                               *)

\* Nothing has moved yet.
LEMMA SortInitInv == Init => SortInv
<1> SUFFICES ASSUME Init PROVE SortInv
  OBVIOUS
<1>1. Original \in [Ranks -> Name] /\ Identity \in [Ranks -> Ranks]
  BY OriginalType DEF Ranks, Identity
<1>2. SortType
  BY <1>1, OriginalType DEF Init, SortType
<1>3. ArraysAgree
  BY OriginalType DEF Init, ArraysAgree, Identity
<1>4. PrefixDone /\ RanksSorted
  BY DEF Init, PrefixDone, RanksSorted
<1> QED BY <1>2, <1>3, <1>4 DEF SortInv

\* The swapping does not touch Kahn's result, on which the order depends.
LEMMA SortedStays ==
    ASSUME NEW f, StablySorted(f), order' = order, sorted' = f
    PROVE  StablySorted(sorted)'
<1>1. \A n : Position(n)' = Position(n)
  BY DEF Position, RangeOf
<1>2. Ranks' = Ranks /\ Original' = Original
  BY DEF Ranks, Original
<1> QED BY <1>1, <1>2 DEF StablySorted

\* One turn of the swapping loop keeps the two arrays inverse to each other,
\* and finishes one more slot.
LEMMA PlaceKeepsInv == KahnInv /\ SortInv /\ Place => SortInv'
<1> SUFFICES ASSUME KahnInv, SortInv, Place PROVE SortInv'
  OBVIOUS
<1> USE DEF SortInv
<1> DEFINE want == sorted[dst]
           src == posOf[want]
           displaced == originAt[dst]
<1>1. /\ dst \in Ranks /\ want \in Ranks /\ src \in Ranks
      /\ displaced \in Ranks
      /\ pc = "swap"
  BY DEF Place, SortType
<1>2. /\ originAt[src] = want /\ posOf[displaced] = dst
      /\ slots[src] = Original[want] /\ slots[dst] = Original[displaced]
  BY <1>1 DEF ArraysAgree
<1>3. dst' = dst + 1 /\ pc' = pc /\ sorted' = sorted /\ order' = order
      /\ queue' = queue
  BY DEF Place
<1>4. Ranks \subseteq Nat /\ Len(Original) \in Nat
  BY OriginalType DEF Ranks
<1>5. dst' \in 1..(Len(Original) + 1)
  BY <1>1, <1>3, <1>4 DEF Ranks
<1>6. ASSUME NEW i \in 1..(dst - 1) PROVE i \in Ranks /\ i # src /\ i # dst
  <2>1. i \in Ranks /\ i # dst
    BY <1>1, <1>4 DEF Ranks
  <2>2. ASSUME i = src PROVE FALSE
    <3>1. sorted[i] = sorted[dst]
      BY <1>1, <1>2, <1>6, <2>2 DEF PrefixDone
    <3>2. i = dst
      BY <1>1, <2>1, <3>1, SortedInjective DEF RanksSorted
    <3> QED BY <2>1, <3>2
  <2> QED BY <2>1, <2>2
<1>7. RanksSorted'
  BY <1>1, <1>3, SortedStays DEF RanksSorted
<1>8. CASE src = dst
  <2>1. slots' = slots /\ originAt' = originAt /\ posOf' = posOf
    BY <1>8 DEF Place
  <2>2. SortType'
    BY <1>1, <1>3, <1>5, <2>1 DEF SortType
  <2>3. ArraysAgree'
    BY <2>1 DEF ArraysAgree
  <2>4. PrefixDone'
    BY <1>1, <1>2, <1>3, <1>4, <1>8, <2>1 DEF PrefixDone
  <2> QED BY <1>7, <2>2, <2>3, <2>4
<1>9. CASE src # dst
  <2>1. /\ slots' = Swapped(slots, dst, src)
        /\ originAt' = Swapped(originAt, dst, src)
        /\ posOf' = [posOf EXCEPT ![want] = dst, ![displaced] = src]
    BY <1>9 DEF Place
  <2>2. want # displaced
    BY <1>2, <1>9
  <2>3. SortType'
    BY <1>1, <1>3, <1>5, <2>1 DEF SortType, Swapped
  <2>4. /\ slots'[dst] = Original[want] /\ originAt'[dst] = want
        /\ slots'[src] = Original[displaced] /\ originAt'[src] = displaced
        /\ posOf'[want] = dst /\ posOf'[displaced] = src
    BY <1>1, <1>2, <1>9, <2>1, <2>2 DEF Swapped, SortType
  <2>5. ASSUME NEW r \in Ranks, r # dst, r # src
        PROVE  slots'[r] = slots[r] /\ originAt'[r] = originAt[r]
    BY <1>1, <2>1, <2>5 DEF Swapped, SortType
  <2>6. ASSUME NEW r \in Ranks, r # want, r # displaced
        PROVE  posOf'[r] = posOf[r]
    BY <1>1, <2>1, <2>6 DEF SortType
  <2>7. ASSUME NEW r \in Ranks
        PROVE  slots'[r] = Original[originAt'[r]] /\ posOf'[originAt'[r]] = r
    <3>1. CASE r = dst \/ r = src
      BY <2>4, <3>1
    <3>2. CASE r # dst /\ r # src
      <4>1. originAt[r] \in Ranks
        BY DEF SortType
      <4>2. posOf[originAt[r]] = r /\ slots[r] = Original[originAt[r]]
        BY DEF ArraysAgree
      <4>3. originAt[r] # want /\ originAt[r] # displaced
        BY <1>2, <3>2, <4>2
      <4> QED BY <2>5, <2>6, <3>2, <4>1, <4>2, <4>3
    <3> QED BY <3>1, <3>2
  <2>8. ASSUME NEW r \in Ranks PROVE originAt'[posOf'[r]] = r
    <3>1. CASE r = want \/ r = displaced
      BY <2>4, <3>1
    <3>2. CASE r # want /\ r # displaced
      <4>1. posOf[r] \in Ranks /\ originAt[posOf[r]] = r
        BY DEF SortType, ArraysAgree
      <4>2. posOf[r] # dst /\ posOf[r] # src
        BY <1>2, <3>2, <4>1
      <4> QED BY <2>5, <2>6, <3>2, <4>1, <4>2
    <3> QED BY <3>1, <3>2
  <2>9. ArraysAgree'
    BY <2>7, <2>8 DEF ArraysAgree, Ranks, Original
  <2>10. PrefixDone'
    <3>1. ASSUME NEW i \in 1..(dst' - 1) PROVE originAt'[i] = sorted'[i]
      <4>1. CASE i = dst
        BY <1>3, <2>4, <4>1
      <4>2. CASE i \in 1..(dst - 1)
        BY <1>1, <1>3, <1>6, <2>5, <4>2 DEF PrefixDone
      <4> QED BY <1>1, <1>3, <1>4, <4>1, <4>2
    <3> QED BY <3>1 DEF PrefixDone
  <2> QED BY <1>7, <2>3, <2>9, <2>10
<1> QED BY <1>8, <1>9

\* Every step of the function keeps both invariants.
LEMMA NextKeepsInv == KahnInv /\ SortInv /\ [Next]_vars => KahnInv' /\ SortInv'
<1> SUFFICES ASSUME KahnInv, SortInv, [Next]_vars PROVE KahnInv' /\ SortInv'
  OBVIOUS
<1>1. CASE KahnStep
  <2>1. KahnInv'
    BY <1>1, PopKeepsInv DEF KahnStep
  <2>2. SortType'
    BY <1>1 DEF SortInv, SortType, KahnStep
  <2>3. ArraysAgree' /\ PrefixDone' /\ RanksSorted'
    BY <1>1 DEF SortInv, ArraysAgree, PrefixDone, RanksSorted, KahnStep
  <2> QED BY <2>1, <2>2, <2>3 DEF SortInv
<1>2. CASE SortRanks
  <2>1. KahnInv'
    BY <1>2, KahnStutter DEF SortRanks, kahnVars
  <2>2. PICK f \in [Ranks -> Ranks] : StablySorted(f) /\ sorted' = f
    BY <1>2 DEF SortRanks
  <2>3. SortType'
    BY <1>2, <2>2 DEF SortInv, SortType, SortRanks
  <2>4. ArraysAgree'
    BY <1>2 DEF SortInv, ArraysAgree, SortRanks
  <2>5. PrefixDone'
    <3>1. dst' = 1
      BY <1>2 DEF SortInv, SortType, SortRanks
    <3> QED BY <3>1 DEF PrefixDone
  <2>6. RanksSorted'
    <3>1. UNCHANGED order /\ queue' = <<>>
      BY <1>2 DEF SortRanks
    <3>2. StablySorted(sorted)'
      BY <2>2, <3>1, SortedStays
    <3> QED BY <3>1, <3>2 DEF RanksSorted
  <2> QED BY <2>1, <2>3, <2>4, <2>5, <2>6 DEF SortInv
<1>3. CASE Place
  <2>1. KahnInv'
    BY <1>3, KahnStutter DEF Place, kahnVars
  <2> QED BY <1>3, <2>1, PlaceKeepsInv
<1>4. CASE Finish
  <2>1. KahnInv'
    BY <1>4, KahnStutter DEF Finish, kahnVars
  <2>2. SortType'
    BY <1>4, OriginalType DEF SortInv, SortType, Finish, Ranks
  <2>3. ArraysAgree' /\ PrefixDone'
    BY <1>4 DEF SortInv, ArraysAgree, PrefixDone, Finish
  <2>4. RanksSorted'
    BY <1>4, SortedStays DEF SortInv, RanksSorted, Finish
  <2> QED BY <2>1, <2>2, <2>3, <2>4 DEF SortInv
<1>5. CASE UNCHANGED vars
  <2>1. KahnInv'
    BY <1>5, KahnStutter DEF vars, kahnVars
  <2>2. SortType' /\ ArraysAgree' /\ PrefixDone'
    BY <1>5 DEF SortInv, SortType, ArraysAgree, PrefixDone, vars
  <2>3. RanksSorted'
    BY <1>5, SortedStays DEF SortInv, RanksSorted, vars
  <2> QED BY <2>1, <2>2, <2>3 DEF SortInv
<1> QED BY <1>1, <1>2, <1>3, <1>4, <1>5 DEF Next

\* When the loop ends, every slot is final.
LEMMA InvSwapsSort == SortInv => SwapsSort
<1> SUFFICES ASSUME SortInv, pc = "done", NEW i \in Ranks
             PROVE  slots[i] = Original[sorted[i]]
  BY DEF SwapsSort
<1>1. i \in 1..(dst - 1)
  BY OriginalType DEF SortInv, SortType, Ranks
<1> QED BY <1>1 DEF SortInv, PrefixDone, ArraysAgree

\* Kahn's order, reversed, is a deletion order.
LEMMA InvReferencingFirst == KahnInv /\ SortInv => ReferencingFirst
<1> SUFFICES ASSUME KahnInv, SortInv, pc = "done", Acyclic,
                    NEW i \in Ranks, NEW j \in Ranks,
                    slots[i] \in deps[slots[j]]
             PROVE  j < i
  BY DEF ReferencingFirst
<1>1. RangeOf(order) = Name
  BY InvPlacesAll DEF AllPlaced, SortInv, RanksSorted
<1>2. slots[j] \in Name
  BY DEF SortInv, SortType
<1>3. PICK b \in 1..Len(order) : order[b] = slots[j]
  BY <1>1, <1>2 DEF RangeOf
<1>4. Len(order) \in Nat
  BY DEF KahnInv, KahnType
<1>5. PICK a \in 1..(b - 1) : order[a] = slots[i]
  BY <1>3 DEF KahnInv, DependenciesFirst
<1>6. a \in 1..Len(order) /\ a < b
  BY <1>4, <1>3, <1>5
<1>7. Position(slots[i]) = Len(order) - a /\ Position(slots[j]) = Len(order) - b
  BY <1>3, <1>5, <1>6, PositionOfPlaced
<1>8. Position(slots[j]) < Position(slots[i])
  BY <1>4, <1>6, <1>7
<1>9. slots[i] = Original[sorted[i]] /\ slots[j] = Original[sorted[j]]
  BY InvSwapsSort DEF SwapsSort
<1>10. i \in Nat /\ j \in Nat
  BY OriginalType DEF Ranks
<1>11. ASSUME i < j PROVE FALSE
  <2>1. \/ Position(slots[i]) < Position(slots[j])
        \/ Position(slots[i]) = Position(slots[j])
    BY <1>9, <1>11 DEF SortInv, RanksSorted, StablySorted
  <2> QED BY <1>4, <1>6, <1>7, <1>8, <2>1
<1>12. i # j
  BY <1>4, <1>6, <1>7, <1>8
<1> QED BY <1>10, <1>11, <1>12

----------------------------------------------------------------------------
\* The invariant of the whole function.
LEMMA Invariant == Spec => [](KahnInv /\ SortInv)
<1>1. Init => KahnInv /\ SortInv
  BY KahnInitInv, SortInitInv DEF Init
<1> QED BY <1>1, NextKeepsInv, PTL DEF Spec

\* A table never comes before a table it references in Kahn's order.
THEOREM PlacedAfterDependencies == Spec => []DependenciesFirst
<1>1. KahnInv => DependenciesFirst
  BY DEF KahnInv
<1> QED BY <1>1, Invariant, PTL

\* Without a cycle of references every table is placed, and none twice.
THEOREM NoTableLeftOut == Spec => []AllPlaced
BY InvPlacesAll, Invariant, PTL

\* The swaps leave every DeleteTable action in the slot the sort gave it.
THEOREM SwapsAreCorrect == Spec => []SwapsSort
BY InvSwapsSort, Invariant, PTL

\* Without a cycle of references, a table is deleted after every table that
\* references it.
THEOREM ReferencingTablesFirst == Spec => []ReferencingFirst
BY InvReferencingFirst, Invariant, PTL

----------------------------------------------------------------------------
(* The loop and the function of the planner modules.                       *)
(*                                                                         *)
(* Diff!KahnReadyOrder takes as many turns as there are names, the last    *)
(* ones with nothing to do when names are left out.  After(d, k) is what   *)
(* its fold has after k turns.                                             *)

\* What a turn of the fold works on.
FoldStates == [queue : Seq(Name), order : Seq(Name), degree : [Name -> Int]]
FoldStart(d) ==
    LET left == [n \in DOMAIN d |-> D!Cardinality(d[n])]
    IN  [queue |-> D!InOrder({n \in DOMAIN d : left[n] = 0}),
         order |-> <<>>, degree |-> left]
FoldBody(d, it) ==
    [s \in SUBSET DOMAIN D!InOrder(DOMAIN d) |->
        IF s = {} THEN FoldStart(d) ELSE D!KahnPop(d, it[s \ {Max(s)}])]
KahnFold(d) == CHOOSE it : it = FoldBody(d, it)
After(d, k) == KahnFold(d)[1 .. k]

\* It runs over all the names, and counts as the loop does.
LEMMA FoldOver ==
    /\ \A d \in Graphs : DOMAIN d = Name /\ D!InOrder(DOMAIN d) = Original
    /\ \A S : D!Cardinality(S) = Cardinality(S)
<1>1. \A S : D!Cardinality(S) = Cardinality(S)
  BY DEF D!Cardinality, Cardinality
<1> QED BY <1>1, SameKeyOrderAssumption DEF Graphs, Original

\* The fold starts as the loop does.
LEMMA FoldStartType ==
    ASSUME NEW d \in Graphs
    PROVE  /\ FoldStart(d) \in FoldStates
           /\ FoldStart(d) = LET left == [n \in Name |-> Cardinality(d[n])]
                             IN  [queue |-> KeyOrder[{n \in Name : left[n] = 0}],
                                  order |-> <<>>, degree |-> left]
<1> DEFINE left == [n \in Name |-> Cardinality(d[n])]
           ready == {n \in Name : left[n] = 0}
<1>1. DOMAIN d = Name /\ \A n \in Name : d[n] \in SUBSET Name
  BY DEF Graphs
<1>2. left \in [Name -> Int]
  <2>1. \A n \in Name : Cardinality(d[n]) \in Nat
    BY <1>1, NameAssumption, FS_Subset, FS_CardinalityType
  <2> QED BY <2>1
<1>3. ready \in SUBSET Name
  OBVIOUS
<1>4. D!InOrder(ready) = KeyOrder[ready] /\ KeyOrder[ready] \in Seq(Name)
  BY <1>3, SameKeyOrderAssumption, KeyOrderAssumption
<1>5. FoldStart(d) = [queue |-> KeyOrder[ready], order |-> <<>>, degree |-> left]
  <2>1. left = [n \in DOMAIN d |-> D!Cardinality(d[n])]
    BY <1>1, FoldOver
  <2> HIDE DEF left
  <2> QED BY <1>1, <1>4, <2>1 DEF FoldStart
<1>6. <<>> \in Seq(Name)
  OBVIOUS
<1> QED BY <1>2, <1>4, <1>5, <1>6 DEF FoldStates

\* A turn of the fold is a turn of the loop while something is queued.
LEMMA FoldPop ==
    ASSUME NEW d \in Graphs, NEW st \in FoldStates
    PROVE  /\ D!KahnPop(d, st) \in FoldStates
           /\ st.queue = <<>> => D!KahnPop(d, st) = st
           /\ st.queue # <<>> =>
                LET name == Head(st.queue)
                    left == [n \in Name |-> IF name \in d[n] THEN st.degree[n] - 1
                                              ELSE st.degree[n]]
                    ready == {n \in Name : name \in d[n] /\ left[n] = 0}
                IN  D!KahnPop(d, st)
                      = [queue |-> Tail(st.queue) \o KeyOrder[ready],
                         order |-> Append(st.order, name), degree |-> left]
<1> DEFINE name == Head(st.queue)
           left == [n \in Name |-> IF name \in d[n] THEN st.degree[n] - 1
                                     ELSE st.degree[n]]
           ready == {n \in Name : name \in d[n] /\ left[n] = 0}
           next == [queue |-> Tail(st.queue) \o KeyOrder[ready],
                    order |-> Append(st.order, name), degree |-> left]
<1>1. DOMAIN d = Name
  BY DEF Graphs
<1>2. /\ st.queue \in Seq(Name) /\ st.order \in Seq(Name)
      /\ st.degree \in [Name -> Int]
  BY DEF FoldStates
<1>3. CASE st.queue = <<>>
  BY <1>3 DEF D!KahnPop
<1>4. CASE st.queue # <<>>
  <2>1. ready \in SUBSET Name
    OBVIOUS
  <2>2. D!InOrder(ready) = KeyOrder[ready] /\ KeyOrder[ready] \in Seq(Name)
    BY <2>1, SameKeyOrderAssumption, KeyOrderAssumption
  <2>3. D!KahnPop(d, st) = next
    BY <1>1, <1>4, <2>2 DEF D!KahnPop
  <2>4. name \in Name /\ Tail(st.queue) \in Seq(Name)
    BY <1>2, <1>4
  <2>5. left \in [Name -> Int]
    BY <1>2
  <2>6. Tail(st.queue) \o KeyOrder[ready] \in Seq(Name)
    <3> HIDE DEF ready
    <3> QED BY <2>2, <2>4
  <2>7. Append(st.order, name) \in Seq(Name)
    <3> HIDE DEF name
    <3> QED BY <1>2, <2>4
  <2>8. next \in FoldStates
    BY <2>5, <2>6, <2>7 DEF FoldStates
  <2> QED BY <1>4, <2>3, <2>8
<1> QED BY <1>3, <1>4

\* The fold's function exists, and its turns follow one another.
LEMMA FoldTurns ==
    ASSUME NEW d \in Graphs
    PROVE  /\ D!KahnReadyOrder(d) = After(d, Len(Original)).order
           /\ After(d, 0) = FoldStart(d)
           /\ \A k \in 1 .. Len(Original) :
                 After(d, k) = D!KahnPop(d, After(d, k - 1))
<1> DEFINE n == Len(Original)
           h == [x \in FoldStates \X (1 .. n) |-> D!KahnPop(d, x[1])]
<1>1. n \in Nat /\ DOMAIN Original = 1 .. n
  BY OriginalType
<1>2. h \in [FoldStates \X (1 .. n) -> FoldStates]
  <2>1. \A x \in FoldStates \X (1 .. n) : x[1] \in FoldStates
    OBVIOUS
  <2> QED BY <2>1, FoldPop
<1>3. \E it : it = FoldBody(d, it)
  <2>1. PICK it : FoldsBy(it, FoldStates, n, FoldStart(d), h)
    <3> HIDE DEF h, n
    <3> QED BY <1>1, <1>2, FoldStartType, FoldIter
  <2>2. ASSUME NEW s \in SUBSET (1 .. n), s # {}
        PROVE  h[<<it[s \ {Max(s)}], Max(s)>>] = D!KahnPop(d, it[s \ {Max(s)}])
    <3>1. Max(s) \in 1 .. n
      <4> HIDE DEF n
      <4> QED BY <1>1, <2>2, MaxIsMember
    <3> HIDE DEF n
    <3>2. it[s \ {Max(s)}] \in FoldStates
      BY <2>1 DEF FoldsBy
    <3> QED BY <3>1, <3>2
  <2>3. it = FoldBody(d, it)
    <3> HIDE DEF h, n
    <3> QED BY <1>1, <2>1, <2>2, FoldOver DEF FoldsBy, FoldBody
  <2> QED BY <2>3
<1>4. KahnFold(d) = FoldBody(d, KahnFold(d))
  BY <1>3, Zenon DEF KahnFold
<1>5. D!KahnReadyOrder(d) = KahnFold(d)[DOMAIN Original].order
  <2>1. D!KahnReadyOrder(d) = KahnFold(d)[DOMAIN D!InOrder(DOMAIN d)].order
    BY DEF D!KahnReadyOrder, D!FoldLeft, D!MapThenFoldSet, D!Max,
           KahnFold, FoldBody, FoldStart, Max
  <2> QED BY <2>1, FoldOver
<1>6. After(d, 0) = FoldStart(d)
  <2>1. 1 .. 0 = {} /\ {} \in SUBSET DOMAIN Original
    OBVIOUS
  <2>2. FoldBody(d, KahnFold(d))[{}] = FoldStart(d)
    BY <2>1, FoldOver DEF FoldBody
  <2> QED BY <1>4, <2>1, <2>2 DEF After
<1>7. ASSUME NEW k \in 1 .. n PROVE After(d, k) = D!KahnPop(d, After(d, k - 1))
  <2>1. k \in 1 .. k /\ k \in Nat /\ (1 .. k) \ {k} = 1 .. (k - 1)
    OBVIOUS
  <2>2. 1 .. k \in SUBSET DOMAIN Original /\ 1 .. k # {}
    <3>1. \A j \in 1 .. k : j \in 1 .. n
      BY <1>1
    <3> HIDE DEF n
    <3> QED BY <1>1, <2>1, <3>1
  <2>3. Max(1 .. k) = k
    BY <2>1, MaxUpTo
  <2>4. FoldBody(d, KahnFold(d))[1 .. k]
          = D!KahnPop(d, KahnFold(d)[1 .. (k - 1)])
    BY <2>1, <2>2, <2>3, FoldOver DEF FoldBody
  <2> QED BY <1>4, <2>4 DEF After
<1> QED BY <1>1, <1>5, <1>6, <1>7 DEF After

\* There are as many turns as names: no name is placed twice.
FewPlaced == Len(order) <= Len(Original)
LEMMA PlacedAtMost == KahnInv => FewPlaced
<1> SUFFICES ASSUME KahnInv PROVE Len(order) <= Len(Original)
  BY DEF FewPlaced
<1>1. /\ order \in Seq(Name) /\ Len(order) \in Nat /\ NoRepeats(order)
      /\ Len(Original) \in Nat
  BY OriginalType DEF KahnInv, KahnType, ReadyOnce
<1>2. ASSUME Len(order) > Len(Original) PROVE FALSE
  <2> DEFINE A == 1 .. Len(order)
             f == [i \in A |-> CHOOSE r \in Ranks : Original[r] = order[i]]
  <2>1. \A i \in A : \E r \in Ranks : Original[r] = order[i]
    <3>1. RangeOf(Original) = Name
      BY KeyOrderAssumption DEF Original
    <3>2. \A i \in A : order[i] \in RangeOf(Original)
      BY <1>1, <3>1
    <3> QED BY <3>2 DEF RangeOf, Ranks
  <2>2. \A i \in A : f[i] \in Ranks /\ Original[f[i]] = order[i]
    <3> HIDE DEF A
    <3> QED BY <2>1
  <2>3. f \in [A -> Ranks]
    <3> HIDE DEF A
    <3> QED BY <2>2
  <2>4. /\ IsFiniteSet(A) /\ Cardinality(A) = Len(order)
        /\ IsFiniteSet(Ranks) /\ Cardinality(Ranks) = Len(Original)
    <3>1. /\ IsFiniteSet(A) /\ IsFiniteSet(1 .. Len(Original))
          /\ Cardinality(A) = Len(order)
          /\ Cardinality(1 .. Len(Original)) = Len(Original)
      <4>1. \A b \in Nat : IsFiniteSet(1 .. b) /\ Cardinality(1 .. b) = b
        <5>1. ASSUME NEW b \in Nat
              PROVE  IsFiniteSet(1 .. b) /\ Cardinality(1 .. b) = b
          <6>1. /\ IsFiniteSet(1 .. b)
                /\ Cardinality(1 .. b) = IF 1 > b THEN 0 ELSE b - 1 + 1
            <7>1. 1 \in Int /\ b \in Int
              OBVIOUS
            <7> QED BY <7>1, FS_Interval
          <6> QED BY <6>1
        <5> QED BY <5>1
      <4> QED BY <1>1, <4>1
    <3> QED BY <3>1 DEF Ranks
  <2>5. \E x, y \in A : x # y /\ f[x] = f[y]
    <3> HIDE DEF A, f
    <3> QED BY <1>1, <1>2, <2>3, <2>4, FS_PigeonHole
  <2>6. PICK x \in A, y \in A : x # y /\ f[x] = f[y]
    <3> HIDE DEF A, f
    <3> QED BY <2>5
  <2>7. order[x] = order[y]
    <3> HIDE DEF f
    <3> QED BY <2>2, <2>6
  <2> QED BY <1>1, <2>6, <2>7 DEF NoRepeats
<1> QED BY <1>1, <1>2

\* The loop has done as many turns of the fold as it has placed names.
FoldInv ==
    After(deps, Len(order)) = [queue |-> queue, order |-> order, degree |-> degree]

\* Before the first turn.
LEMMA FoldInitInv == KahnInit => FoldInv
<1> SUFFICES ASSUME KahnInit PROVE FoldInv
  OBVIOUS
<1>1. Len(order) = 0 /\ deps \in Graphs
  BY DEF KahnInit
<1>2. After(deps, 0) = FoldStart(deps)
  BY <1>1, FoldTurns
<1> QED BY <1>1, <1>2, FoldStartType DEF KahnInit, FoldInv

\* One turn of both.
LEMMA PopKeepsFold == KahnInv /\ KahnInv' /\ FoldInv /\ Pop => FoldInv'
<1>0. KahnInv' => FewPlaced'
  BY PlacedAtMost, PTL
<1> SUFFICES ASSUME KahnInv, KahnInv', FoldInv, Pop PROVE FoldInv'
  OBVIOUS
<1> DEFINE st == [queue |-> queue, order |-> order, degree |-> degree]
<1>1. /\ deps \in Graphs /\ degree \in [Name -> Int]
      /\ queue \in Seq(Name) /\ order \in Seq(Name) /\ Len(order) \in Nat
  BY DEF KahnInv, KahnType
<1>2. st \in FoldStates
  BY <1>1 DEF FoldStates
<1>3. Len(order') = Len(order) + 1
  <2>1. Head(queue) \in Name
    BY <1>1 DEF Pop
  <2> QED BY <1>1, <2>1 DEF Pop
<1>4. Len(order') \in 1 .. Len(Original)
  <2>1. Len(order)' <= Len(Original)'
    BY <1>0 DEF FewPlaced
  <2>2. Len(Original)' = Len(Original)
    BY DEF Original
  <2> QED BY <1>1, <1>3, <2>1, <2>2, OriginalType
<1>5. After(deps, Len(order')) = D!KahnPop(deps, st)
  <2>1. After(deps, Len(order')) = D!KahnPop(deps, After(deps, Len(order') - 1))
    <3> DEFINE k == Len(order')
    <3>1. k \in 1 .. Len(Original)
      BY <1>4
    <3> HIDE DEF k
    <3>2. After(deps, k) = D!KahnPop(deps, After(deps, k - 1))
      BY <1>1, <3>1, FoldTurns
    <3> QED BY <3>2 DEF k
  <2>2. Len(order') - 1 = Len(order)
    BY <1>1, <1>3
  <2> QED BY <2>1, <2>2 DEF FoldInv
<1>6. D!KahnPop(deps, st) = [queue |-> queue', order |-> order', degree |-> degree']
  <2>1. st.queue = queue /\ st.order = order /\ st.degree = degree
    OBVIOUS
  <2>2. st.queue # <<>>
    BY <2>1 DEF Pop
  <2> HIDE DEF st
  <2> DEFINE name == Head(st.queue)
             counts == [n \in Name |-> IF name \in deps[n] THEN st.degree[n] - 1
                                       ELSE st.degree[n]]
             ready == {n \in Name : name \in deps[n] /\ counts[n] = 0}
  <2>3. D!KahnPop(deps, st)
          = [queue |-> Tail(st.queue) \o KeyOrder[ready],
             order |-> Append(st.order, name), degree |-> counts]
    BY <1>1, <1>2, <2>2, FoldPop
  <2>4. counts = degree'
    BY <2>1 DEF Pop, Decremented
  <2>5. ready = Ready(Head(queue))
    BY <2>1 DEF Ready, Decremented
  <2> QED BY <2>1, <2>3, <2>4, <2>5 DEF Pop
<1> QED BY <1>5, <1>6 DEF FoldInv, Pop

\* Once the queue is empty the remaining turns change nothing.
LEMMA InvSameAsDiff == KahnInv /\ FoldInv => SameAsDiff
<1> SUFFICES ASSUME KahnInv, FoldInv, queue = <<>>
             PROVE  order = D!KahnReadyOrder(deps)
  BY DEF SameAsDiff
<1> DEFINE st == [queue |-> queue, order |-> order, degree |-> degree]
           placed == Len(order)
           n == Len(Original)
           G == {k \in Nat : After(deps, placed + k) = st}
<1>1. /\ deps \in Graphs /\ placed \in Nat /\ n \in Nat /\ placed <= n
      /\ st \in FoldStates
  BY PlacedAtMost, OriginalType DEF KahnInv, KahnType, FoldStates, FewPlaced
<1>2. D!KahnPop(deps, st) = st
  <2>1. st.queue = <<>>
    OBVIOUS
  <2> HIDE DEF st
  <2> QED BY <1>1, <2>1, FoldPop
<1>3. 0 \in G
  <2>1. placed + 0 = placed
    BY <1>1
  <2> QED BY <2>1 DEF FoldInv
<1>4. ASSUME NEW k \in 1 .. (n - placed), k - 1 \in G PROVE k \in G
  <2> HIDE DEF placed, n, st
  <2>1. placed + k \in 1 .. n /\ (placed + k) - 1 = placed + (k - 1)
    BY <1>1
  <2>2. After(deps, placed + k) = D!KahnPop(deps, After(deps, (placed + k) - 1))
    BY <1>1, <2>1, FoldTurns DEF n
  <2>3. After(deps, placed + (k - 1)) = st
    BY <1>4
  <2> QED BY <1>2, <2>1, <2>2, <2>3
<1>5. n - placed \in Nat
  BY <1>1
<1>6. n - placed \in G
  <2>1. \A k \in 0 .. (n - placed) : k \in G
    <3> HIDE DEF G, placed, n
    <3> QED BY <1>3, <1>4, <1>5, UpTo
  <2> HIDE DEF G
  <2> QED BY <1>5, <2>1
<1>7. After(deps, n) = st
  <2>1. placed + (n - placed) = n
    BY <1>1
  <2> HIDE DEF st, n, placed
  <2> QED BY <1>6, <2>1
<1> QED BY <1>1, <1>7, FoldTurns

\* The loop and Diff's function compute the same order, for every finite
\* graph: what is proved of the loop holds of the plans' order too.
THEOREM DiffUsesKahnsOrder == Spec => []SameAsDiff
<1>1. Init => FoldInv
  BY FoldInitInv DEF Init
<1>2. KahnInv /\ KahnInv' /\ FoldInv /\ [Next]_vars => FoldInv'
  <2> SUFFICES ASSUME KahnInv, KahnInv', FoldInv, [Next]_vars PROVE FoldInv'
    OBVIOUS
  <2>1. CASE KahnStep
    BY <2>1, PopKeepsFold DEF KahnStep
  <2>2. CASE UNCHANGED <<deps, degree, queue, order>>
    BY <2>2 DEF FoldInv
  <2> QED BY <2>1, <2>2 DEF Next, SortRanks, Place, Finish, vars
<1> QED BY <1>1, <1>2, InvSameAsDiff, Invariant, PTL DEF Spec
=============================================================================
