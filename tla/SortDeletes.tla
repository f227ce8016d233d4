---------------------------- MODULE SortDeletes ----------------------------
(***************************************************************************)
(* The orders of tables: crates/vespertide-planner/src/diff/ordering.rs.   *)
(* kahn_ready_order is the loop that orders the tables a plan creates and, *)
(* reversed, the tables it deletes.  deps[n] holds the tables among those  *)
(* to be ordered that n references; a table's references to itself are     *)
(* left out by the callers.                                                *)
(***************************************************************************)
EXTENDS Naturals, Sequences, FiniteSets

CONSTANTS Name,       \* the tables to be ordered
          KeyOrder    \* KeyOrder[S]: the members of S in BTreeMap key order

RangeOf(seq) == {seq[i] : i \in 1..Len(seq)}
NoRepeats(seq) ==
    \A i, j \in 1..Len(seq) : seq[i] = seq[j] => i = j

ASSUME NameAssumption == IsFiniteSet(Name)
ASSUME KeyOrderAssumption ==
    \A S \in SUBSET Name :
        /\ KeyOrder[S] \in Seq(Name)
        /\ RangeOf(KeyOrder[S]) = S
        /\ NoRepeats(KeyOrder[S])

VARIABLES deps,     \* the dependencies, fixed
          degree,   \* in_degree
          queue,    \* names that are ready
          order     \* names in ready order

kahnVars == <<deps, degree, queue, order>>

Graphs == {d \in [Name -> SUBSET Name] : \A n \in Name : n \notin d[n]}

KahnInit ==
    /\ deps \in Graphs
    /\ degree = [n \in Name |-> Cardinality(deps[n])]
    /\ queue = KeyOrder[{n \in Name : degree[n] = 0}]
    /\ order = <<>>

\* What the inner loop over all the names does for the name popped.
Decremented(name) ==
    [n \in Name |-> IF name \in deps[n] THEN degree[n] - 1 ELSE degree[n]]
\* Mutant: every dependent of the popped name is ready.
ReadyAtOnce(name) == {n \in Name : name \in deps[n]}

\* Names whose last open dependency it was.
Ready(name) == {n \in Name : name \in deps[n] /\ Decremented(name)[n] = 0}

\* Mutant: a name that is popped is queued again.
Requeue ==
    /\ queue # <<>>
    /\ queue' = Append(Tail(queue), Head(queue))
    /\ UNCHANGED <<deps, degree, order>>

\* One turn of the loop: pop_front, and push_back what has become ready.

Pop ==
    /\ queue # <<>>
    /\ order' = Append(order, Head(queue))
    /\ degree' = Decremented(Head(queue))
    /\ queue' = Tail(queue) \o KeyOrder[Ready(Head(queue))]
    /\ UNCHANGED deps

KahnSpec == KahnInit /\ [][Pop]_kahnVars

----------------------------------------------------------------------------
\* A name comes after everything it depends on: a table is created after the
\* tables it references.
DependenciesFirst ==
    \A i \in 1..Len(order) :
        deps[order[i]] \subseteq {order[j] : j \in 1..(i - 1)}

\* No circular references: in every set of names one depends on none of the
\* others.
Acyclic ==
    \A S \in SUBSET Name : S # {} => \E n \in S : deps[n] \cap S = {}

\* A result without all the names means a cycle: when the queue runs empty on
\* acyclic dependencies, every name has been placed, and none twice.
AllPlaced ==
    /\ NoRepeats(order)
    /\ queue = <<>> /\ Acyclic => RangeOf(order) = Name

----------------------------------------------------------------------------
(* Why they hold.                                                          *)

KahnType ==
    /\ deps \in Graphs
    /\ degree \in [Name -> Nat]
    /\ queue \in Seq(Name)
    /\ order \in Seq(Name)

\* The degree of a name counts the dependencies that are not placed yet.
Open(n) == deps[n] \ RangeOf(order)
DegreesCount == \A n \in Name : degree[n] = Cardinality(Open(n))

\* A name is in the queue or placed exactly when its degree is 0, and it is
\* in one place only.
ReadyOnce ==
    /\ \A n \in Name :
          degree[n] = 0 <=> n \in RangeOf(queue) \cup RangeOf(order)
    /\ RangeOf(queue) \cap RangeOf(order) = {}
    /\ NoRepeats(queue)
    /\ NoRepeats(order)

KahnInv == KahnType /\ DegreesCount /\ ReadyOnce /\ DependenciesFirst

----------------------------------------------------------------------------
(***************************************************************************)
(* sort_delete_tables: Kahn's order, reversed, gives each table a position; *)
(* the DeleteTable actions are then permuted in their slots by swaps, with *)
(* two arrays that tell where each action has got to.  Slots and ranks     *)
(* count from 1.                                                           *)
(***************************************************************************)
CONSTANTS NameOrder,  \* the same order as one sequence, for Diff
          Err         \* Diff's error

\* The planner modules have kahn_ready_order as a function of its own.
D == INSTANCE Diff

ASSUME SameKeyOrderAssumption ==
    \A S \in SUBSET Name : KeyOrder[S] = D!InOrder(S)

VARIABLES pc,         \* "kahn", "swap" or "done"
          slots,      \* the tables named by the DeleteTable actions
          sorted,     \* `order`: sorted[dst] is the rank that belongs at dst
          originAt,   \* originAt[pos]: the rank of the action now at pos
          posOf,      \* its inverse
          dst         \* loop variable

vars == <<deps, degree, queue, order, pc, slots, sorted, originAt, posOf, dst>>

Original == KeyOrder[Name]
Ranks == 1..Len(Original)
Identity == [r \in Ranks |-> r]

\* Mutant: Kahn's order is not reversed.
PositionUnreversed(n) ==
    IF n \in RangeOf(order)
    THEN (CHOOSE i \in 1..Len(order) : order[i] = n) - 1
    ELSE 0

\* sorted_positions: a name that Kahn's order leaves out gets position 0.
Position(n) ==
    IF n \in RangeOf(order)
    THEN Len(order) - (CHOOSE i \in 1..Len(order) : order[i] = n)
    ELSE 0

\* The result of the stable sort_by_key.
StablySorted(f) ==
    /\ f \in [Ranks -> Ranks]
    /\ \A i, j \in Ranks : i < j =>
          LET a == Position(Original[f[i]])
              b == Position(Original[f[j]])
          IN  a < b \/ (a = b /\ f[i] < f[j])

Init ==
    /\ KahnInit
    /\ pc = "kahn"
    /\ slots = Original
    /\ sorted = Identity
    /\ originAt = Identity
    /\ posOf = Identity
    /\ dst = 1

KahnStep ==
    /\ pc = "kahn"
    /\ Pop
    /\ UNCHANGED <<pc, slots, sorted, originAt, posOf, dst>>

SortRanks ==
    /\ pc = "kahn"
    /\ queue = <<>>
    /\ \E f \in [Ranks -> Ranks] : StablySorted(f) /\ sorted' = f
    /\ pc' = "swap"
    /\ UNCHANGED <<deps, degree, queue, order, slots, originAt, posOf, dst>>

Swapped(f, i, j) == [f EXCEPT ![i] = f[j], ![j] = f[i]]

\* Mutant: the array that is read next is not kept up to date.
PlaceForgetful ==
    /\ pc = "swap"
    /\ dst \in Ranks
    /\ LET src == posOf[sorted[dst]]
       IN  /\ slots' = Swapped(slots, dst, src)
           /\ originAt' = Swapped(originAt, dst, src)
           /\ posOf' = [posOf EXCEPT ![sorted[dst]] = dst]
    /\ dst' = dst + 1
    /\ UNCHANGED <<deps, degree, queue, order, pc, sorted>>

\* Move the action that belongs at dst there; the one it displaces goes to
\* where it came from.
Place ==
    /\ pc = "swap"
    /\ dst \in Ranks
    /\ LET want == sorted[dst]
           src == posOf[want]
           displaced == originAt[dst]
       IN  IF src = dst THEN UNCHANGED <<slots, originAt, posOf>>
           ELSE /\ slots' = Swapped(slots, dst, src)
                /\ originAt' = Swapped(originAt, dst, src)
                /\ posOf' = [posOf EXCEPT ![want] = dst, ![displaced] = src]
    /\ dst' = dst + 1
    /\ UNCHANGED <<deps, degree, queue, order, pc, sorted>>

Finish ==
    /\ pc = "swap"
    /\ dst \notin Ranks
    /\ pc' = "done"
    /\ UNCHANGED <<deps, degree, queue, order, slots, sorted, originAt, posOf,
                   dst>>

Next == KahnStep \/ SortRanks \/ Place \/ Finish

Spec == Init /\ [][Next]_vars

\* The function returns: nothing else runs while it does.
FairSpec == Spec /\ WF_vars(Next)

----------------------------------------------------------------------------
\* The loop computes what the planner modules use: the fold of
\* Diff!KahnReadyOrder gives the order that kahn_ready_order builds.
SameAsDiff == queue = <<>> => order = D!KahnReadyOrder(deps)

\* Every DeleteTable action ends up in the slot that the sort gives it.
SwapsSort ==
    pc = "done" => \A i \in Ranks : slots[i] = Original[sorted[i]]

\* Unless the references are circular, a table is deleted after every table
\* that references it.
ReferencingFirst ==
    pc = "done" /\ Acyclic =>
        \A i, j \in Ranks : slots[i] \in deps[slots[j]] => j < i

\* The loops end.
Terminates == <>(pc = "done")

----------------------------------------------------------------------------
(* Why they hold.                                                          *)

SortType ==
    /\ pc \in {"kahn", "swap", "done"}
    /\ slots \in [Ranks -> Name]
    /\ sorted \in [Ranks -> Ranks]
    /\ originAt \in [Ranks -> Ranks]
    /\ posOf \in [Ranks -> Ranks]
    /\ dst \in 1..(Len(Original) + 1)
    /\ pc = "kahn" => dst = 1
    /\ pc = "done" => dst = Len(Original) + 1

\* The two arrays are inverse to each other and describe the slots.
ArraysAgree ==
    \A r \in Ranks :
        /\ slots[r] = Original[originAt[r]]
        /\ posOf[originAt[r]] = r
        /\ originAt[posOf[r]] = r

\* The slots before dst are final.
PrefixDone == pc # "kahn" => \A i \in 1..(dst - 1) : originAt[i] = sorted[i]

\* The sort is a permutation by position.
RanksSorted == pc # "kahn" => queue = <<>> /\ StablySorted(sorted)

SortInv == SortType /\ ArraysAgree /\ PrefixDone /\ RanksSorted
=============================================================================
