--------------------------- MODULE RepairsProofs ----------------------------
(***************************************************************************)
(* Proofs about the repairs of rows, for every set of changes and rows,    *)
(* every analysis of CHECKs and every backend.                             *)
(***************************************************************************)
EXTENDS Repairs, SequenceTheorems, TLAPS

----------------------------------------------------------------------------
(* The numbers in a type.                                                  *)

LEMMA Units ==
    /\ Unit(0) = 100 /\ Unit(1) = 10 /\ Unit(2) = 1
    /\ 0..Hundredths = {0, 1, 2}
BY DEF Unit, PowersOfTen, Hundredths

\* The multiple of ten that is nearest to m.
LEMMA NearestTen ==
    ASSUME NEW m \in Nat
    PROVE  \E q \in Nat : /\ (m + (10 \div 2)) \div 10 = q
                          /\ 10 * q <= m + 5 /\ m + 5 < 10 * q + 10
                          /\ q * 10 = 10 * q
<1>1. 10 \div 2 = 5  OBVIOUS
<1>2. PICK q \in Int : q = (m + 5) \div 10  OBVIOUS
<1>3. 10 * q <= m + 5 /\ m + 5 < 10 * q + 10  BY <1>2
<1>4. q \in Nat  BY <1>3
<1> QED  BY <1>1, <1>2, <1>3, <1>4

\* Rounding is idempotent, keeps what a finer scale keeps, and keeps zero.
LEMMA Rounding ==
    ASSUME NEW v \in Int, NEW s \in 0..Hundredths
    PROVE  /\ Round(v, s) \in Int
           /\ Round(Round(v, s), s) = Round(v, s)
           /\ Round(0, s) = 0
           /\ \A t \in 0..Hundredths : s <= t /\ v = Round(v, s) => v = Round(v, t)
<1>0. \A w \in Int : Round(w, 2) = w
  BY Units DEF Round, Magnitude
<1>1. CASE s = 0
  BY <1>1, Units DEF Round, Magnitude
<1>2. CASE s = 1
  <2>1. \A w \in Int : \E q \in Nat :
            /\ Round(w, 1) = IF w < 0 THEN -(10 * q) ELSE 10 * q
            /\ 10 * q <= Magnitude(w) + 5 /\ Magnitude(w) + 5 < 10 * q + 10
    <3> TAKE w \in Int
    <3>1. Magnitude(w) \in Nat  BY DEF Magnitude
    <3>2. PICK q \in Nat :
              /\ (Magnitude(w) + (10 \div 2)) \div 10 = q
              /\ 10 * q <= Magnitude(w) + 5 /\ Magnitude(w) + 5 < 10 * q + 10
              /\ q * 10 = 10 * q
      BY <3>1, NearestTen
    <3>3. Round(w, 1) = IF w < 0 THEN -(q * 10) ELSE q * 10
      BY <3>2, Units DEF Round
    <3> QED  BY <3>2, <3>3
  <2>2. \A w \in Int : Round(w, 1) \in Int /\ Round(Round(w, 1), 1) = Round(w, 1)
    <3> TAKE w \in Int
    <3>1. PICK q \in Nat : Round(w, 1) = IF w < 0 THEN -(10 * q) ELSE 10 * q
      BY <2>1
    <3>2. Round(w, 1) \in Int /\ Magnitude(Round(w, 1)) = 10 * q
      BY <3>1 DEF Magnitude
    <3>3. PICK p \in Nat :
              /\ Round(Round(w, 1), 1) = IF Round(w, 1) < 0 THEN -(10 * p) ELSE 10 * p
              /\ 10 * p <= 10 * q + 5 /\ 10 * q + 5 < 10 * p + 10
      BY <3>2, <2>1
    <3>4. p = q  BY <3>3
    <3> QED  BY <3>1, <3>3, <3>4
  <2>3. Round(0, 1) = 0
    <3>1. PICK q \in Nat : /\ Round(0, 1) = 10 * q
                           /\ 10 * q <= Magnitude(0) + 5
      BY <2>1
    <3> QED  BY <3>1 DEF Magnitude
  <2> QED  BY <1>0, <1>2, <2>2, <2>3, Units
<1>3. CASE s = 2
  BY <1>0, <1>3, Units
<1> QED  BY <1>1, <1>2, <1>3, Units

LEMMA Powers ==
    /\ Len(PowersOfTen) = 7
    /\ \A i, j \in 0..6 : /\ TenPow(i) \in Nat \ {0}
                          /\ i <= j => TenPow(i) <= TenPow(j)
<1>1. \A i \in 0..6 : \/ i = 0 /\ TenPow(i) = 100
                      \/ i = 1 /\ TenPow(i) = 1000
                      \/ i = 2 /\ TenPow(i) = 10000
                      \/ i = 3 /\ TenPow(i) = 100000
                      \/ i = 4 /\ TenPow(i) = 1000000
                      \/ i = 5 /\ TenPow(i) = 10000000
                      \/ i = 6 /\ TenPow(i) = 100000000
  BY DEF TenPow, PowersOfTen
<1>2. Len(PowersOfTen) = 7  BY DEF PowersOfTen
<1> QED  BY <1>1, <1>2

LEMMA Magnitudes == \A v \in Int : Magnitude(v) \in Nat /\ Magnitude(0) = 0
BY DEF Magnitude

LEMMA Ranks ==
    /\ ToSet(IntegerKinds) = {"small_int", "integer", "big_int"}
    /\ Rank("small_int") = 1 /\ Rank("integer") = 2 /\ Rank("big_int") = 3
<1>1. ToSet(IntegerKinds) = {"small_int", "integer", "big_int"}
  BY DEF ToSet, IntegerKinds
<1> QED  BY <1>1 DEF Rank, SelectInSeq, IntegerKinds, Min

----------------------------------------------------------------------------
(* The statements of a repair: at most one that changes rows, then those    *)
(* of the constraint or of the type.                                        *)

Add == Statement("addConstraint")
Alter == Statement("alterType")
Rests == {<<Add>>, <<Statement("addNotValid"), Statement("validate")>>,
          <<Statement("validate")>>, <<Statement("dropCheck"), Add>>}
RestsOf(e) == IF e.kind = "type" THEN {<<Alter>>} ELSE Rests

HasRepair(e, choice) ==
    CASE e.kind = "unique" -> UsableKey(e)
      [] e.kind = "type" -> choice \in NarrowingStrategy
      [] OTHER -> e.kind \in {"foreign", "check"}

RepairOf(e, choice) ==
    CASE e.kind = "unique" ->
            [op |-> "deleteDuplicates",
             keep |-> IF choice = "keepLast" THEN "last" ELSE "first"]
      [] e.kind = "foreign" ->
            Statement(IF choice = "nullify" THEN "nullifyOrphans" ELSE "deleteOrphans")
      [] e.kind = "check" ->
            IF choice = "nullify"
            THEN [op |-> "nullifyWhereNot", column |-> CheckTarget(e)[1]]
            ELSE Statement("deleteWhereNot")
      [] OTHER -> Statement(choice)

LEMMA Kinds ==
    ASSUME NEW e, IsEdit(e)
    PROVE  e.kind \in {"unique", "foreign", "check", "replace", "type", "cascade"}
BY DEF IsEdit

LEMMA Prepended ==
    ASSUME NEW S, NEW x \in S, NEW q \in Seq(S)
    PROVE  /\ <<x>> \o q # <<>>
           /\ Head(<<x>> \o q) = x
           /\ Tail(<<x>> \o q) = q
<1> DEFINE w == <<x>> \o q
<1>1. <<x>> \in Seq(S) /\ Len(<<x>>) = 1 /\ <<x>>[1] = x  OBVIOUS
<1>2. w \in Seq(S) /\ Len(w) = Len(q) + 1 /\ w[1] = x
  BY <1>1, ConcatProperties
<1>3. \A i \in 1..Len(q) : w[i + 1] = q[i]
  <2> TAKE i \in 1..Len(q)
  <2>1. i + 1 \in 1..(Len(q) + 1) /\ i + 1 > 1 /\ (i + 1) - 1 = i  OBVIOUS
  <2> QED  BY <2>1, <1>1, ConcatProperties
<1> HIDE DEF w
<1>4. Tail(w) = q
  <2>1. Tail(w) \in Seq(S) /\ Len(Tail(w)) = Len(q)
        /\ \A i \in 1..Len(q) : Tail(w)[i] = q[i]
    BY <1>2, <1>3
  <2> QED  BY <2>1, SeqEqual
<1>5. w # <<>> /\ Head(w) = x  BY <1>2
<1> QED  BY <1>4, <1>5 DEF w

LEMMA RestFacts ==
    ASSUME NEW e, NEW q \in RestsOf(e), NEW x
    PROVE  /\ q # <<>>
           /\ Tail(q) \in RestsOf(e) \cup {<<>>}
           /\ e.kind = "type" => Head(q) = Alter /\ Tail(q) = <<>>
           /\ e.kind # "type" =>
                 Head(q).op \in {"addConstraint", "addNotValid", "validate", "dropCheck"}
           /\ Head(<<x>> \o q) = x /\ Tail(<<x>> \o q) = q /\ <<x>> \o q # <<>>
<1> DEFINE S == {x, Alter, Add, Statement("addNotValid"), Statement("validate"),
                Statement("dropCheck")}
<1>1. /\ q # <<>>
      /\ Tail(q) \in RestsOf(e) \cup {<<>>}
      /\ e.kind = "type" => Head(q) = Alter /\ Tail(q) = <<>>
      /\ e.kind # "type" =>
            Head(q) \in {Add, Statement("addNotValid"), Statement("validate"),
                         Statement("dropCheck")}
      /\ q \in Seq(S)
  <2>1. CASE e.kind = "type"
    <3>1. q = <<Alter>>  BY <2>1 DEF RestsOf
    <3> QED  BY <2>1, <3>1
  <2>2. CASE e.kind # "type"
    <3>1. q \in Rests /\ RestsOf(e) = Rests  BY <2>2 DEF RestsOf
    <3>2. CASE q = <<Add>>  BY <2>2, <3>1, <3>2
    <3>3. CASE q = <<Statement("addNotValid"), Statement("validate")>>
      <4>1. Tail(q) = <<Statement("validate")>>  BY <3>3
      <4>2. Tail(q) \in Rests  BY <4>1 DEF Rests
      <4> QED  BY <2>2, <3>1, <3>3, <4>2
    <3>4. CASE q = <<Statement("validate")>>  BY <2>2, <3>1, <3>4
    <3>5. CASE q = <<Statement("dropCheck"), Add>>
      <4>1. Tail(q) = <<Add>>  BY <3>5
      <4>2. Tail(q) \in Rests  BY <4>1 DEF Rests
      <4> QED  BY <2>2, <3>1, <3>5, <4>2
    <3> QED  BY <3>1, <3>2, <3>3, <3>4, <3>5 DEF Rests
  <2> QED  BY <2>1, <2>2
<1>2. ASSUME e.kind # "type"
      PROVE  Head(q).op \in {"addConstraint", "addNotValid", "validate", "dropCheck"}
  BY <1>1, <1>2 DEF Add, Statement
<1>3. Head(<<x>> \o q) = x /\ Tail(<<x>> \o q) = q /\ <<x>> \o q # <<>>
  <2>1. x \in S  OBVIOUS
  <2> QED  BY <1>1, <2>1, Prepended
<1> QED  BY <1>1, <1>2, <1>3

LEMMA PlanWithoutRepair ==
    ASSUME NEW b, NEW e, IsEdit(e), NEW c, ~HasRepair(e, c)
    PROVE  IF e.kind = "cascade" THEN Statements(b, e, c) = <<>>
           ELSE Statements(b, e, c) \in RestsOf(e)
<1>1. CASE e.kind = "unique"
  <2>1. Statements(b, e, c) = BuildUnique(e, c)  BY <1>1 DEF Statements
  <2>2. BuildUnique(e, c) = <<>> \o <<Add>>  BY <1>1 DEF BuildUnique, Add, HasRepair
  <2>3. <<>> \o <<Add>> = <<Add>>  OBVIOUS
  <2> QED  BY <1>1, <2>1, <2>2, <2>3 DEF RestsOf, Rests
<1>2. CASE e.kind = "replace"
  BY <1>2 DEF Statements, RestsOf, Rests, Add
<1>3. CASE e.kind = "type"
  <2>1. Statements(b, e, c) = BuildTypeChange(e, c)  BY <1>3 DEF Statements
  <2>2. BuildTypeChange(e, c) = <<>> \o <<Alter>>
    BY <1>3 DEF BuildTypeChange, Alter, HasRepair
  <2>3. <<>> \o <<Alter>> = <<Alter>>  OBVIOUS
  <2> QED  BY <1>3, <2>1, <2>2, <2>3 DEF RestsOf
<1>4. CASE e.kind = "cascade"
  BY <1>4 DEF Statements
<1> QED  BY <1>1, <1>2, <1>3, <1>4, Kinds DEF HasRepair

LEMMA RepairComesFirst ==
    ASSUME NEW b, NEW e, IsEdit(e), NEW c, HasRepair(e, c)
    PROVE  /\ Statements(b, e, c) # <<>>
           /\ Head(Statements(b, e, c)) = RepairOf(e, c)
           /\ Tail(Statements(b, e, c)) \in RestsOf(e)
<1>1. AddValidated(b) \in Rests
  BY DEF AddValidated, Rests, Add
<1>2. \E q \in RestsOf(e) : Statements(b, e, c) = <<RepairOf(e, c)>> \o q
  <2>1. CASE e.kind = "unique"
    <3>1. Statements(b, e, c) = BuildUnique(e, c)  BY <2>1 DEF Statements
    <3>2. BuildUnique(e, c) = <<RepairOf(e, c)>> \o <<Add>>
      BY <2>1 DEF BuildUnique, RepairOf, Add, HasRepair
    <3> QED  BY <2>1, <3>1, <3>2 DEF RestsOf, Rests
  <2>2. CASE e.kind = "foreign"
    BY <1>1, <2>2 DEF Statements, BuildForeignKey, RepairOf, RestsOf
  <2>3. CASE e.kind = "check"
    BY <1>1, <2>3 DEF Statements, BuildCheck, RepairOf, RestsOf
  <2>4. CASE e.kind = "type"
    <3>1. Statements(b, e, c) = BuildTypeChange(e, c)  BY <2>4 DEF Statements
    <3>2. BuildTypeChange(e, c) = <<RepairOf(e, c)>> \o <<Alter>>
      BY <2>4 DEF BuildTypeChange, RepairOf, Alter, HasRepair
    <3> QED  BY <2>4, <3>1, <3>2 DEF RestsOf
  <2> QED  BY <2>1, <2>2, <2>3, <2>4, Kinds DEF HasRepair
<1>3. PICK q \in RestsOf(e) : Statements(b, e, c) = <<RepairOf(e, c)>> \o q
  BY <1>2
<1> QED  BY <1>3, RestFacts

----------------------------------------------------------------------------
(* What the statements of a migration have done.                           *)

\* The rows after the statement that repairs them, and after the last.
Repaired ==
    IF HasRepair(edit, strategy) THEN Updated(edit, before, RepairOf(edit, strategy))
    ELSE before
Final == IF edit.kind = "type" THEN {Converted(edit, r) : r \in Repaired} ELSE Repaired

Deployed == phase \in {"running", "applied", "rejected"}

\* What is decided stays: the change, the CHECK that was read, the answer, and
\* the rows that the table had.
Settled ==
    /\ edit \in Edits
    /\ phase \in {"edited", "mistyped", "refused", "valid", "cancelled", "written",
                  "running", "applied", "rejected"}
    /\ phase # "mistyped" => parsed = ReadCheck(TextOf(edit))
    /\ phase = "written" \/ Deployed => strategy \in Offers(edit)
    /\ phase # "written" /\ ~Deployed => strategy = "none"
    /\ Deployed => \E content \in Contents(edit) :
                      before = content.rows /\ parents = content.parents
    /\ ~Deployed => rows = {} /\ before = {}

\* The rows are as the statements so far have left them.
RowsFollow ==
    /\ phase = "running" =>
          \/ rows = before /\ todo = Statements(backend, edit, strategy) /\ todo # <<>>
          \/ rows = Repaired /\ todo \in RestsOf(edit)
    /\ phase = "applied" => rows = Final
    /\ phase = "rejected" => rows \in {before, Repaired}

RowInv == Settled /\ RowsFollow

LEMMA UpdatedByDdl ==
    ASSUME NEW e, NEW rs, NEW q \in RestsOf(e)
    PROVE  Updated(e, rs, Head(q)) =
              IF e.kind = "type" THEN {Converted(e, r) : r \in rs} ELSE rs
<1>1. CASE e.kind = "type"
  <2>1. Head(q) = Alter  BY <1>1, RestFacts
  <2>2. Head(q).op = "alterType"  BY <2>1 DEF Alter, Statement
  <2> QED  BY <1>1, <2>2 DEF Updated
<1>2. CASE e.kind # "type"
  <2>1. Head(q).op \in {"addConstraint", "addNotValid", "validate", "dropCheck"}
    BY <1>2, RestFacts
  <2> QED  BY <1>2, <2>1 DEF Updated
<1> QED  BY <1>1, <1>2

LEMMA RowInvInit == Init => RowInv
BY DEF Init, RowInv, Settled, RowsFollow, Deployed

LEMMA OffersKept ==
    edit' = edit /\ parsed' = parsed => Offers(edit)' = Offers(edit)
BY DEF Offers, CheckChoices, CheckTarget

\* What was decided when the migration started decides its outcome.
LEMMA OutcomeKept ==
    ASSUME UNCHANGED <<edit, parsed, strategy, backend, before, parents>>
    PROVE  /\ Repaired' = Repaired
           /\ Final' = Final
           /\ Statements(backend, edit, strategy)' = Statements(backend, edit, strategy)
<1>1. RepairOf(edit, strategy)' = RepairOf(edit, strategy)
  BY DEF RepairOf, CheckTarget
<1>2. Updated(edit, before, RepairOf(edit, strategy))'
      = Updated(edit, before, RepairOf(edit, strategy))
  BY <1>1 DEF Updated, NotExists, IsOrphan, Converted
<1>3. HasRepair(edit, strategy)' = HasRepair(edit, strategy)
  BY DEF HasRepair
<1>4. Repaired' = Repaired  BY <1>2, <1>3 DEF Repaired
<1>5. Final' = Final  BY <1>4 DEF Final, Converted
<1>6. Statements(backend, edit, strategy)' = Statements(backend, edit, strategy)
  BY DEF Statements, BuildCheck, CheckTarget
<1> QED  BY <1>4, <1>5, <1>6

LEMMA SettledNext == Settled /\ [Next]_vars => Settled'
<1> SUFFICES ASSUME Settled, [Next]_vars PROVE Settled'
  OBVIOUS
<1>1. CASE Mistype
  BY <1>1 DEF Mistype, Settled, Deployed, tables
<1>2. CASE Validate
  BY <1>2 DEF Validate, Settled, Deployed, tables
<1>3. CASE Answer
  <2>1. strategy' \in Offers(edit)'  BY <1>3, OffersKept DEF Answer
  <2> QED  BY <1>3, <2>1 DEF Answer, Settled, Deployed, tables
<1>4. CASE Cancel
  BY <1>4 DEF Cancel, Settled, Deployed, tables
<1>5. CASE Deploy
  <2>1. Offers(edit)' = Offers(edit)  BY <1>5, OffersKept DEF Deploy
  <2>2. \E content \in Contents(edit') : before' = content.rows /\ parents' = content.parents
    BY <1>5 DEF Deploy
  <2>3. phase' \in {"applied", "running"}  BY <1>5 DEF Deploy
  <2> QED  BY <1>5, <2>1, <2>2, <2>3 DEF Deploy, Settled, Deployed
<1>6. CASE Execute
  <2>1. Offers(edit)' = Offers(edit)  BY <1>6, OffersKept DEF Execute
  <2>2. phase' \in {"applied", "running", "rejected"}  BY <1>6 DEF Execute
  <2> QED  BY <1>6, <2>1, <2>2 DEF Execute, Settled, Deployed
<1>7. CASE UNCHANGED vars
  <2>1. Offers(edit)' = Offers(edit)  BY <1>7, OffersKept DEF vars
  <2> QED  BY <1>7, <2>1 DEF vars, Settled, Deployed
<1> QED  BY <1>1, <1>2, <1>3, <1>4, <1>5, <1>6, <1>7 DEF Next

\* The change that is made is one of those that there are, to rows that there
\* can be.
LEMMA InUse ==
    ASSUME Settled
    PROVE  /\ IsEdit(edit)
           /\ Deployed => CanHold(edit, before)
BY EditAssumption DEF Settled

LEMMA RowsFollowNext == RowInv /\ [Next]_vars => RowsFollow'
<1> SUFFICES ASSUME RowInv, [Next]_vars PROVE RowsFollow'
  OBVIOUS
<1> USE DEF RowInv
<1>1. CASE Mistype \/ Validate \/ Answer \/ Cancel
  <2>1. phase' \notin {"running", "applied", "rejected"}
    BY <1>1 DEF Mistype, Validate, Answer, Cancel
  <2> QED  BY <2>1 DEF RowsFollow
<1>2. CASE Deploy
  <2>1. rows' = before' /\ todo' = Statements(backend, edit, strategy)'
    BY <1>2 DEF Deploy, Statements, BuildCheck, CheckTarget
  <2>2. CASE todo' # <<>>
    BY <1>2, <2>1, <2>2 DEF Deploy, RowsFollow
  <2>3. CASE todo' = <<>>
    <3>1. IsEdit(edit') /\ phase' = "applied"  BY <1>2, <2>3, InUse DEF Deploy
    <3>2. edit'.kind = "cascade"
      <4>1. IsEdit(edit)  BY InUse
      <4>2. Statements(backend', edit, strategy) = <<>>  BY <1>2, <2>3 DEF Deploy
      <4>3. ~HasRepair(edit, strategy)  BY <4>1, <4>2, RepairComesFirst
      <4>4. edit.kind = "cascade"  BY <4>1, <4>2, <4>3, PlanWithoutRepair, RestFacts
      <4> QED  BY <1>2, <4>4 DEF Deploy
    <3>3. (rows = Final)'  BY <2>1, <3>2 DEF Final, Repaired, HasRepair
    <3> QED  BY <3>1, <3>3 DEF RowsFollow
  <2> QED  BY <2>2, <2>3
<1>3. CASE Execute
  <2>1. /\ Repaired' = Repaired /\ Final' = Final
        /\ Statements(backend, edit, strategy)' = Statements(backend, edit, strategy)
        /\ before' = before
    BY <1>3, OutcomeKept DEF Execute
  <2>2. IsEdit(edit) /\ phase = "running"  BY <1>3, InUse DEF Execute
  <2>3. \/ rows = before /\ todo = Statements(backend, edit, strategy) /\ todo # <<>>
        \/ rows = Repaired /\ todo \in RestsOf(edit)
    BY <2>2 DEF RowsFollow
  <2>4. CASE Rejects(edit, Head(todo))
    <3>1. phase' = "rejected" /\ rows' \in {rows, before}  BY <1>3, <2>4 DEF Execute
    <3>2. rows' \in {before', Repaired'}  BY <2>1, <2>3, <3>1
    <3> QED  BY <3>1, <3>2 DEF RowsFollow
  <2>5. CASE ~Rejects(edit, Head(todo))
    <3>1. /\ rows' = Updated(edit, rows, Head(todo)) /\ todo' = Tail(todo)
          /\ phase' = IF todo' = <<>> THEN "applied" ELSE "running"
          /\ edit' = edit
      BY <1>3, <2>5 DEF Execute
    <3>2. CASE rows = Repaired /\ todo \in RestsOf(edit)
      <4>1. rows' = IF edit.kind = "type" THEN {Converted(edit, r) : r \in Repaired}
                    ELSE Repaired
        BY <3>1, <3>2, UpdatedByDdl
      <4>2. rows' = Final  BY <4>1 DEF Final
      <4>3. Tail(todo) \in RestsOf(edit) \cup {<<>>}  BY <3>2, RestFacts
      <4>4. todo' # <<>> => edit.kind # "type"  BY <3>1, <3>2, RestFacts
      <4>5. todo' # <<>> => rows' = Repaired /\ todo' \in RestsOf(edit)
        BY <3>1, <4>1, <4>3, <4>4
      <4>6. RestsOf(edit)' = RestsOf(edit)  BY <3>1 DEF RestsOf
      <4> QED  BY <2>1, <3>1, <4>2, <4>5, <4>6 DEF RowsFollow
    <3>3. CASE rows = before /\ todo = Statements(backend, edit, strategy) /\ todo # <<>>
      <4>1. CASE HasRepair(edit, strategy)
        <5>1. Head(todo) = RepairOf(edit, strategy) /\ Tail(todo) \in RestsOf(edit)
          BY <2>2, <3>3, <4>1, RepairComesFirst
        <5>2. Tail(todo) # <<>>  BY <5>1, RestFacts
        <5>3. rows' = Repaired /\ todo' = Tail(todo)
          BY <3>1, <3>3, <4>1, <5>1 DEF Repaired
        <5>4. RestsOf(edit)' = RestsOf(edit)  BY <3>1 DEF RestsOf
        <5> QED  BY <2>1, <3>1, <5>1, <5>2, <5>3, <5>4 DEF RowsFollow
      <4>2. CASE ~HasRepair(edit, strategy)
        <5>1. todo \in RestsOf(edit)  BY <2>2, <3>3, <4>2, PlanWithoutRepair
        <5>2. rows = Repaired  BY <3>3, <4>2 DEF Repaired
        <5> QED  BY <3>2, <5>1, <5>2
      <4> QED  BY <4>1, <4>2
    <3> QED  BY <2>3, <3>2, <3>3
  <2> QED  BY <2>4, <2>5
<1>4. CASE UNCHANGED vars
  <2>1. /\ Repaired' = Repaired /\ Final' = Final
        /\ Statements(backend, edit, strategy)' = Statements(backend, edit, strategy)
    BY <1>4, OutcomeKept DEF vars
  <2>2. RestsOf(edit)' = RestsOf(edit)  BY <1>4 DEF vars, RestsOf
  <2> QED  BY <1>4, <2>1, <2>2 DEF vars, RowsFollow
<1> QED  BY <1>1, <1>2, <1>3, <1>4 DEF Next

LEMMA RowInvStays == Spec => []RowInv
<1>1. RowInv /\ [Next]_vars => RowInv'
  BY SettledNext, RowsFollowNext DEF RowInv
<1> QED  BY <1>1, RowInvInit, PTL DEF Spec

----------------------------------------------------------------------------
(* The rows after a repair.                                                *)

LEMMA RepairedRows ==
    /\ \/ edit.kind \in {"replace", "cascade"}
       \/ edit.kind = "unique" /\ ~UsableKey(edit)
       \/ edit.kind = "type" /\ strategy = "proceed"
       => Repaired = before
    /\ edit.kind = "unique" /\ UsableKey(edit) =>
          Repaired = {r \in before :
              IsKept(edit, r, {s \in before : KeyOf(s, edit.cols) = KeyOf(r, edit.cols)},
                     IF strategy = "keepLast" THEN "last" ELSE "first")}
    /\ edit.kind = "foreign" =>
          Repaired = IF strategy = "nullify"
                     THEN {IF IsOrphan(edit, before, r)
                           THEN WithNulls(r, ToSet(edit.cols)) ELSE r : r \in before}
                     ELSE {r \in before : ~NotExists(edit, before, r)}
    /\ edit.kind = "check" =>
          Repaired = IF strategy = "nullify"
                     THEN {IF IsFalse(CheckOf(edit), r, edit.classes)
                           THEN WithNulls(r, {CheckTarget(edit)[1]}) ELSE r : r \in before}
                     ELSE {r \in before : ~IsFalse(CheckOf(edit), r, edit.classes)}
    /\ edit.kind = "type" =>
          /\ strategy = "truncate" =>
                Repaired = {IF r.a = <<>> THEN r
                            ELSE [r EXCEPT !.a = <<Truncated(edit, @[1])>>] : r \in before}
          /\ strategy = "delete" =>
                Repaired = {r \in before :
                              ~(r.a # <<>> /\ ViolationPredicate(edit, r.a[1]))}
          /\ strategy = "setToValue" =>
                Repaired = {IF r.a # <<>> /\ ViolationPredicate(edit, r.a[1])
                            THEN [r EXCEPT !.a = <<0>>] ELSE r : r \in before}
<1>1. ~HasRepair(edit, strategy) => Repaired = before
  BY DEF Repaired
<1>2. ASSUME HasRepair(edit, strategy), NEW stmt, RepairOf(edit, strategy) = stmt
      PROVE  Repaired = Updated(edit, before, stmt)
  BY <1>2 DEF Repaired
<1>3. CASE edit.kind \in {"replace", "cascade"}
  BY <1>1, <1>3 DEF HasRepair
<1>4. CASE edit.kind = "unique"
  <2>1. CASE ~UsableKey(edit)  BY <1>1, <1>4, <2>1 DEF HasRepair
  <2>2. CASE UsableKey(edit)
    <3> DEFINE keep == IF strategy = "keepLast" THEN "last" ELSE "first"
               stmt == [op |-> "deleteDuplicates", keep |-> keep]
    <3>1. HasRepair(edit, strategy) /\ RepairOf(edit, strategy) = stmt
      BY <1>4, <2>2 DEF HasRepair, RepairOf
    <3>2. stmt.op = "deleteDuplicates" /\ stmt.keep = keep  OBVIOUS
    <3>3. Repaired = Updated(edit, before, stmt)  BY <1>2, <3>1
    <3> HIDE DEF stmt
    <3>4. Repaired = {r \in before :
              IsKept(edit, r, {s \in before : KeyOf(s, edit.cols) = KeyOf(r, edit.cols)},
                     keep)}
      BY <3>2, <3>3 DEF Updated
    <3> QED  BY <1>4, <2>2, <3>4
  <2> QED  BY <1>4, <2>1, <2>2
<1>5. CASE edit.kind = "foreign"
  <2>1. HasRepair(edit, strategy)  BY <1>5 DEF HasRepair
  <2>2. CASE strategy = "nullify"
    <3> DEFINE stmt == Statement("nullifyOrphans")
    <3>1. RepairOf(edit, strategy) = stmt  BY <1>5, <2>2 DEF RepairOf
    <3>2. stmt.op = "nullifyOrphans"  BY DEF Statement
    <3>3. Repaired = Updated(edit, before, stmt)  BY <1>2, <2>1, <3>1
    <3> HIDE DEF stmt
    <3> QED  BY <1>5, <2>2, <3>2, <3>3 DEF Updated
  <2>3. CASE strategy # "nullify"
    <3> DEFINE stmt == Statement("deleteOrphans")
    <3>1. RepairOf(edit, strategy) = stmt  BY <1>5, <2>3 DEF RepairOf
    <3>2. stmt.op = "deleteOrphans"  BY DEF Statement
    <3>3. Repaired = Updated(edit, before, stmt)  BY <1>2, <2>1, <3>1
    <3> HIDE DEF stmt
    <3> QED  BY <1>5, <2>3, <3>2, <3>3 DEF Updated
  <2> QED  BY <2>2, <2>3
<1>6. CASE edit.kind = "check"
  <2>1. HasRepair(edit, strategy)  BY <1>6 DEF HasRepair
  <2>2. CASE strategy = "nullify"
    <3> DEFINE c == CheckTarget(edit)[1]
               stmt == [op |-> "nullifyWhereNot", column |-> c]
    <3>1. RepairOf(edit, strategy) = stmt  BY <1>6, <2>2 DEF RepairOf
    <3>2. stmt.op = "nullifyWhereNot" /\ stmt.column = c  OBVIOUS
    <3>3. Repaired = Updated(edit, before, stmt)  BY <1>2, <2>1, <3>1
    <3> HIDE DEF stmt, c
    <3>4. Repaired = {IF IsFalse(CheckOf(edit), r, edit.classes)
                      THEN WithNulls(r, {c}) ELSE r : r \in before}
      BY <3>2, <3>3 DEF Updated
    <3> QED  BY <1>6, <2>2, <3>4 DEF c
  <2>3. CASE strategy # "nullify"
    <3> DEFINE stmt == Statement("deleteWhereNot")
    <3>1. RepairOf(edit, strategy) = stmt  BY <1>6, <2>3 DEF RepairOf
    <3>2. stmt.op = "deleteWhereNot"  BY DEF Statement
    <3>3. Repaired = Updated(edit, before, stmt)  BY <1>2, <2>1, <3>1
    <3> HIDE DEF stmt
    <3> QED  BY <1>6, <2>3, <3>2, <3>3 DEF Updated
  <2> QED  BY <2>2, <2>3
<1>7. CASE edit.kind = "type"
  <2>1. CASE strategy \in NarrowingStrategy
    <3> DEFINE stmt == Statement(strategy)
    <3>1. HasRepair(edit, strategy) /\ RepairOf(edit, strategy) = stmt
      BY <1>7, <2>1 DEF HasRepair, RepairOf
    <3>2. stmt.op = strategy  BY DEF Statement
    <3>3. Repaired = Updated(edit, before, stmt)  BY <1>2, <3>1
    <3> HIDE DEF stmt
    <3>4. strategy = "truncate" =>
             Repaired = {IF r.a = <<>> THEN r
                         ELSE [r EXCEPT !.a = <<Truncated(edit, @[1])>>] : r \in before}
      BY <3>2, <3>3 DEF Updated
    <3>5. strategy = "delete" =>
             Repaired = {r \in before :
                           ~(r.a # <<>> /\ ViolationPredicate(edit, r.a[1]))}
      BY <3>2, <3>3 DEF Updated
    <3>6. strategy = "setToValue" =>
             Repaired = {IF r.a # <<>> /\ ViolationPredicate(edit, r.a[1])
                         THEN [r EXCEPT !.a = <<0>>] ELSE r : r \in before}
      BY <3>2, <3>3 DEF Updated
    <3>7. strategy # "proceed"  BY <2>1 DEF NarrowingStrategy
    <3> QED  BY <1>7, <3>4, <3>5, <3>6, <3>7
  <2>2. CASE strategy \notin NarrowingStrategy
    BY <1>1, <1>7, <2>2 DEF HasRepair, NarrowingStrategy
  <2> QED  BY <2>1, <2>2
<1>8. CASE edit.kind \notin {"replace", "cascade", "unique", "foreign", "check", "type"}
  BY <1>8
<1> QED  BY <1>3, <1>4, <1>5, <1>6, <1>7, <1>8

----------------------------------------------------------------------------
(* What a change of type asks for.                                         *)

LEMMA FamilyOfTypes ==
    ASSUME NEW e, IsEdit(e), e.kind = "type"
    PROVE  /\ IsType(e.from) /\ IsType(e.to)
           /\ \/ {e.from.kind, e.to.kind} \subseteq {"varchar", "char", "text"}
              \/ e.from.kind = "numeric" /\ e.to.kind = "numeric"
              \/ {e.from.kind, e.to.kind} \subseteq {"small_int", "integer", "big_int"}
              \/ {e.from.kind, e.to.kind} \subseteq {"real", "double_precision"}
              \/ {e.from.kind, e.to.kind} \subseteq {"timestamp", "timestamptz"}
<1>1. IsType(e.from) /\ IsType(e.to)  BY DEF IsEdit
<1>2. PICK family \in Families : {e.from.kind, e.to.kind} \subseteq family
  BY DEF IsEdit
<1> QED  BY <1>1, <1>2, Ranks DEF Families, StringKinds

\* A narrowing of decimals is one, and so on.
LEMMA Narrowings ==
    ASSUME NEW e, IsEdit(e), e.kind = "type"
    PROVE  /\ Narrowing(e) \in {"none", "length", "numericScale", "numericIntegerDigits",
                                "integerSize", "floatSize", "timezone"}
           /\ Narrowing(e) = "length" => e.to.kind \in {"varchar", "char"}
           /\ Narrowing(e) \in {"numericScale", "numericIntegerDigits"} =>
                 e.from.kind = "numeric" /\ e.to.kind = "numeric"
           /\ Narrowing(e) = "integerSize" =>
                 e.to.kind \in {"small_int", "integer", "big_int"}
           /\ e.to.kind = "numeric" =>
                 /\ e.from.kind = "numeric"
                 /\ e.from.s \in 0..Hundredths /\ e.to.s \in 0..Hundredths
                 /\ e.to.s < e.from.s <=> Narrowing(e) = "numericScale"
                 /\ Narrowing(e) = "none" => ~(IntDigits(e.to) < IntDigits(e.from))
<1>1. CASE {e.from.kind, e.to.kind} \subseteq {"varchar", "char", "text"}
  BY <1>1, Ranks DEF Narrowing, NarrowingKind
<1>2. CASE e.from.kind = "numeric" /\ e.to.kind = "numeric"
  <2>1. e.from.s \in 0..Hundredths /\ e.to.s \in 0..Hundredths
    BY <1>2, FamilyOfTypes DEF IsType
  <2>2. Narrowing(e) = IF e.to.s < e.from.s THEN "numericScale"
                       ELSE IF IntDigits(e.to) < IntDigits(e.from)
                       THEN "numericIntegerDigits" ELSE "none"
    <3>1. CASE e.to.s < e.from.s
      BY <1>2, Ranks, <3>1 DEF Narrowing, NarrowingKind
    <3>2. CASE ~(e.to.s < e.from.s) /\ IntDigits(e.to) < IntDigits(e.from)
      BY <1>2, Ranks, <3>2 DEF Narrowing, NarrowingKind
    <3>3. CASE ~(e.to.s < e.from.s) /\ ~(IntDigits(e.to) < IntDigits(e.from))
      BY <1>2, Ranks, <3>3 DEF Narrowing, NarrowingKind
    <3> QED  BY <3>1, <3>2, <3>3
  <2> QED  BY <1>2, <2>1, <2>2
<1>3. CASE {e.from.kind, e.to.kind} \subseteq {"small_int", "integer", "big_int"}
  BY <1>3, Ranks DEF Narrowing, NarrowingKind
<1>4. CASE {e.from.kind, e.to.kind} \subseteq {"real", "double_precision"}
  BY <1>4, Ranks DEF Narrowing, NarrowingKind
<1>5. CASE {e.from.kind, e.to.kind} \subseteq {"timestamp", "timestamptz"}
  BY <1>5, Ranks DEF Narrowing, NarrowingKind
<1> QED  BY <1>1, <1>2, <1>3, <1>4, <1>5, FamilyOfTypes

LEMMA ChoicesByKind ==
    ASSUME IsEdit(edit), strategy \in Offers(edit)
    PROVE  /\ edit.kind = "unique" => strategy \in {"continue", "keepFirst", "keepLast"}
           /\ edit.kind \in {"foreign", "check"} => strategy \in {"nullify", "delete"}
           /\ edit.kind = "type" =>
                 /\ strategy \in {"truncate", "delete", "setToValue", "proceed"}
                 /\ Narrowing(edit) \notin {"floatSize", "timezone"}
                 /\ (Narrowing(edit) = "none" <=> strategy = "proceed")
                 /\ strategy = "truncate" => Narrowing(edit) \in {"length", "numericScale"}
           /\ edit.kind \in {"replace", "cascade"} => strategy = "proceed"
<1>1. CASE edit.kind = "unique"
  BY <1>1 DEF Offers, UniqueChoices, KeepPolicy
<1>2. CASE edit.kind = "foreign"
  BY <1>2 DEF Offers, OrphanChoices, ForeignKeyOrphanStrategy
<1>3. CASE edit.kind = "check"
  BY <1>3 DEF Offers, CheckChoices, CheckViolationStrategy
<1>4. CASE edit.kind = "type"
  <2>1. strategy \in ApplicableStrategies(Narrowing(edit))  BY <1>4 DEF Offers
  <2> QED  BY <1>4, <2>1, Narrowings DEF ApplicableStrategies, NarrowingStrategy
<1>5. CASE edit.kind \in {"replace", "cascade"}
  BY <1>5 DEF Offers
<1> QED  BY <1>1, <1>2, <1>3, <1>4, <1>5, Kinds

LEMMA ColumnNames == ToSet(Columns) = {"id", "a", "b"}
BY DEF ToSet, Columns

\* A value is NULL, or <<v>>.
LEMMA OptionValues ==
    ASSUME NEW r, IsRow(r), NEW c \in ToSet(Columns)
    PROVE  r[c] = <<>> \/ (r[c] = <<r[c][1]>> /\ r[c][1] \in Int)
<1>1. r[c] \in Seq(Int) /\ Len(r[c]) <= 1  BY DEF IsRow
<1> QED  BY <1>1

\* A row whose value of column a is set to what it is stays the same.
LEMMA SameValue ==
    ASSUME NEW r, IsRow(r), NEW v, r.a # <<>>, v = r.a[1]
    PROVE  [r EXCEPT !.a = <<v>>] = r
<1>1. "a" \in ToSet(Columns)  BY ColumnNames
<1>2. r.a = <<v>>  BY <1>1, OptionValues
<1>3. r = [c \in ToSet(Columns) |-> r[c]]  BY DEF IsRow
<1> QED  BY <1>1, <1>2, <1>3

----------------------------------------------------------------------------
(* Whom a repair touches.                                                  *)

\* ALTER TYPE keeps a value that has the digits of the new type.
LEMMA ConversionKeeps ==
    ASSUME IsEdit(edit), edit.kind = "type", CanHold(edit, before), NEW r \in before,
           \/ Narrowing(edit) # "numericScale"
           \/ r.a = <<>>
           \/ r.a[1] = Round(r.a[1], edit.to.s)
    PROVE  Converted(edit, r) = r
<1>1. CASE edit.to.kind # "numeric" \/ r.a = <<>>
  BY <1>1 DEF Converted
<1>2. CASE edit.to.kind = "numeric" /\ r.a # <<>>
  <2>1. IsRow(r) /\ Storable(edit.from, r.a[1])  BY <1>2 DEF CanHold
  <2>2. r.a[1] \in Int  BY <1>2, <2>1, OptionValues, ColumnNames
  <2>3. r.a[1] = Round(r.a[1], edit.to.s)
    <3>1. CASE Narrowing(edit) = "numericScale"  BY <1>2, <3>1
    <3>2. CASE Narrowing(edit) # "numericScale"
      <4>1. /\ edit.from.kind = "numeric"
            /\ edit.from.s \in 0..Hundredths /\ edit.to.s \in 0..Hundredths
            /\ ~(edit.to.s < edit.from.s)
        BY <1>2, <3>2, Narrowings
      <4>2. edit.from.s <= edit.to.s  BY <4>1 DEF Hundredths
      <4>3. r.a[1] = Round(r.a[1], edit.from.s)  BY <2>1, <4>1, Ranks DEF Storable
      <4> QED  BY <2>2, <4>1, <4>2, <4>3, Rounding
    <3> QED  BY <3>1, <3>2
  <2>4. [r EXCEPT !.a = <<Round(@[1], edit.to.s)>>] = r
    BY <1>2, <2>1, <2>3, SameValue
  <2> QED  BY <2>4 DEF Converted
<1> QED  BY <1>1, <1>2

\* A value that fits is in no WHERE clause of a narrowing.
LEMMA FittingIsNoViolation ==
    ASSUME NEW e, IsEdit(e), e.kind = "type", NEW v \in Int, Storable(e.to, v)
    PROVE  /\ ~ViolationPredicate(e, v)
           /\ Narrowing(e) = "numericScale" => v = Round(v, e.to.s)
           /\ Narrowing(e) \in {"length", "numericScale"} => Truncated(e, v) = v
<1>1. CASE Narrowing(e) = "length"
  <2>1. e.to.kind \in {"varchar", "char"} /\ e.to.n \in Nat
    BY <1>1, Narrowings, FamilyOfTypes DEF IsType
  <2>2. v <= e.to.n  BY <2>1, Ranks DEF Storable
  <2> QED  BY <1>1, <2>1, <2>2 DEF ViolationPredicate, Truncated
<1>2. CASE Narrowing(e) = "numericScale"
  <2>1. e.to.kind = "numeric"  BY <1>2, Narrowings
  <2>2. v = Round(v, e.to.s)  BY <2>1, Ranks DEF Storable
  <2> QED  BY <1>2, <2>2 DEF ViolationPredicate, Truncated
<1>3. CASE Narrowing(e) = "numericIntegerDigits"
  <2>1. e.to.kind = "numeric" /\ IntDigits(e.to) \in 0..6
    BY <1>3, Narrowings, FamilyOfTypes, Powers DEF IsType, IntDigits, Hundredths
  <2>2. Magnitude(v) < TenPow(IntDigits(e.to))  BY <2>1, Ranks DEF Storable
  <2>3. ~(Magnitude(v) >= TenPow(IntDigits(e.to)))
    BY <2>1, <2>2, Powers, Magnitudes
  <2> QED  BY <1>3, <2>3 DEF ViolationPredicate
<1>4. CASE Narrowing(e) = "integerSize"
  <2>1. e.to.kind \in {"small_int", "integer", "big_int"}  BY <1>4, Narrowings
  <2>2. Rank(e.to.kind) \in 1..3  BY <2>1, Ranks
  <2>3. IntegerBounds(e.to.kind)[1] <= v /\ v <= IntegerBounds(e.to.kind)[2]
    BY <2>1, Ranks DEF Storable
  <2>4. ~(v > IntegerBounds(e.to.kind)[2] \/ v < IntegerBounds(e.to.kind)[1])
    BY <2>2, <2>3 DEF IntegerBounds
  <2> QED  BY <1>4, <2>4 DEF ViolationPredicate
<1>5. CASE Narrowing(e) \in {"none", "floatSize", "timezone"}
  BY <1>5 DEF ViolationPredicate
<1> QED  BY <1>1, <1>2, <1>3, <1>4, <1>5, Narrowings

\* A change of type leaves the rows that fit.
LEMMA FittingRowsStay ==
    ASSUME IsEdit(edit), edit.kind = "type", CanHold(edit, before),
           strategy \in Offers(edit),
           NEW r \in before, r.a # <<>> => Storable(edit.to, r.a[1])
    PROVE  r \in Final
<1>1. IsRow(r)  BY DEF CanHold
<1>2. r.a # <<>> => r.a[1] \in Int  BY <1>1, OptionValues, ColumnNames
<1>3. /\ r.a # <<>> => ~ViolationPredicate(edit, r.a[1])
      /\ r.a # <<>> /\ Narrowing(edit) = "numericScale" =>
            r.a[1] = Round(r.a[1], edit.to.s)
      /\ r.a # <<>> /\ Narrowing(edit) \in {"length", "numericScale"} =>
            Truncated(edit, r.a[1]) = r.a[1]
  BY <1>2, FittingIsNoViolation
<1>4. Converted(edit, r) = r  BY <1>3, ConversionKeeps
<1>5. r \in Repaired
  <2>1. CASE strategy = "proceed"
    BY <2>1, RepairedRows
  <2>2. CASE strategy = "truncate"
    <3>1. Repaired = {IF s.a = <<>> THEN s
                      ELSE [s EXCEPT !.a = <<Truncated(edit, @[1])>>] : s \in before}
      BY <2>2, RepairedRows
    <3>2. r.a # <<>> => Truncated(edit, r.a[1]) = r.a[1]
      BY <1>3, <2>2, ChoicesByKind
    <3>3. r.a # <<>> => [r EXCEPT !.a = <<Truncated(edit, @[1])>>] = r
      BY <1>1, <3>2, SameValue
    <3> QED  BY <3>1, <3>3
  <2>3. CASE strategy = "delete"
    <3>1. Repaired = {s \in before : ~(s.a # <<>> /\ ViolationPredicate(edit, s.a[1]))}
      BY <2>3, RepairedRows
    <3> QED  BY <1>3, <3>1
  <2>4. CASE strategy = "setToValue"
    <3>1. Repaired = {IF s.a # <<>> /\ ViolationPredicate(edit, s.a[1])
                      THEN [s EXCEPT !.a = <<0>>] ELSE s : s \in before}
      BY <2>4, RepairedRows
    <3> QED  BY <1>3, <3>1
  <2> QED  BY <2>1, <2>2, <2>3, <2>4, ChoicesByKind
<1> QED  BY <1>4, <1>5 DEF Final

\* What a repair does not touch.
Touched == CASE edit.kind = "foreign" -> ToSet(edit.cols)
             [] edit.kind = "check" -> ToSet(CheckTarget(edit))
             [] OTHER -> {"a"}
RestOf(r) == [c \in DOMAIN r \ Touched |-> r[c]]
AsChosen(rs) ==
    IF strategy \in {"nullify", "truncate", "setToValue"}
    THEN {RestOf(r) : r \in rs} = {RestOf(r) : r \in before}
    ELSE rs \subseteq before

LEMMA NullsAreTouched ==
    ASSUME NEW r, NEW cols, cols \subseteq Touched
    PROVE  RestOf(WithNulls(r, cols)) = RestOf(r)
BY DEF RestOf, WithNulls

LEMMA ValueIsTouched ==
    ASSUME NEW r, NEW v, edit.kind = "type"
    PROVE  RestOf([r EXCEPT !.a = v]) = RestOf(r)
<1>1. Touched = {"a"}  BY DEF Touched
<1> QED  BY <1>1 DEF RestOf

LEMMA ConversionTouches ==
    ASSUME NEW r, edit.kind = "type"
    PROVE  RestOf(Converted(edit, r)) = RestOf(r)
BY ValueIsTouched DEF Converted

LEMMA ConstraintRepairIsAsChosen ==
    ASSUME IsEdit(edit), edit.kind # "type", strategy \in Offers(edit),
           parsed = ReadCheck(TextOf(edit))
    PROVE  AsChosen(Repaired)
<1>1. CASE edit.kind = "unique"
  <2>1. Repaired \subseteq before
    BY <1>1, RepairedRows
  <2> QED  BY <1>1, <2>1, ChoicesByKind DEF AsChosen
<1>2. CASE edit.kind = "foreign"
  <2>1. CASE strategy = "nullify"
    <3>1. Repaired = {IF IsOrphan(edit, before, r) THEN WithNulls(r, ToSet(edit.cols))
                      ELSE r : r \in before}
      BY <1>2, <2>1, RepairedRows
    <3>2. ToSet(edit.cols) \subseteq Touched  BY <1>2 DEF Touched
    <3>3. \A r \in before : RestOf(IF IsOrphan(edit, before, r)
                                   THEN WithNulls(r, ToSet(edit.cols)) ELSE r) = RestOf(r)
      BY <3>2, NullsAreTouched
    <3> QED  BY <2>1, <3>1, <3>3 DEF AsChosen
  <2>2. CASE strategy = "delete"
    <3>1. Repaired \subseteq before
      BY <1>2, <2>2, RepairedRows
    <3> QED  BY <2>2, <3>1 DEF AsChosen
  <2> QED  BY <1>2, <2>1, <2>2, ChoicesByKind
<1>3. CASE edit.kind = "check"
  <2>1. CASE strategy = "nullify"
    <3> DEFINE c == CheckTarget(edit)[1]
    <3>1. c \in ToSet(CheckTarget(edit))
      <4>1. CheckTarget(edit) \in Seq(ToSet(Columns)) /\ CheckTarget(edit) # <<>>
        BY <1>3, <2>1 DEF IsEdit, CheckTarget, Offers, CheckChoices
      <4>2. 1 \in DOMAIN CheckTarget(edit)  BY <4>1
      <4> QED  BY <4>2 DEF ToSet
    <3>2. Repaired = {IF IsFalse(CheckOf(edit), r, edit.classes)
                      THEN WithNulls(r, {c}) ELSE r : r \in before}
      BY <1>3, <2>1, RepairedRows
    <3>3. {c} \subseteq Touched  BY <1>3, <3>1 DEF Touched
    <3> HIDE DEF c
    <3>4. \A r \in before : RestOf(IF IsFalse(CheckOf(edit), r, edit.classes)
                                   THEN WithNulls(r, {c}) ELSE r) = RestOf(r)
      BY <3>3, NullsAreTouched
    <3> QED  BY <2>1, <3>2, <3>4 DEF AsChosen
  <2>2. CASE strategy = "delete"
    <3>1. Repaired \subseteq before
      BY <1>3, <2>2, RepairedRows
    <3> QED  BY <2>2, <3>1 DEF AsChosen
  <2> QED  BY <1>3, <2>1, <2>2, ChoicesByKind
<1>4. CASE edit.kind \in {"replace", "cascade"}
  <2>1. Repaired = before  BY <1>4, RepairedRows
  <2> QED  BY <1>4, <2>1 DEF AsChosen
<1> QED  BY <1>1, <1>2, <1>3, <1>4, Kinds

LEMMA NarrowingIsAsChosen ==
    ASSUME IsEdit(edit), edit.kind = "type", strategy \in Offers(edit),
           CanHold(edit, before)
    PROVE  AsChosen(Repaired) /\ AsChosen(Final)
<1>0. Final = {Converted(edit, r) : r \in Repaired}  BY DEF Final
<1>1. ASSUME {RestOf(r) : r \in Repaired} = {RestOf(r) : r \in before}
      PROVE  {RestOf(r) : r \in Final} = {RestOf(r) : r \in before}
  <2>1. \A r \in Repaired : RestOf(Converted(edit, r)) = RestOf(r)
    BY ConversionTouches
  <2>2. {RestOf(r) : r \in Final} = {RestOf(r) : r \in Repaired}  BY <1>0, <2>1
  <2> QED  BY <1>1, <2>2
<1>2. CASE strategy = "truncate"
  <2> DEFINE F(r) == IF r.a = <<>> THEN r
                     ELSE [r EXCEPT !.a = <<Truncated(edit, @[1])>>]
  <2>1. Repaired = {F(r) : r \in before}
    BY <1>2, RepairedRows
  <2>2. \A r \in before : RestOf(F(r)) = RestOf(r)  BY ValueIsTouched
  <2> HIDE DEF F
  <2>3. {RestOf(r) : r \in Repaired} = {RestOf(r) : r \in before}  BY <2>1, <2>2
  <2> QED  BY <1>1, <1>2, <2>3 DEF AsChosen
<1>3. CASE strategy = "setToValue"
  <2> DEFINE F(r) == IF r.a # <<>> /\ ViolationPredicate(edit, r.a[1])
                     THEN [r EXCEPT !.a = <<0>>] ELSE r
  <2>1. Repaired = {F(r) : r \in before}
    BY <1>3, RepairedRows
  <2>2. \A r \in before : RestOf(F(r)) = RestOf(r)  BY ValueIsTouched
  <2> HIDE DEF F
  <2>3. {RestOf(r) : r \in Repaired} = {RestOf(r) : r \in before}  BY <2>1, <2>2
  <2> QED  BY <1>1, <1>3, <2>3 DEF AsChosen
<1>4. CASE strategy \in {"delete", "proceed"}
  <2>1. Repaired \subseteq before
    BY <1>4, RepairedRows
  <2>2. \A r \in Repaired : Converted(edit, r) = r
    <3> TAKE r \in Repaired
    <3>1. CASE Narrowing(edit) # "numericScale"  BY <2>1, <3>1, ConversionKeeps
    <3>2. CASE Narrowing(edit) = "numericScale"
      <4>1. strategy = "delete"  BY <1>4, <3>2, ChoicesByKind
      <4>2. ~(r.a # <<>> /\ ViolationPredicate(edit, r.a[1]))
        BY <4>1, RepairedRows
      <4>3. r.a # <<>> => r.a[1] = Round(r.a[1], edit.to.s)
        BY <3>2, <4>2 DEF ViolationPredicate
      <4> QED  BY <2>1, <4>3, ConversionKeeps
    <3> QED  BY <3>1, <3>2
  <2>3. Final \subseteq before  BY <1>0, <2>1, <2>2
  <2> QED  BY <1>4, <2>1, <2>3 DEF AsChosen
<1> QED  BY <1>2, <1>3, <1>4, ChoicesByKind

\* A new constraint leaves the rows that it accepts.
LEMMA AcceptedRowsStay ==
    ASSUME IsEdit(edit), edit.kind # "type", strategy \in Offers(edit),
           NEW r \in before, Innocent(edit, r), ~KnownVictims(edit, r)
    PROVE  r \in Repaired
<1>1. CASE edit.kind = "unique"
  <2>1. CASE ~UsableKey(edit)  BY <1>1, <2>1, RepairedRows
  <2>2. CASE UsableKey(edit)
    <3> DEFINE Group == {s \in before : KeyOf(s, edit.cols) = KeyOf(r, edit.cols)}
               keep == IF strategy = "keepLast" THEN "last" ELSE "first"
    <3>1. ~HasNull(r, edit.cols)  BY <1>1 DEF KnownVictims
    <3>2. IsKept(edit, r, Group, keep)  BY <1>1, <2>2, <3>1 DEF Innocent
    <3>3. Repaired = {t \in before :
              IsKept(edit, t, {s \in before : KeyOf(s, edit.cols) = KeyOf(t, edit.cols)},
                     keep)}
      BY <1>1, <2>2, RepairedRows
    <3> HIDE DEF keep
    <3> QED  BY <3>2, <3>3
  <2> QED  BY <2>1, <2>2
<1>2. CASE edit.kind = "foreign"
  <2>1. ~edit.self  BY <1>2 DEF KnownVictims
  <2>2. \/ HasNull(r, edit.cols) /\ strategy = "nullify" /\ ~(Len(edit.cols) > 1)
        \/ KeyOf(r, edit.cols) \in parents
    <3>1. \/ HasNull(r, edit.cols)
          \/ KeyOf(r, edit.cols) \in parents
      BY <1>2, <2>1 DEF Innocent, ReferredKeys
    <3>2. HasNull(r, edit.cols) => strategy # "delete" /\ ~(Len(edit.cols) > 1)
      BY <1>2 DEF KnownVictims
    <3> QED  BY <1>2, <3>1, <3>2, ChoicesByKind
  <2>3. NotExists(edit, before, r) <=> KeyOf(r, edit.cols) \notin parents
    BY <2>1 DEF NotExists
  <2>4. CASE strategy = "nullify"
    <3>1. Repaired = {IF IsOrphan(edit, before, s) THEN WithNulls(s, ToSet(edit.cols))
                      ELSE s : s \in before}
      BY <1>2, <2>4, RepairedRows
    <3>2. ~IsOrphan(edit, before, r)
      <4>1. CASE KeyOf(r, edit.cols) \in parents  BY <2>3, <4>1 DEF IsOrphan
      <4>2. CASE HasNull(r, edit.cols) /\ ~(Len(edit.cols) > 1)
        <5>1. edit.cols \in Seq(ToSet(Columns))  BY <1>2 DEF IsEdit
        <5>2. PICK i \in DOMAIN edit.cols : r[edit.cols[i]] = <<>>
          BY <4>2 DEF HasNull
        <5>3. \A j \in DOMAIN edit.cols : j = i  BY <4>2, <5>1
        <5>4. \A c \in ToSet(edit.cols) : r[c] = <<>>  BY <5>2, <5>3 DEF ToSet
        <5> QED  BY <5>4 DEF IsOrphan
      <4> QED  BY <2>2, <4>1, <4>2
    <3> QED  BY <3>1, <3>2
  <2>5. CASE strategy = "delete"
    <3>1. Repaired = {s \in before : ~NotExists(edit, before, s)}
      BY <1>2, <2>5, RepairedRows
    <3> QED  BY <2>2, <2>3, <2>5, <3>1
  <2> QED  BY <1>2, <2>4, <2>5, ChoicesByKind
<1>3. CASE edit.kind = "check"
  <2>1. ~IsFalse(CheckOf(edit), r, edit.classes)  BY <1>3 DEF Innocent, Satisfied
  <2>2. CASE strategy = "nullify"
    <3>1. Repaired = {IF IsFalse(CheckOf(edit), s, edit.classes)
                      THEN WithNulls(s, {CheckTarget(edit)[1]}) ELSE s : s \in before}
      BY <1>3, <2>2, RepairedRows
    <3> QED  BY <2>1, <3>1
  <2>3. CASE strategy = "delete"
    <3>1. Repaired = {s \in before : ~IsFalse(CheckOf(edit), s, edit.classes)}
      BY <1>3, <2>3, RepairedRows
    <3> QED  BY <2>1, <3>1
  <2> QED  BY <1>3, <2>2, <2>3, ChoicesByKind
<1>4. CASE edit.kind \in {"replace", "cascade"}
  BY <1>4, RepairedRows
<1> QED  BY <1>1, <1>2, <1>3, <1>4, Kinds

LEMMA InvConfines == RowInv => RepairsAreConfined
<1> SUFFICES ASSUME RowInv PROVE RepairsAreConfined
  OBVIOUS
<1>1. IsEdit(edit)  BY InUse DEF RowInv
<1>2. Deployed => /\ strategy \in Offers(edit) /\ CanHold(edit, before)
                  /\ parsed = ReadCheck(TextOf(edit))
  BY InUse DEF RowInv, Settled, Deployed
<1>3. InnocentRowsAreSpared
  <2> SUFFICES ASSUME phase = "applied", NEW r \in before, Innocent(edit, r),
                      ~KnownVictims(edit, r)
               PROVE  r \in rows
    BY DEF InnocentRowsAreSpared
  <2>1. rows = Final /\ Deployed  BY DEF RowInv, RowsFollow, Deployed
  <2>2. CASE edit.kind = "type"
    <3>1. r.a # <<>> => Storable(edit.to, r.a[1])  BY <2>2 DEF Innocent, Satisfied
    <3> QED  BY <1>1, <1>2, <2>1, <2>2, <3>1, FittingRowsStay
  <2>3. CASE edit.kind # "type"
    BY <1>1, <1>2, <2>1, <2>3, AcceptedRowsStay DEF Final
  <2> QED  BY <2>2, <2>3
<1>4. AsChosen(rows)
  <2>1. CASE ~Deployed
    BY <2>1 DEF AsChosen, RowInv, Settled
  <2>2. CASE Deployed
    <3>1. AsChosen(before)  BY DEF AsChosen
    <3>2. AsChosen(Repaired) /\ AsChosen(Final)
      <4>1. CASE edit.kind = "type"
        BY <1>1, <1>2, <2>2, <4>1, NarrowingIsAsChosen
      <4>2. CASE edit.kind # "type"
        BY <1>1, <1>2, <2>2, <4>2, ConstraintRepairIsAsChosen DEF Final
      <4> QED  BY <4>1, <4>2
    <3>3. rows = before \/ rows = Repaired \/ rows = Final
      BY <2>2 DEF RowInv, RowsFollow, Deployed
    <3> QED  BY <3>1, <3>2, <3>3
  <2> QED  BY <2>1, <2>2
<1>5. RepairIsAsChosen
  BY <1>4 DEF RepairIsAsChosen, AsChosen, RestOf, Touched
<1> QED  BY <1>3, <1>5 DEF RepairsAreConfined

\* Whatever the change, the rows, the analysis of CHECKs and the backend: a
\* migration that is applied leaves every row that the constraint or the type
\* accepts, and a repair changes the columns it is for or removes rows, as the
\* author chose, at every moment of the migration and after its failure.
THEOREM RepairsStayConfined == Spec => []RepairsAreConfined
<1> QED  BY RowInvStays, InvConfines, PTL

----------------------------------------------------------------------------
(* What a repair achieves.                                                 *)

LEMMA DigitCounts ==
    ASSUME NEW e, IsEdit(e), e.kind = "type", e.to.kind = "numeric"
    PROVE  /\ e.from.kind = "numeric"
           /\ IntDigits(e.from) \in 0..6 /\ IntDigits(e.to) \in 0..6
           /\ e.from.s \in 0..Hundredths /\ e.to.s \in 0..Hundredths
<1>1. e.from.kind = "numeric" /\ IsType(e.from) /\ IsType(e.to)
  BY FamilyOfTypes
<1> QED  BY <1>1, Powers DEF IsType, IntDigits, Hundredths

\* A value of the old type is one of the new type when nothing is narrower.
LEMMA WiderTypesHold ==
    ASSUME NEW e, IsEdit(e), e.kind = "type", NEW v \in Int, Storable(e.from, v),
           Narrowing(e) = "none"
    PROVE  Storable(e.to, v)
<1>1. CASE {e.from.kind, e.to.kind} \subseteq {"varchar", "char", "text"}
  <2>1. CASE e.to.kind = "text"  BY <2>1, Ranks DEF Storable
  <2>2. CASE e.to.kind # "text"
    <3>1. e.from.kind \in {"varchar", "char"} /\ ~(e.to.n < e.from.n)
      BY <1>1, <2>2, Ranks DEF Narrowing, NarrowingKind
    <3>2. e.from.n \in Nat /\ e.to.n \in Nat
      BY <1>1, <2>2, <3>1, FamilyOfTypes DEF IsType
    <3>3. v <= e.from.n  BY <3>1, Ranks DEF Storable
    <3>4. v <= e.to.n  BY <3>1, <3>2, <3>3
    <3> QED  BY <1>1, <2>2, <3>4, Ranks DEF Storable
  <2> QED  BY <2>1, <2>2
<1>2. CASE e.from.kind = "numeric" /\ e.to.kind = "numeric"
  <2>1. /\ IntDigits(e.from) \in 0..6 /\ IntDigits(e.to) \in 0..6
        /\ e.from.s \in 0..Hundredths /\ e.to.s \in 0..Hundredths
    BY <1>2, DigitCounts
  <2>2. ~(e.to.s < e.from.s) /\ ~(IntDigits(e.to) < IntDigits(e.from))
    BY <1>2, Narrowings
  <2>3. v = Round(v, e.from.s) /\ Magnitude(v) < TenPow(IntDigits(e.from))
    BY <1>2, Ranks DEF Storable
  <2>4. e.from.s <= e.to.s  BY <2>1, <2>2 DEF Hundredths
  <2>5. v = Round(v, e.to.s)  BY <2>1, <2>3, <2>4, Rounding
  <2>6. TenPow(IntDigits(e.from)) <= TenPow(IntDigits(e.to))
    BY <2>1, <2>2, Powers
  <2>7. Magnitude(v) < TenPow(IntDigits(e.to))
    BY <2>1, <2>3, <2>6, Magnitudes, Powers
  <2> QED  BY <1>2, <2>5, <2>7, Ranks DEF Storable
<1>3. CASE {e.from.kind, e.to.kind} \subseteq {"small_int", "integer", "big_int"}
  <2>1. ~(Rank(e.to.kind) < Rank(e.from.kind))
    BY <1>3, Ranks DEF Narrowing, NarrowingKind
  <2>2. Rank(e.from.kind) \in 1..3 /\ Rank(e.to.kind) \in 1..3
    BY <1>3, Ranks
  <2>3. -Rank(e.from.kind) - 1 <= v /\ v <= Rank(e.from.kind)
    BY <1>3, Ranks DEF Storable, IntegerBounds
  <2>4. -Rank(e.to.kind) - 1 <= v /\ v <= Rank(e.to.kind)
    BY <2>1, <2>2, <2>3
  <2> QED  BY <1>3, <2>4, Ranks DEF Storable, IntegerBounds
<1>4. CASE {e.from.kind, e.to.kind} \subseteq {"real", "double_precision"}
  BY <1>4, Ranks DEF Storable, Narrowing, NarrowingKind
<1>5. CASE {e.from.kind, e.to.kind} \subseteq {"timestamp", "timestamptz"}
  BY <1>5, Ranks DEF Storable, Narrowing, NarrowingKind
<1> QED  BY <1>1, <1>2, <1>3, <1>4, <1>5, FamilyOfTypes

\* What a narrowing is about.
Repairable == {"length", "numericScale", "numericIntegerDigits", "integerSize"}

\* A value that no WHERE clause selects is one of the new type, unless decimals
\* lose digits on both sides of the point.
LEMMA UnselectedValuesFit ==
    ASSUME NEW e, IsEdit(e), e.kind = "type", NEW v \in Int, Storable(e.from, v),
           Narrowing(e) \in Repairable, ~ViolationPredicate(e, v),
           ~(Narrowing(e) = "numericScale" /\ Shrinks(e))
    PROVE  Storable(e.to, v)
<1>1. CASE Narrowing(e) = "length"
  <2>1. e.to.kind \in {"varchar", "char"} /\ e.to.n \in Nat
    BY <1>1, Narrowings, FamilyOfTypes DEF IsType
  <2>2. v <= e.to.n  BY <1>1, <2>1 DEF ViolationPredicate
  <2> QED  BY <2>1, <2>2, Ranks DEF Storable
<1>2. CASE Narrowing(e) \in {"numericScale", "numericIntegerDigits"}
  <2>1. e.from.kind = "numeric" /\ e.to.kind = "numeric"  BY <1>2, Narrowings
  <2>2. /\ IntDigits(e.from) \in 0..6 /\ IntDigits(e.to) \in 0..6
        /\ e.from.s \in 0..Hundredths /\ e.to.s \in 0..Hundredths
    BY <2>1, DigitCounts
  <2>3. v = Round(v, e.from.s) /\ Magnitude(v) < TenPow(IntDigits(e.from))
    BY <2>1, Ranks DEF Storable
  <2>4. v = Round(v, e.to.s)
    <3>1. CASE Narrowing(e) = "numericScale"  BY <3>1 DEF ViolationPredicate
    <3>2. CASE Narrowing(e) # "numericScale"
      <4>1. e.from.s <= e.to.s  BY <2>1, <2>2, <3>2, Narrowings DEF Hundredths
      <4> QED  BY <2>2, <2>3, <4>1, Rounding
    <3> QED  BY <3>1, <3>2
  <2>5. Magnitude(v) < TenPow(IntDigits(e.to))
    <3>1. CASE Narrowing(e) = "numericScale"
      <4>1. IntDigits(e.from) <= IntDigits(e.to)  BY <2>2, <3>1 DEF Shrinks
      <4>2. TenPow(IntDigits(e.from)) <= TenPow(IntDigits(e.to))
        BY <2>2, <4>1, Powers
      <4> QED  BY <2>2, <2>3, <4>2, Powers, Magnitudes
    <3>2. CASE Narrowing(e) = "numericIntegerDigits"
      <4>1. ~(Magnitude(v) >= TenPow(IntDigits(e.to)))
        BY <3>2 DEF ViolationPredicate
      <4> QED  BY <2>2, <4>1, Powers, Magnitudes
    <3> QED  BY <1>2, <3>1, <3>2
  <2> QED  BY <2>1, <2>4, <2>5, Ranks DEF Storable
<1>3. CASE Narrowing(e) = "integerSize"
  <2>1. e.to.kind \in {"small_int", "integer", "big_int"}  BY <1>3, Narrowings
  <2>2. Rank(e.to.kind) \in 1..3  BY <2>1, Ranks
  <2>3. ~(v > Rank(e.to.kind)) /\ ~(v < -Rank(e.to.kind) - 1)
    BY <1>3 DEF ViolationPredicate, IntegerBounds
  <2>4. -Rank(e.to.kind) - 1 <= v /\ v <= Rank(e.to.kind)  BY <2>2, <2>3
  <2> QED  BY <2>1, <2>4, Ranks DEF Storable, IntegerBounds
<1> QED  BY <1>1, <1>2, <1>3 DEF Repairable

\* The value that replaces others fits.
LEMMA ZeroFits ==
    ASSUME NEW e, IsEdit(e), e.kind = "type", Narrowing(e) \in Repairable
    PROVE  Storable(e.to, 0)
<1>1. CASE Narrowing(e) = "length"
  <2>1. e.to.kind \in {"varchar", "char"} /\ e.to.n \in Nat
    BY <1>1, Narrowings, FamilyOfTypes DEF IsType
  <2> QED  BY <2>1, Ranks DEF Storable
<1>2. CASE Narrowing(e) \in {"numericScale", "numericIntegerDigits"}
  <2>1. e.to.kind = "numeric"  BY <1>2, Narrowings
  <2>2. IntDigits(e.to) \in 0..6 /\ e.to.s \in 0..Hundredths
    BY <2>1, DigitCounts
  <2>3. 0 = Round(0, e.to.s)  BY <2>2, Rounding
  <2>4. Magnitude(0) < TenPow(IntDigits(e.to))  BY <2>2, Powers, Magnitudes
  <2> QED  BY <2>1, <2>3, <2>4, Ranks DEF Storable
<1>3. CASE Narrowing(e) = "integerSize"
  <2>1. e.to.kind \in {"small_int", "integer", "big_int"}  BY <1>3, Narrowings
  <2>2. -Rank(e.to.kind) - 1 <= 0 /\ 0 <= Rank(e.to.kind)  BY <2>1, Ranks
  <2> QED  BY <2>1, <2>2, Ranks DEF Storable, IntegerBounds
<1> QED  BY <1>1, <1>2, <1>3 DEF Repairable

\* A shortened string fits, and a rounded decimal does unless it gets a digit
\* more.
LEMMA TruncatedValuesFit ==
    ASSUME NEW e, IsEdit(e), e.kind = "type", NEW v \in Int,
           Narrowing(e) \in {"length", "numericScale"},
           Narrowing(e) = "numericScale" =>
              ~(Magnitude(Round(v, e.to.s)) >= TenPow(IntDigits(e.to)))
    PROVE  Storable(e.to, Truncated(e, v))
<1>1. CASE Narrowing(e) = "length"
  <2>1. e.to.kind \in {"varchar", "char"} /\ e.to.n \in Nat
    BY <1>1, Narrowings, FamilyOfTypes DEF IsType
  <2>2. Truncated(e, v) <= e.to.n  BY <1>1, <2>1 DEF Truncated
  <2> QED  BY <2>1, <2>2, Ranks DEF Storable
<1>2. CASE Narrowing(e) = "numericScale"
  <2>1. e.to.kind = "numeric"  BY <1>2, Narrowings
  <2>2. IntDigits(e.to) \in 0..6 /\ e.to.s \in 0..Hundredths
    BY <2>1, DigitCounts
  <2> DEFINE w == Round(v, e.to.s)
  <2>3. w \in Int /\ w = Round(w, e.to.s)  BY <2>2, Rounding
  <2>4. Truncated(e, v) = w  BY <1>2 DEF Truncated
  <2> HIDE DEF w
  <2>5. Magnitude(w) < TenPow(IntDigits(e.to))
    <3>1. ~(Magnitude(w) >= TenPow(IntDigits(e.to)))  BY <1>2 DEF w
    <3> QED  BY <2>2, <2>3, <3>1, Powers, Magnitudes
  <2> QED  BY <2>1, <2>3, <2>4, <2>5, Ranks DEF Storable
<1> QED  BY <1>1, <1>2

LEMMA SetValue ==
    ASSUME NEW r, IsRow(r), NEW v \in Int
    PROVE  [r EXCEPT !.a = <<v>>].a = <<v>> /\ IsRow([r EXCEPT !.a = <<v>>])
<1> DEFINE w == [r EXCEPT !.a = <<v>>]
<1>1. w.a = <<v>>  BY ColumnNames DEF IsRow
<1>2. \A c \in ToSet(Columns) : w[c] \in Seq(Int) /\ Len(w[c]) <= 1
  <2> TAKE c \in ToSet(Columns)
  <2>1. CASE c = "a"
    <3>1. <<v>> \in Seq(Int) /\ Len(<<v>>) <= 1  OBVIOUS
    <3> QED  BY <1>1, <2>1, <3>1
  <2>2. CASE c # "a"
    <3>1. w[c] = r[c]  BY <2>2 DEF IsRow
    <3> QED  BY <3>1 DEF IsRow
  <2> QED  BY <2>1, <2>2
<1>3. w \in [ToSet(Columns) -> Seq(Int)]  BY <1>2 DEF IsRow
<1> QED  BY <1>1, <1>2, <1>3 DEF IsRow

\* After the repair of a narrowing every value fits, and stays when the type
\* is changed.
LEMMA NarrowingFits ==
    ASSUME IsEdit(edit), edit.kind = "type", CanHold(edit, before),
           strategy \in Offers(edit), ~KnownGaps(edit)
    PROVE  Satisfied(edit, Final)
<1> DEFINE Fits(r) == /\ IsRow(r)
                      /\ r.a # <<>> => r.a[1] \in Int /\ Storable(edit.to, r.a[1])
<1>1. \A r \in before : /\ IsRow(r)
                        /\ r.a # <<>> => r.a[1] \in Int /\ Storable(edit.from, r.a[1])
  BY OptionValues, ColumnNames DEF CanHold
<1>2. ~(Narrowing(edit) = "numericScale" /\ Shrinks(edit))  BY DEF KnownGaps
<1>3. strategy # "proceed" => Narrowing(edit) \in Repairable
  BY ChoicesByKind, Narrowings DEF Repairable
<1>4. \A r \in Repaired : Fits(r)
  <2>1. CASE strategy = "proceed"
    <3>1. Repaired = before /\ Narrowing(edit) = "none"
      BY <2>1, ChoicesByKind, RepairedRows
    <3> QED  BY <1>1, <3>1, WiderTypesHold
  <2>2. CASE strategy = "truncate"
    <3>1. Repaired = {IF s.a = <<>> THEN s
                      ELSE [s EXCEPT !.a = <<Truncated(edit, @[1])>>] : s \in before}
      BY <2>2, RepairedRows
    <3>2. Narrowing(edit) \in {"length", "numericScale"}  BY <2>2, ChoicesByKind
    <3>3. ASSUME NEW s \in before, s.a # <<>>
          PROVE  /\ Storable(edit.to, Truncated(edit, s.a[1]))
                 /\ Truncated(edit, s.a[1]) \in Int
      <4>1. s.a[1] \in Int  BY <1>1, <3>3
      <4>2. Narrowing(edit) = "numericScale" =>
               ~(Magnitude(Round(s.a[1], edit.to.s)) >= TenPow(IntDigits(edit.to)))
        BY <2>2, <3>3 DEF KnownGaps
      <4>3. Storable(edit.to, Truncated(edit, s.a[1]))
        BY <3>2, <4>1, <4>2, TruncatedValuesFit
      <4>4. CASE Narrowing(edit) = "length"
        <5>1. edit.to.n \in Nat
          BY <4>4, Narrowings, FamilyOfTypes DEF IsType
        <5> QED  BY <4>1, <4>3, <4>4, <5>1 DEF Truncated
      <4>5. CASE Narrowing(edit) = "numericScale"
        <5>1. edit.to.s \in 0..Hundredths  BY <4>5, Narrowings, DigitCounts
        <5> QED  BY <4>1, <4>3, <4>5, <5>1, Rounding DEF Truncated
      <4> QED  BY <3>2, <4>4, <4>5
    <3>4. ASSUME NEW s \in before, s.a # <<>>
          PROVE  Fits([s EXCEPT !.a = <<Truncated(edit, @[1])>>])
      <4> DEFINE w == [s EXCEPT !.a = <<Truncated(edit, s.a[1])>>]
      <4>1. w.a = <<Truncated(edit, s.a[1])>> /\ IsRow(w)
        BY <1>1, <3>3, <3>4, SetValue
      <4> QED  BY <3>3, <3>4, <4>1
    <3>5. ASSUME NEW s \in before, s.a = <<>> PROVE Fits(s)
      BY <1>1, <3>5
    <3> HIDE DEF Fits
    <3> QED  BY <3>1, <3>4, <3>5
  <2>3. CASE strategy = "delete"
    <3>1. Repaired = {s \in before : ~(s.a # <<>> /\ ViolationPredicate(edit, s.a[1]))}
      BY <2>3, RepairedRows
    <3>2. Narrowing(edit) \in Repairable  BY <1>3, <2>3
    <3> QED  BY <1>1, <1>2, <3>1, <3>2, UnselectedValuesFit
  <2>4. CASE strategy = "setToValue"
    <3>1. Repaired = {IF s.a # <<>> /\ ViolationPredicate(edit, s.a[1])
                      THEN [s EXCEPT !.a = <<0>>] ELSE s : s \in before}
      BY <2>4, RepairedRows
    <3>2. Narrowing(edit) \in Repairable  BY <1>3, <2>4
    <3>3. ASSUME NEW s \in before PROVE Fits([s EXCEPT !.a = <<0>>])
      <4>1. [s EXCEPT !.a = <<0>>].a = <<0>> /\ IsRow([s EXCEPT !.a = <<0>>])
        BY <1>1, SetValue
      <4> QED  BY <3>2, <4>1, ZeroFits
    <3>4. ASSUME NEW s \in before, ~(s.a # <<>> /\ ViolationPredicate(edit, s.a[1]))
          PROVE  Fits(s)
      BY <1>1, <1>2, <3>2, <3>4, UnselectedValuesFit
    <3> HIDE DEF Fits
    <3> QED  BY <3>1, <3>3, <3>4
  <2> QED  BY <2>1, <2>2, <2>3, <2>4, ChoicesByKind
<1>5. \A r \in Repaired : Converted(edit, r) = r
  <2> TAKE r \in Repaired
  <2>1. CASE backend = "sqlite" \/ edit.to.kind # "numeric" \/ r.a = <<>>
    BY <2>1 DEF Converted
  <2>2. CASE edit.to.kind = "numeric" /\ r.a # <<>> /\ backend # "sqlite"
    <3>1. r.a[1] = Round(r.a[1], edit.to.s)  BY <1>4, <2>2, Ranks DEF Storable
    <3>2. [r EXCEPT !.a = <<Round(@[1], edit.to.s)>>] = r
      BY <1>4, <2>2, <3>1, SameValue
    <3> QED  BY <3>2 DEF Converted
  <2> QED  BY <2>1, <2>2
<1>6. \A r \in Final : Fits(r)
  <2>1. Final = {Converted(edit, r) : r \in Repaired}  BY DEF Final
  <2> QED  BY <1>4, <1>5, <2>1
<1> QED  BY <1>6 DEF Satisfied

\* Of duplicates one row stays; no row refers to a parent that is missing; no
\* row fails a CHECK.
LEMMA ConstraintFits ==
    ASSUME IsEdit(edit), edit.kind # "type", CanHold(edit, before),
           strategy \in Offers(edit), parsed = ReadCheck(TextOf(edit)),
           ~KnownGaps(edit)
    PROVE  Satisfied(edit, Repaired)
<1>1. CASE edit.kind = "unique"
  <2> DEFINE Group(r) == {s \in before : KeyOf(s, edit.cols) = KeyOf(r, edit.cols)}
             keep == IF strategy = "keepLast" THEN "last" ELSE "first"
             k == edit.key[1]
  <2>1. UsableKey(edit)  BY <1>1 DEF KnownGaps
  <2>2. k \in ToSet(Columns)
    <3>1. edit.key \in Seq(ToSet(Columns)) /\ Len(edit.key) = 1
      BY <1>1, <2>1 DEF IsEdit, UsableKey
    <3> QED  BY <3>1
  <2>3. Repaired = {r \in before : IsKept(edit, r, Group(r), keep)}
    BY <1>1, <2>1, RepairedRows
  <2>4. ASSUME NEW r \in Repaired, NEW s \in Repaired,
               KeyOf(r, edit.cols) = KeyOf(s, edit.cols)
        PROVE  r = s
    <3>1. r \in before /\ s \in before /\ r \in Group(s) /\ s \in Group(r)
      BY <2>3, <2>4
    <3>2. IsKept(edit, r, Group(r), keep) /\ IsKept(edit, s, Group(s), keep)
      BY <2>3
    <3>3. IsRow(r) /\ IsRow(s) /\ r[k] # <<>> /\ s[k] # <<>>
          /\ (r[k] = s[k] => r = s)
      BY <1>1, <2>1, <3>1 DEF CanHold
    <3>4. /\ r[k] = <<r[k][1]>> /\ r[k][1] \in Int
          /\ s[k] = <<s[k][1]>> /\ s[k][1] \in Int
      BY <2>2, <3>3, OptionValues
    <3>5. r[k][1] <= s[k][1] /\ s[k][1] <= r[k][1]
      <4> HIDE DEF Group, keep
      <4>1. CASE keep = "first"  BY <3>1, <3>2, <4>1 DEF IsKept
      <4>2. CASE keep # "first"  BY <3>1, <3>2, <4>2 DEF IsKept
      <4> QED  BY <4>1, <4>2
    <3>6. r[k][1] = s[k][1]  BY <3>4, <3>5
    <3>7. r[k] = s[k]  BY <3>4, <3>6
    <3> QED  BY <3>3, <3>7
  <2> QED  BY <1>1, <2>4 DEF Satisfied
<1>2. CASE edit.kind = "foreign"
  <2>1. ~edit.self  BY <1>2 DEF KnownGaps
  <2>2. ReferredKeys(edit, Repaired) = parents  BY <2>1 DEF ReferredKeys
  <2>3. edit.cols \in Seq(ToSet(Columns)) /\ edit.cols # <<>>
    BY <1>2 DEF IsEdit
  <2>4. 1 \in DOMAIN edit.cols /\ edit.cols[1] \in ToSet(edit.cols)
    BY <2>3 DEF ToSet
  <2>5. \A r : NotExists(edit, before, r) <=> KeyOf(r, edit.cols) \notin parents
    BY <2>1 DEF NotExists
  <2>6. \A r \in Repaired : HasNull(r, edit.cols) \/ KeyOf(r, edit.cols) \in parents
    <3>1. CASE strategy = "nullify"
      <4>1. Repaired = {IF IsOrphan(edit, before, s) THEN WithNulls(s, ToSet(edit.cols))
                        ELSE s : s \in before}
        BY <1>2, <3>1, RepairedRows
      <4>2. ASSUME NEW s \in before
            PROVE  HasNull(WithNulls(s, ToSet(edit.cols)), edit.cols)
        <5>1. edit.cols[1] \in DOMAIN s
          BY <2>3 DEF CanHold, IsRow
        <5>2. WithNulls(s, ToSet(edit.cols))[edit.cols[1]] = <<>>
          BY <2>4, <5>1 DEF WithNulls
        <5> QED  BY <2>4, <5>2 DEF HasNull
      <4>3. ASSUME NEW s \in before, ~IsOrphan(edit, before, s)
            PROVE  HasNull(s, edit.cols) \/ KeyOf(s, edit.cols) \in parents
        BY <2>4, <2>5, <4>3 DEF IsOrphan, HasNull
      <4> QED  BY <4>1, <4>2, <4>3
    <3>2. CASE strategy = "delete"
      <4>1. Repaired = {s \in before : ~NotExists(edit, before, s)}
        BY <1>2, <3>2, RepairedRows
      <4> QED  BY <2>5, <4>1
    <3> QED  BY <1>2, <3>1, <3>2, ChoicesByKind
  <2> QED  BY <1>2, <2>2, <2>6 DEF Satisfied
<1>3. CASE edit.kind = "check"
  <2>1. ~IllTyped(edit)  BY DEF KnownGaps
  <2>2. CheckOf(edit) = edit.expr  BY <1>3 DEF CheckOf
  <2>3. \A r \in Repaired : ~IsFalse(edit.expr, r, edit.classes)
    <3>1. CASE strategy = "nullify"
      <4> DEFINE c == CheckTarget(edit)[1]
      <4>1. c \in ToSet(TargetColumn(ReadCheck(TextOf(edit))))
        <5>1. CheckTarget(edit) \in Seq(ToSet(Columns)) /\ CheckTarget(edit) # <<>>
          BY <1>3, <3>1 DEF IsEdit, CheckTarget, Offers, CheckChoices
        <5>2. 1 \in DOMAIN CheckTarget(edit)  BY <5>1
        <5> QED  BY <5>2 DEF ToSet, CheckTarget
      <4>2. Repaired = {IF IsFalse(edit.expr, s, edit.classes)
                        THEN WithNulls(s, {c}) ELSE s : s \in before}
        BY <1>3, <2>2, <3>1, RepairedRows
      <4> HIDE DEF c
      <4>3. \A s \in before : ~IsFalse(edit.expr, WithNulls(s, {c}), edit.classes)
        BY <1>3, <4>1 DEF CanHold
      <4> QED  BY <4>2, <4>3
    <3>2. CASE strategy = "delete"
      <4>1. Repaired = {s \in before : ~IsFalse(edit.expr, s, edit.classes)}
        BY <1>3, <2>2, <3>2, RepairedRows
      <4> QED  BY <4>1
    <3> QED  BY <1>3, <3>1, <3>2, ChoicesByKind
  <2> QED  BY <1>3, <2>1, <2>2, <2>3 DEF Satisfied
<1>4. CASE edit.kind = "replace"
  BY <1>4 DEF KnownGaps
<1>5. CASE edit.kind = "cascade"
  BY <1>5 DEF Satisfied
<1> QED  BY <1>1, <1>2, <1>3, <1>4, <1>5, Kinds

LEMMA RowsFit ==
    ASSUME RowInv, Deployed, ~KnownGaps(edit)
    PROVE  Satisfied(edit, Final)
<1>1. /\ IsEdit(edit) /\ CanHold(edit, before)
      /\ strategy \in Offers(edit) /\ parsed = ReadCheck(TextOf(edit))
  BY InUse DEF RowInv, Settled, Deployed
<1>2. CASE edit.kind = "type"  BY <1>1, <1>2, NarrowingFits
<1>3. CASE edit.kind # "type"  BY <1>1, <1>3, ConstraintFits DEF Final
<1> QED  BY <1>2, <1>3

----------------------------------------------------------------------------
(* No database rejects a statement of a repair.                            *)

\* The statement that changes the rows.
LEMMA RepairIsAccepted ==
    ASSUME IsEdit(edit), strategy \in Offers(edit), HasRepair(edit, strategy),
           parsed = ReadCheck(TextOf(edit)), ~KnownGaps(edit)
    PROVE  ~Rejects(edit, RepairOf(edit, strategy))
<1> DEFINE stmt == RepairOf(edit, strategy)
<1>1. ~IllTyped(edit)  BY DEF KnownGaps
<1>2. stmt.op \notin {"addConstraint", "validate", "alterType"}
  <2>1. CASE edit.kind = "unique"  BY <2>1 DEF RepairOf
  <2>2. CASE edit.kind = "foreign"  BY <2>2 DEF RepairOf, Statement
  <2>3. CASE edit.kind = "check"  BY <2>3 DEF RepairOf, Statement
  <2>4. CASE edit.kind = "type"
    BY <2>4 DEF RepairOf, Statement, HasRepair, NarrowingStrategy
  <2> QED  BY <2>1, <2>2, <2>3, <2>4, Kinds DEF HasRepair
<1>3. ~(backend = "mysql" /\ ReadsItsTarget(edit, stmt))
  <2>1. CASE edit.kind = "unique"  BY <2>1 DEF HasRepair, KnownGaps
  <2>2. CASE edit.kind = "foreign"
    BY <2>2 DEF KnownGaps, ReadsItsTarget, RepairOf, Statement
  <2>3. CASE edit.kind = "check"  BY <2>3 DEF ReadsItsTarget, RepairOf, Statement
  <2>4. CASE edit.kind = "type"
    BY <2>4 DEF ReadsItsTarget, RepairOf, Statement, HasRepair, NarrowingStrategy
  <2> QED  BY <2>1, <2>2, <2>3, <2>4, Kinds DEF HasRepair
<1>4. SetsNull(edit, stmt) = {} \/ SetsNull(edit, stmt) \subseteq edit.nullable
  <2>1. CASE edit.kind = "unique"  BY <2>1 DEF SetsNull, RepairOf
  <2>2. CASE edit.kind = "foreign"
    <3>1. CASE strategy = "nullify"
      <4>1. ToSet(edit.cols) \subseteq edit.nullable
        BY <2>2, <3>1 DEF Offers, OrphanChoices
      <4>2. SetsNull(edit, stmt) = ToSet(edit.cols)
        BY <2>2, <3>1 DEF SetsNull, RepairOf, Statement
      <4> QED  BY <4>1, <4>2
    <3>2. CASE strategy # "nullify"
      BY <2>2, <3>2 DEF SetsNull, RepairOf, Statement
    <3> QED  BY <3>1, <3>2
  <2>3. CASE edit.kind = "check"
    <3>1. CASE strategy = "nullify"
      <4>1. /\ ToSet(CheckTarget(edit)) \subseteq edit.nullable
            /\ CheckTarget(edit) \in Seq(ToSet(Columns)) /\ CheckTarget(edit) # <<>>
        BY <2>3, <3>1 DEF Offers, CheckChoices, IsEdit, CheckTarget
      <4>2. CheckTarget(edit)[1] \in ToSet(CheckTarget(edit))
        <5>1. 1 \in DOMAIN CheckTarget(edit)  BY <4>1
        <5> QED  BY <5>1 DEF ToSet
      <4>3. SetsNull(edit, stmt) = {CheckTarget(edit)[1]}
        BY <2>3, <3>1 DEF SetsNull, RepairOf
      <4> QED  BY <4>1, <4>2, <4>3
    <3>2. CASE strategy # "nullify"
      BY <2>3, <3>2 DEF SetsNull, RepairOf, Statement
    <3> QED  BY <3>1, <3>2
  <2>4. CASE edit.kind = "type"
    BY <2>4 DEF SetsNull, RepairOf, Statement, HasRepair, NarrowingStrategy
  <2> QED  BY <2>1, <2>2, <2>3, <2>4, Kinds DEF HasRepair
<1> HIDE DEF stmt
<1>5. ~Rejects(edit, stmt)  BY <1>1, <1>2, <1>3, <1>4 DEF Rejects
<1> QED  BY <1>5 DEF stmt

\* The statements of the constraint or of the type.
LEMMA DdlIsAccepted ==
    ASSUME NEW q \in RestsOf(edit), rows = Repaired, ~KnownGaps(edit),
           Satisfied(edit, Final)
    PROVE  ~Rejects(edit, Head(q))
<1> DEFINE stmt == Head(q)
<1>1. ~IllTyped(edit)  BY DEF KnownGaps
<1>2. /\ edit.kind = "type" => stmt.op = "alterType"
      /\ edit.kind # "type" =>
            stmt.op \in {"addConstraint", "addNotValid", "validate", "dropCheck"}
  <2>1. edit.kind = "type" => stmt = Alter  BY RestFacts
  <2>2. Alter.op = "alterType"  BY DEF Alter, Statement
  <2>3. edit.kind # "type" =>
           stmt.op \in {"addConstraint", "addNotValid", "validate", "dropCheck"}
    BY RestFacts
  <2> HIDE DEF stmt
  <2> QED  BY <2>1, <2>2, <2>3
<1>3. Updated(edit, rows, stmt) = Final
  BY UpdatedByDdl DEF Final
<1>4. edit.kind # "type" => rows = Final  BY DEF Final
<1> HIDE DEF stmt
<1>5. SetsNull(edit, stmt) = {} /\ ~ReadsItsTarget(edit, stmt)
  <2>1. stmt.op \in {"addConstraint", "addNotValid", "validate", "dropCheck",
                     "alterType"}
    BY <1>2
  <2> QED  BY <2>1 DEF SetsNull, ReadsItsTarget
<1>6. ~Rejects(edit, stmt)
  <2>1. ~(stmt.op \in {"addConstraint", "validate"} /\ ~Satisfied(edit, rows))
    BY <1>2, <1>4
  <2>2. ~(stmt.op = "alterType" /\ ~Satisfied(edit, Updated(edit, rows, stmt)))
    BY <1>3
  <2> QED  BY <1>1, <1>5, <2>1, <2>2 DEF Rejects
<1> QED  BY <1>6 DEF stmt

FailsInGaps == phase = "rejected" => KnownGaps(edit)

LEMMA FailsInGapsNext == RowInv /\ FailsInGaps /\ [Next]_vars => FailsInGaps'
<1> SUFFICES ASSUME RowInv, FailsInGaps, [Next]_vars, phase' = "rejected"
             PROVE  KnownGaps(edit)'
  BY DEF FailsInGaps
<1>1. CASE Execute
  <2>1. phase = "running" /\ Deployed  BY <1>1 DEF Execute, Deployed
  <2>2. Rejects(edit, Head(todo))  BY <1>1 DEF Execute
  <2>3. KnownGaps(edit)
    <3> SUFFICES ASSUME ~KnownGaps(edit) PROVE FALSE
      OBVIOUS
    <3>1. Satisfied(edit, Final)  BY <2>1, RowsFit
    <3>2. /\ IsEdit(edit) /\ strategy \in Offers(edit)
          /\ parsed = ReadCheck(TextOf(edit))
      BY <2>1, InUse DEF RowInv, Settled, Deployed
    <3>3. CASE rows = Repaired /\ todo \in RestsOf(edit)
      BY <2>2, <3>1, <3>3, DdlIsAccepted
    <3>4. CASE rows = before /\ todo = Statements(backend, edit, strategy) /\ todo # <<>>
      <4>1. CASE HasRepair(edit, strategy)
        <5>1. Head(todo) = RepairOf(edit, strategy)
          BY <3>2, <3>4, <4>1, RepairComesFirst
        <5> QED  BY <2>2, <3>2, <4>1, <5>1, RepairIsAccepted
      <4>2. CASE ~HasRepair(edit, strategy)
        <5>1. todo \in RestsOf(edit)  BY <3>2, <3>4, <4>2, PlanWithoutRepair
        <5>2. rows = Repaired  BY <3>4, <4>2 DEF Repaired
        <5> QED  BY <3>3, <5>1, <5>2
      <4> QED  BY <4>1, <4>2
    <3> QED  BY <2>1, <3>3, <3>4 DEF RowInv, RowsFollow
  <2> QED  BY <1>1, <2>3 DEF Execute, KnownGaps
<1>2. CASE UNCHANGED vars
  BY <1>2 DEF vars, FailsInGaps, KnownGaps
<1>3. CASE Mistype \/ Validate \/ Answer \/ Cancel \/ Deploy
  BY <1>3 DEF Mistype, Validate, Answer, Cancel, Deploy
<1> QED  BY <1>1, <1>2, <1>3 DEF Next

LEMMA InvSuffices == RowInv /\ FailsInGaps => RepairSuffices
<1> SUFFICES ASSUME RowInv, FailsInGaps, phase \in {"applied", "rejected"},
                    ~KnownGaps(edit)
             PROVE  phase = "applied" /\ Satisfied(edit, rows)
  BY DEF RepairSuffices
<1>1. phase = "applied" /\ Deployed  BY DEF FailsInGaps, Deployed
<1>2. rows = Final  BY <1>1 DEF RowInv, RowsFollow
<1> QED  BY <1>1, <1>2, RowsFit

\* Outside of the gaps that are named, every repair that the revision command
\* offers suffices: no database rejects a statement of the migration, and the
\* rows it leaves are as the constraint or the type wants them.
THEOREM RepairsMakeRowsFit == Spec => []RepairSuffices
<1>1. Init => FailsInGaps  BY DEF Init, FailsInGaps
<1> QED  BY <1>1, RowInvStays, FailsInGapsNext, InvSuffices, PTL DEF Spec
=============================================================================
