------------------------------ MODULE Repairs -------------------------------
(***************************************************************************)
(* A change of the model that the rows of a table may not fit: a new       *)
(* UNIQUE, FOREIGN KEY or CHECK, a stricter CHECK, a narrower type.  The   *)
(* author writes it, the planner refuses it or warns, the author chooses a *)
(* repair, and a database executes the statements that the SQL builder     *)
(* makes of the choice, on whatever rows it holds.                         *)
(*                                                                         *)
(* The table has the columns id, a and b.  A value is an Option; strings   *)
(* are abstracted to their length, decimals to hundredths, and integers to *)
(* their place among the bounds of the integer types.                      *)
(*                                                                         *)
(* What the planner and the databases make of a CHECK are parameters; they *)
(* are given by Checks and Warnings.                                       *)
(***************************************************************************)
EXTENDS Integers, SequencesExt

CONSTANTS Edits,         \* the changes that the author may make
          Contents(_),   \* the rows that the tables may hold when a change
                         \* of the model is applied
          CheckText(_),      \* how an expression is written
          Mistakes(_),       \* what may be written instead of a text
          ReadCheck(_),      \* the expression that the parser reads in a text
          Objections(_, _),  \* why validation refuses a change with this CHECK
          Alarms(_, _),      \* whether there are warnings without a repair
          TargetColumn(_),   \* the column of a simple CHECK, as an Option
          IsFalse(_, _, _),  \* whether a CHECK rejects a row
          IsIllTyped(_, _)   \* whether its literals are of other types

VARIABLES edit,       \* the change
          text,       \* the CHECK of the change, as it is written
          parsed,     \* the expression that the planner reads in it
          phase,
          strategy,   \* the repair that was chosen
          backend,
          before,     \* the rows when the migration starts
          parents,    \* the keys of the parent table
          rows,
          todo        \* the statements that are left

vars == <<edit, text, parsed, phase, strategy, backend, before, parents, rows, todo>>
tables == <<backend, before, parents, rows, todo>>

Columns == <<"id", "a", "b">>
Backends == {"postgres", "mysql", "sqlite"}

TextOf(e) == CASE e.kind = "check" -> CheckText(e.expr)
               [] e.kind = "replace" -> CheckText(e.new)
               [] OTHER -> <<>>

Init == /\ edit \in Edits
        /\ text = TextOf(edit)
        /\ parsed = ReadCheck(text)
        /\ phase = "edited"
        /\ strategy = "none"
        /\ backend = "none"
        /\ before = {}
        /\ parents = {}
        /\ rows = {}
        /\ todo = <<>>

----------------------------------------------------------------------------
(* Types, and what can be stored in them.                                  *)

Sized(kind, n) == [kind |-> kind, n |-> n]
Numeric(precision, scale) == [kind |-> "numeric", p |-> precision, s |-> scale]
Simple(kind) == [kind |-> kind]
IntegerKinds == <<"small_int", "integer", "big_int">>
StringKinds == {"varchar", "char", "text"}

PowersOfTen == <<1, 10, 100, 1000, 10000, 100000, 1000000>>
Hundredths == 2
Unit(scale) == PowersOfTen[Hundredths - scale + 1]
Magnitude(v) == IF v < 0 THEN -v ELSE v
Round(v, scale) ==
    LET up == ((Magnitude(v) + (Unit(scale) \div 2)) \div Unit(scale)) * Unit(scale)
    IN  IF v < 0 THEN -up ELSE up
IntDigits(type) == IF type.s > type.p THEN 0 ELSE type.p - type.s
TenPow(n) == 100 * PowersOfTen[n + 1]   \* in hundredths
Rank(kind) == SelectInSeq(IntegerKinds, LAMBDA k : k = kind)
IntegerBounds(kind) == <<-Rank(kind) - 1, Rank(kind)>>

Storable(type, v) ==
    CASE type.kind \in {"varchar", "char"} -> v <= type.n
      [] type.kind = "numeric" -> /\ v = Round(v, type.s)
                                  /\ Magnitude(v) < TenPow(IntDigits(type))
      [] type.kind \in ToSet(IntegerKinds) ->
            IntegerBounds(type.kind)[1] <= v /\ v <= IntegerBounds(type.kind)[2]
      [] type.kind \in {"real", "timestamp"} -> v = 0
      [] OTHER -> TRUE

----------------------------------------------------------------------------
(* type_narrowing.rs: the kind of a narrowing, or "none".                  *)

\* Mutant: only the scale of decimals is compared.
ComparesScaleOnly(from, to) ==
    CASE from.kind \in {"varchar", "char"} /\ to.kind \in {"varchar", "char"} ->
            IF to.n < from.n THEN "length" ELSE "none"
      [] from.kind = "text" /\ to.kind \in {"varchar", "char"} -> "length"
      [] from.kind = "numeric" /\ to.kind = "numeric" ->
            IF to.s < from.s THEN "numericScale" ELSE "none"
      [] OTHER -> "none"

NarrowingKind(from, to) ==
    CASE from.kind \in {"varchar", "char"} /\ to.kind \in {"varchar", "char"} ->
            IF to.n < from.n THEN "length" ELSE "none"
      [] from.kind = "text" /\ to.kind \in {"varchar", "char"} -> "length"
      [] from.kind = "numeric" /\ to.kind = "numeric" ->
            IF to.s < from.s THEN "numericScale"
            ELSE IF IntDigits(to) < IntDigits(from) THEN "numericIntegerDigits"
            ELSE "none"
      [] {from.kind, to.kind} \subseteq ToSet(IntegerKinds) ->
            IF Rank(to.kind) < Rank(from.kind) THEN "integerSize" ELSE "none"
      [] from.kind = "double_precision" /\ to.kind = "real" -> "floatSize"
      [] from.kind = "timestamptz" /\ to.kind = "timestamp" -> "timezone"
      [] OTHER -> "none"

Narrowing(e) == NarrowingKind(e.from, e.to)

----------------------------------------------------------------------------
(* What the planner and the revision command say of the change.            *)

Refused(e) == e.kind \in {"check", "replace"} /\ Objections(e, parsed) # {}

\* find_check_target_column
CheckTarget(e) == TargetColumn(parsed)

\* resolve_pk_kind: a key of one column that is not in the constraint.
UsableKey(e) == Len(e.key) = 1 /\ ~Contains(e.cols, e.key[1])

\* The strategies that a migration file can name.
KeepPolicy == {"keepFirst", "keepLast"}
ForeignKeyOrphanStrategy == {"nullify", "delete"}
CheckViolationStrategy == {"nullify", "delete"}
NarrowingStrategy == {"truncate", "delete", "setToValue"}

\* The choices of each prompt.
UniqueChoices(e) ==
    {"continue"} \cup (IF UsableKey(e) THEN KeepPolicy ELSE {})

\* Mutant: nullify is offered for NOT NULL columns.
OrphanChoicesOfAny(e) == ForeignKeyOrphanStrategy

OrphanChoices(e) ==
    {s \in ForeignKeyOrphanStrategy : s = "nullify" => ToSet(e.cols) \subseteq e.nullable}

CheckChoices(e) ==
    {s \in CheckViolationStrategy : s = "nullify" =>
        CheckTarget(e) # <<>> /\ ToSet(CheckTarget(e)) \subseteq e.nullable}

ApplicableStrategies(narrowing) ==
    CASE narrowing \in {"length", "numericScale"} -> NarrowingStrategy
      [] narrowing \in {"numericIntegerDigits", "integerSize"} ->
            NarrowingStrategy \ {"truncate"}
      [] narrowing \in {"floatSize", "timezone"} -> {}
      [] OTHER -> {"proceed"}

\* What may be chosen, or the default where nothing is asked.  Without a
\* choice the revision ends.
Offers(e) == CASE e.kind = "unique" -> UniqueChoices(e)
               [] e.kind = "foreign" -> OrphanChoices(e)
               [] e.kind = "check" -> CheckChoices(e)
               [] e.kind = "type" -> ApplicableStrategies(Narrowing(e))
               [] OTHER -> {"proceed"}

\* The warnings of the planner.
FindUniqueAdditions(e) == e.kind = "unique"
FindFkOrphanAdditions(e) == e.kind = "foreign"
FindCheckAdditions(e) == e.kind = "check" /\ CheckTarget(e) # <<>>
FindTypeNarrowings(e) == e.kind = "type" /\ Narrowing(e) # "none"
FindTimezoneConversions(e) ==
    e.kind = "type" /\ {e.from.kind, e.to.kind} = {"timestamp", "timestamptz"}

\* There is a prompt, which may be declined.
Asks(e) == \/ FindUniqueAdditions(e)
           \/ FindFkOrphanAdditions(e)
           \/ FindCheckAdditions(e)
           \/ Alarms(e, parsed)
           \/ FindTypeNarrowings(e)
           \/ FindTimezoneConversions(e)

----------------------------------------------------------------------------
(* The statements of the SQL builder.                                      *)

Statement(op) == [op |-> op]
Ddl(op) == op \in {"addConstraint", "addNotValid", "validate", "dropCheck",
                   "alterType"}

\* Mutant: MIN and MAX are exchanged.
BuildUniqueOther(e, choice) ==
    (IF UsableKey(e)
     THEN <<[op |-> "deleteDuplicates",
             keep |-> IF choice = "keepLast" THEN "first" ELSE "last"]>>
     ELSE <<>>)
    \o <<Statement("addConstraint")>>

\* add_constraint/unique.rs; "continue" leaves the default strategy.
BuildUnique(e, choice) ==
    (IF UsableKey(e)
     THEN <<[op |-> "deleteDuplicates",
             keep |-> IF choice = "keepLast" THEN "last" ELSE "first"]>>
     ELSE <<>>)
    \o <<Statement("addConstraint")>>

\* PostgreSQL adds the constraint as NOT VALID and then validates it.
AddValidated(b) ==
    IF b = "postgres" THEN <<Statement("addNotValid"), Statement("validate")>>
    ELSE <<Statement("addConstraint")>>

\* Mutant: the strategy is ignored.
BuildForeignKeyDeleting(b, e, choice) ==
    <<Statement("deleteOrphans")>> \o AddValidated(b)

\* add_constraint/foreign_key.rs
BuildForeignKey(b, e, choice) ==
    <<Statement(IF choice = "nullify" THEN "nullifyOrphans" ELSE "deleteOrphans")>>
    \o AddValidated(b)

\* add_constraint/check.rs
BuildCheck(b, e, choice) ==
    <<IF choice = "nullify"
      THEN [op |-> "nullifyWhereNot", column |-> CheckTarget(e)[1]]
      ELSE Statement("deleteWhereNot")>>
    \o AddValidated(b)

\* narrowing_preprocess.rs: whether the WHERE clause of a narrowing selects a
\* value.
ViolationPredicate(e, v) ==
    CASE Narrowing(e) = "length" -> v > e.to.n
      [] Narrowing(e) = "numericScale" -> v # Round(v, e.to.s)
      [] Narrowing(e) = "numericIntegerDigits" ->
            Magnitude(v) >= TenPow(IntDigits(e.to))
      [] Narrowing(e) = "integerSize" ->
            LET bounds == IntegerBounds(e.to.kind)
            IN  v > bounds[2] \/ v < bounds[1]
      [] OTHER -> FALSE

BuildTypeChange(e, choice) ==
    (IF choice \in NarrowingStrategy THEN <<Statement(choice)>> ELSE <<>>)
    \o <<Statement("alterType")>>

Statements(b, e, choice) ==
    CASE e.kind = "unique" -> BuildUnique(e, choice)
      [] e.kind = "foreign" -> BuildForeignKey(b, e, choice)
      [] e.kind = "check" -> BuildCheck(b, e, choice)
      [] e.kind = "replace" -> <<Statement("dropCheck"), Statement("addConstraint")>>
      [] e.kind = "type" -> BuildTypeChange(e, choice)
      [] e.kind = "cascade" -> <<>>

----------------------------------------------------------------------------
(* The databases, as far as the repairs rely on them.                      *)

KeyOf(row, cols) == [i \in DOMAIN cols |-> row[cols[i]]]
HasNull(row, cols) == \E i \in DOMAIN cols : row[cols[i]] = <<>>

CheckOf(e) == IF e.kind = "check" THEN e.expr ELSE e.new
IllTyped(e) == /\ e.kind \in {"check", "replace"}
               /\ IsIllTyped(CheckOf(e), e.classes)
ReferredKeys(e, rs) == IF e.self THEN {<<r.id>> : r \in rs} ELSE parents

\* The rows have what the constraint or the type asks for.
Satisfied(e, rs) ==
    CASE e.kind = "unique" ->
            \A r, s \in rs : r # s /\ KeyOf(r, e.cols) = KeyOf(s, e.cols)
                             => HasNull(r, e.cols)
      [] e.kind = "foreign" ->
            \A r \in rs : HasNull(r, e.cols)
                          \/ KeyOf(r, e.cols) \in ReferredKeys(e, rs)
      [] e.kind \in {"check", "replace"} ->
            ~IllTyped(e) /\ \A r \in rs : ~IsFalse(CheckOf(e), r, e.classes)
      [] e.kind = "type" -> \A r \in rs : r.a # <<>> => Storable(e.to, r.a[1])
      [] OTHER -> TRUE

\* ALTER TYPE rounds decimals and rejects what does not fit; SQLite keeps
\* whatever the rows hold.
Converted(e, row) ==
    IF backend = "sqlite" \/ e.to.kind # "numeric" \/ row.a = <<>> THEN row
    ELSE [row EXCEPT !.a = <<Round(@[1], e.to.s)>>]

\* NOT EXISTS (SELECT 1 FROM parent WHERE ...).  The names of a table that
\* refers to itself all mean the inner one.
NotExists(e, rs, row) ==
    IF e.self THEN \A r \in rs : KeyOf(r, e.cols) # <<r.id>>
    ELSE KeyOf(row, e.cols) \notin parents

\* Of a group of rows, the one with the smallest or the largest key.
IsKept(e, r, group, keep) ==
    LET KeyOfRow(s) == s[e.key[1]][1]
    IN  \A s \in group : IF keep = "first" THEN KeyOfRow(r) <= KeyOfRow(s)
                         ELSE KeyOfRow(s) <= KeyOfRow(r)

WithNulls(row, cols) == [c \in DOMAIN row |-> IF c \in cols THEN <<>> ELSE row[c]]

\* The WHERE clause of NullifyOrphans.
IsOrphan(e, rs, r) ==
    (\E c \in ToSet(e.cols) : r[c] # <<>>) /\ NotExists(e, rs, r)

Truncated(e, v) ==
    IF Narrowing(e) = "numericScale" THEN Round(v, e.to.s)
    ELSE IF v > e.to.n THEN e.to.n ELSE v

\* What a statement makes of the rows.
Updated(e, rs, stmt) ==
    LET Group(r) == {s \in rs : KeyOf(s, e.cols) = KeyOf(r, e.cols)}
        Fails(r) == IsFalse(CheckOf(e), r, e.classes)
        Exceeds(r) == r.a # <<>> /\ ViolationPredicate(e, r.a[1])
    IN  CASE stmt.op = "deleteDuplicates" ->
                {r \in rs : IsKept(e, r, Group(r), stmt.keep)}
          [] stmt.op = "nullifyOrphans" ->
                {IF IsOrphan(e, rs, r) THEN WithNulls(r, ToSet(e.cols)) ELSE r : r \in rs}
          [] stmt.op = "deleteOrphans" -> {r \in rs : ~NotExists(e, rs, r)}
          [] stmt.op = "nullifyWhereNot" ->
                {IF Fails(r) THEN WithNulls(r, {stmt.column}) ELSE r : r \in rs}
          [] stmt.op = "deleteWhereNot" -> {r \in rs : ~Fails(r)}
          [] stmt.op = "truncate" ->
                {IF r.a = <<>> THEN r ELSE [r EXCEPT !.a = <<Truncated(e, @[1])>>]
                    : r \in rs}
          [] stmt.op = "delete" -> {r \in rs : ~Exceeds(r)}
          [] stmt.op = "setToValue" ->
                {IF Exceeds(r) THEN [r EXCEPT !.a = <<0>>] ELSE r : r \in rs}
          [] stmt.op = "alterType" -> {Converted(e, r) : r \in rs}
          [] OTHER -> rs

\* MySQL does not change a table that a subquery of the statement reads.
ReadsItsTarget(e, stmt) ==
    \/ stmt.op = "deleteDuplicates"
    \/ stmt.op \in {"nullifyOrphans", "deleteOrphans"} /\ e.self

SetsNull(e, stmt) ==
    CASE stmt.op = "nullifyOrphans" -> ToSet(e.cols)
      [] stmt.op = "nullifyWhereNot" -> {stmt.column}
      [] OTHER -> {}

Rejects(e, stmt) ==
    \/ backend = "mysql" /\ ReadsItsTarget(e, stmt)
    \/ /\ SetsNull(e, stmt) # {} /\ ~(SetsNull(e, stmt) \subseteq e.nullable)
       /\ Updated(e, rows, stmt) # rows
    \/ IllTyped(e)
    \/ /\ stmt.op \in {"addConstraint", "validate"}
       /\ ~(backend = "sqlite" /\ e.kind = "foreign")
       /\ ~Satisfied(e, rows)
    \/ /\ stmt.op = "alterType" /\ backend # "sqlite"
       /\ ~Satisfied(e, Updated(e, rows, stmt))

----------------------------------------------------------------------------
(* The changes and the rows that there are.                                *)

Families == {StringKinds, {"numeric"}, ToSet(IntegerKinds),
             {"real", "double_precision"}, {"timestamp", "timestamptz"}}

IsType(type) ==
    CASE type.kind \in {"varchar", "char"} -> type.n \in Nat
      [] type.kind = "numeric" ->
            /\ type.p \in Nat /\ type.s \in 0..Hundredths
            /\ IntDigits(type) < Len(PowersOfTen)
      [] OTHER -> type.kind \in UNION Families

\* Types change within a family.
IsEdit(e) ==
    CASE e.kind = "unique" ->
            {e.cols, e.key} \subseteq Seq(ToSet(Columns)) \ {<<>>}
      [] e.kind = "foreign" ->
            e.cols \in Seq(ToSet(Columns)) \ {<<>>} /\ e.self \in BOOLEAN
      [] e.kind = "check" ->
            TargetColumn(ReadCheck(TextOf(e))) \in Seq(ToSet(Columns))
      [] e.kind = "type" ->
            /\ IsType(e.from) /\ IsType(e.to)
            /\ \E family \in Families : {e.from.kind, e.to.kind} \subseteq family
      [] OTHER -> e.kind \in {"replace", "cascade"}

IsRow(r) ==
    /\ r \in [ToSet(Columns) -> Seq(Int)]
    /\ \A c \in ToSet(Columns) : Len(r[c]) <= 1

\* The rows of a table have a key, and values of the types of their columns.
\* A CHECK of one column does not reject NULL in it.
CanHold(e, rs) ==
    /\ \A r \in rs : IsRow(r)
    /\ e.kind = "unique" /\ UsableKey(e) =>
          \A r, s \in rs : /\ r[e.key[1]] # <<>>
                           /\ r[e.key[1]] = s[e.key[1]] => r = s
    /\ e.kind = "type" => \A r \in rs : r.a # <<>> => Storable(e.from, r.a[1])
    /\ e.kind = "check" =>
          \A r \in rs, c \in ToSet(TargetColumn(ReadCheck(TextOf(e)))) :
              ~IsFalse(e.expr, WithNulls(r, {c}), e.classes)

ASSUME EditAssumption ==
    \A e \in Edits :
        /\ IsEdit(e)
        /\ \A content \in Contents(e) : CanHold(e, content.rows)

----------------------------------------------------------------------------
(* Actions.                                                                *)

\* The text of a CHECK passes through states that are no expressions; the
\* language server parses those too.
Mistype ==
    /\ phase = "edited" /\ edit.kind = "check"
    /\ text' \in Mistakes(text)
    /\ parsed' = ReadCheck(text')
    /\ phase' = "mistyped"
    /\ UNCHANGED <<edit, strategy, tables>>

Validate ==
    /\ phase = "edited"
    /\ phase' = IF Refused(edit) THEN "refused" ELSE "valid"
    /\ UNCHANGED <<edit, text, parsed, strategy, tables>>

Answer ==
    /\ phase = "valid"
    /\ strategy' \in Offers(edit)
    /\ phase' = "written"
    /\ UNCHANGED <<edit, text, parsed, tables>>

\* A prompt is declined, or there is no repair to offer.
Cancel ==
    /\ phase = "valid" /\ Asks(edit)
    /\ phase' = "cancelled"
    /\ UNCHANGED <<edit, text, parsed, strategy, tables>>

\* Only PostgreSQL is known to reject literals of another type.
Deploy ==
    /\ phase = "written"
    /\ backend' \in IF IllTyped(edit) THEN {"postgres"} ELSE Backends
    /\ \E content \in Contents(edit) :
          /\ before' = content.rows
          /\ rows' = content.rows
          /\ parents' = content.parents
    /\ todo' = Statements(backend', edit, strategy)
    /\ phase' = IF todo' = <<>> THEN "applied" ELSE "running"
    /\ UNCHANGED <<edit, text, parsed, strategy>>

\* A statement of the migration.  An error rolls back, as far as MySQL has
\* not committed before the DDL that failed.
Execute ==
    /\ phase = "running"
    /\ IF Rejects(edit, Head(todo))
       THEN /\ phase' = "rejected"
            /\ rows' = IF backend = "mysql" /\ Ddl(Head(todo).op) THEN rows ELSE before
            /\ todo' = <<>>
       ELSE /\ rows' = Updated(edit, rows, Head(todo))
            /\ todo' = Tail(todo)
            /\ phase' = IF todo' = <<>> THEN "applied" ELSE "running"
    /\ UNCHANGED <<edit, text, parsed, strategy, backend, before, parents>>

Next == Mistype \/ Validate \/ Answer \/ Cancel \/ Deploy \/ Execute

Spec == Init /\ [][Next]_vars

----------------------------------------------------------------------------
(* Properties: what a repair does to the rows.                             *)

Shrinks(e) == IntDigits(e.to) < IntDigits(e.from)
\* What the repairs do not cover.
KnownGaps(e) ==
    \* the statement that MySQL does not execute
    \/ backend = "mysql" /\ e.kind = "unique" /\ UsableKey(e)
    \* duplicates of a table without a key of one column
    \/ e.kind = "unique" /\ ~UsableKey(e)
    \* a subquery that does not depend on the row
    \/ e.kind = "foreign" /\ e.self
    \* a replaced CHECK has no repair
    \/ e.kind = "replace"
    \* the author insisted
    \/ IllTyped(e)
    \* decimals that lose digits on both sides are repaired on one
    \/ e.kind = "type" /\ Narrowing(e) = "numericScale" /\ Shrinks(e)
    \* decimals that get a digit more when they are rounded
    \/ /\ e.kind = "type" /\ Narrowing(e) = "numericScale" /\ strategy = "truncate"
       /\ \E r \in before : r.a # <<>>
             /\ Magnitude(Round(r.a[1], e.to.s)) >= TenPow(IntDigits(e.to))

\* After the repair that was chosen, the rows are as the constraint or the
\* type wants them, so that no database rejects the change.
RepairSuffices ==
    phase \in {"applied", "rejected"} =>
        KnownGaps(edit) \/ (phase = "applied" /\ Satisfied(edit, rows))

\* The constraint has nothing against this row.
Innocent(e, r) ==
    CASE e.kind = "unique" ->
            \/ HasNull(r, e.cols)
            \/ ~UsableKey(e)
            \/ IsKept(e, r, {s \in before : KeyOf(s, e.cols) = KeyOf(r, e.cols)},
                      IF strategy = "keepLast" THEN "last" ELSE "first")
      [] e.kind = "foreign" -> \/ HasNull(r, e.cols)
                               \/ KeyOf(r, e.cols) \in ReferredKeys(e, before)
      [] OTHER -> Satisfied(e, {r})

\* Rows that are changed though SQL exempts a NULL from the constraint, and
\* rows of a table that refers to itself.
KnownVictims(e, r) ==
    \/ e.kind = "unique" /\ HasNull(r, e.cols)
    \/ /\ e.kind = "foreign" /\ HasNull(r, e.cols)
       /\ (strategy = "delete" \/ Len(e.cols) > 1)
    \/ e.kind = "foreign" /\ e.self

\* A repair leaves the rows alone that the constraint accepts; of duplicates
\* it leaves the one with the smallest or largest key, as it was chosen.
InnocentRowsAreSpared ==
    phase = "applied" =>
        \A r \in before : Innocent(edit, r) => r \in rows \/ KnownVictims(edit, r)

\* A repair that clears or shortens values removes no row and changes no
\* other column; one that removes rows changes none.
RepairIsAsChosen ==
    LET touched == CASE edit.kind = "foreign" -> ToSet(edit.cols)
                     [] edit.kind = "check" -> ToSet(CheckTarget(edit))
                     [] OTHER -> {"a"}
        Rest(r) == [c \in DOMAIN r \ touched |-> r[c]]
    IN  IF strategy \in {"nullify", "truncate", "setToValue"}
        THEN {Rest(r) : r \in rows} = {Rest(r) : r \in before}
        ELSE rows \subseteq before

\* A repair changes the rows it is for, in the way that was chosen, and no
\* others.
RepairsAreConfined == InnocentRowsAreSpared /\ RepairIsAsChosen
=============================================================================
