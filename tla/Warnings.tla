------------------------------ MODULE Warnings ------------------------------
(***************************************************************************)
(* What the planner concludes from a change: why it refuses a model, and   *)
(* the warnings for which there is no repair, with the analysis of CHECKs  *)
(* and the reach of cascading foreign keys.  These are the parameters of   *)
(* Repairs, and the properties are about what it does with them.           *)
(***************************************************************************)
EXTENDS Repairs, Checks

CONSTANT Typos   \* tokens that may be in a text by mistake

\* A text with a mistake in one place.
Misspelt(written) == OneTokenOff(written, Typos)

\* What a database makes of a CHECK.
EvalIsFalse(e, row, classes) == Eval(e, row, classes) = No
EvalIsIllTyped(e, classes) ==
    Eval(e, [c \in ToSet(Columns) |-> <<>>], classes) = TypeError

----------------------------------------------------------------------------
(* cascade_reach.rs: how far a new ON DELETE CASCADE foreign key makes a   *)
(* deletion reach.  A foreign key is <<child, parent, whether it cascades>>. *)

DeepThreshold == 3
HighFanoutThreshold == 3

\* Mutant: the foreign keys that are added are not in the graph.
BuildBaselineGraph(baseline, added) ==
    LET all == SelectSeq(baseline, LAMBDA fk : fk[3])
    IN  [parent \in {all[i][2] : i \in DOMAIN all} |->
            LET own == SelectSeq(all, LAMBDA fk : fk[2] = parent)
            IN  [i \in DOMAIN own |-> own[i][1]]]

\* The children of each table, one for each foreign key: of the baseline,
\* then of the AddConstraint actions.
BuildCascadeGraph(baseline, added) ==
    LET all == SelectSeq(baseline \o added, LAMBDA fk : fk[3])
    IN  [parent \in {all[i][2] : i \in DOMAIN all} |->
            LET own == SelectSeq(all, LAMBDA fk : fk[2] = parent)
            IN  [i \in DOMAIN own |-> own[i][1]]]

Children(graph, node) ==
    IF node \in DOMAIN graph THEN graph[node] ELSE <<>>

\* The walk of dfs_cascade from its stack on: the largest depth at which a
\* table was taken from the stack first, and the most children of a table.
RECURSIVE Walk(_, _, _, _)
Walk(graph, stack, visited, found) ==
    IF stack = <<>> THEN [found EXCEPT !.reached = visited]
    ELSE LET node == Last(stack)[1]
             depth == Last(stack)[2]
             children == Children(graph, node)
         IN  IF node \in visited THEN Walk(graph, Front(stack), visited, found)
             ELSE Walk(graph,
                      Front(stack) \o [i \in DOMAIN children |->
                                          <<children[i], depth + 1>>],
                      visited \cup {node},
                      [found EXCEPT !.depth = Max({@, depth}),
                                    !.fanout = Max({@, Len(children)})])

DfsCascade(graph, start) ==
    LET found == Walk(graph, << <<start, 0>> >>, {},
                      [depth |-> 0, fanout |-> 0, reached |-> {}])
    IN  [found EXCEPT !.reached = @ \ {start}]

ClassifyRisk(depth, fanout) ==
    LET deep == depth >= DeepThreshold
        wide == fanout >= HighFanoutThreshold
    IN  CASE deep /\ wide -> "critical"
          [] deep -> "deep"
          [] wide -> "highFanout"
          [] OTHER -> "none"

\* The warning of the i-th added foreign key.
CascadeReach(baseline, added, i) ==
    LET found == DfsCascade(BuildCascadeGraph(baseline, added), added[i][2])
    IN  [reached |-> found.reached, depth |-> found.depth,
         fanout |-> found.fanout,
         risk |-> IF added[i][3] THEN ClassifyRisk(found.depth, found.fanout)
                  ELSE "none"]

----------------------------------------------------------------------------
(* What the planner says of the change.                                    *)

\* validate_schema refuses the model.
Contradicts(expr) == FindContradiction(expr) \/ HasReversedBetween(expr)
DefaultFails(e, expr) ==
    /\ e.default # <<>>
    /\ IsSimpleCheck(expr, "a")
    /\ ~DefaultSatisfies(expr, e.default[1])

\* PlannerError: what is wrong with the CHECK of the model.
CheckFaults(e, expr) ==
    LET found == [CheckSelfContradiction |-> FindContradiction(expr),
                  BetweenBoundaryReversed |-> HasReversedBetween(expr),
                  DefaultViolatesCheck |-> e.kind = "check" /\ DefaultFails(e, expr)]
    IN  {fault \in DOMAIN found : found[fault]}

\* find_check_target_column, as an Option.
FindCheckTargetColumn(expr) ==
    SelectSeq(Columns, LAMBDA c : IsSimpleCheck(expr, c))

FindCascadeReach(e) ==
    e.kind = "cascade" /\ \E i \in DOMAIN e.added :
        CascadeReach(e.baseline, e.added, i).risk # "none"
FindCheckStrengthenings(e, expr) ==
    e.kind = "replace" /\ ClassifyStrengthening(Write(e.old), expr) # "none"
FindCheckTypeMismatches(e, expr) ==
    e.kind \in {"check", "replace"} /\ WalkCheckExpr(expr, e.classes)

\* Prompts that offer no repair: go on, or cancel.
Acknowledged(e, expr) == \/ FindCascadeReach(e)
                         \/ FindCheckStrengthenings(e, expr)
                         \/ FindCheckTypeMismatches(e, expr)

----------------------------------------------------------------------------
(* Properties: what a text is read as.                                     *)

\* An expression that SQL's precedence reads in one way is parsed that way,
\* unless its parentheses are nested more deeply than the parser follows; and
\* a text with a mistake in it is refused, or is an expression with exactly the
\* tokens of the text: nothing is skipped and nothing is supplied.
ParsedAsWritten ==
    /\ edit.kind = "check" /\ phase = "edited" =>
          parsed = IF Nesting(text) > MaxCheckExprDepth THEN Unparseable
                   ELSE edit.expr
    /\ parsed # Unparseable =>
          WithoutParentheses(Write(parsed)) = WithoutParentheses(text)

----------------------------------------------------------------------------
(* Properties: what the planner concludes.                                 *)

Values(class) ==
    CASE class = "number" -> {<<v>> : v \in {-5, 0, 5, 10, 15}}
      [] class = "text" -> {<<v>> : v \in 0..3}
      [] class = "boolean" -> {<<0>>, <<1>>}
AllRows(classes) ==
    {[id |-> <<1>>, a |-> x, b |-> y] :
        x \in Values(classes.a) \cup {<<>>}, y \in Values(classes.b) \cup {<<>>}}

RECURSIVE UnderOrOrNot(_)
UnderOrOrNot(e) ==
    CASE e.kind = "or" ->
            Some(e.parts, LAMBDA p : FindContradiction(p) \/ HasReversedBetween(p))
      [] e.kind = "and" -> Some(e.parts, UnderOrOrNot)
      [] e.kind = "not" -> HasReversedBetween(e.inner)
      [] OTHER -> FALSE

\* The list has a literal that the default cannot be compared with: NULL, or
\* a number for a Boolean.
HasOtherLiteral(e, default) ==
    e.kind = "in" /\ Some(e.values, LAMBDA l : CmpValue(default, l) = <<>>)

\* Validation refuses a model for two reasons that a user cannot overrule, and
\* both are true: no row without NULLs meets a CHECK that is refused as
\* contradictory, unless the contradiction is under an OR or a NOT; and the
\* CHECK rejects a default that is refused, when the text of the default is a
\* literal and a list has only literals of its kind.
RefusalsAreRight ==
    phase = "refused" /\ ~IllTyped(edit) =>
        /\ Contradicts(parsed) /\ ~UnderOrOrNot(parsed) =>
              \A r \in AllRows(edit.classes) :
                  ~HasNull(r, <<"a", "b">>)
                      => ~Passes(CheckOf(edit), r, edit.classes)
        /\ /\ edit.kind = "check" /\ DefaultFails(edit, parsed)
           /\ Comparable(edit.classes.a, edit.default[1])
           /\ edit.default[1][2] < Unquoted
           /\ ~HasOtherLiteral(edit.expr, edit.default[1])
           => LET row == [id |-> <<1>>, b |-> <<>>,
                          a |-> <<AsValue(edit.classes.a, edit.default[1])>>]
              IN  ~Passes(edit.expr, row, edit.classes)

\* What validation tells of a CHECK rests on what was written: the expression
\* is read as SQL reads it, and a model is refused only for what is true of it.
RefusalsAreFounded == ParsedAsWritten /\ RefusalsAreRight

\* A replaced CHECK that is reported as stricter accepts no row that the old
\* one rejected.
StrengtheningIsSound ==
    /\ edit.kind = "replace" /\ phase = "edited" /\ ~IllTyped(edit)
    /\ ~IllTyped([edit EXCEPT !.new = edit.old])
    /\ FindCheckStrengthenings(edit, parsed)
    => \A r \in AllRows(edit.classes) :
          Passes(edit.new, r, edit.classes) => Passes(edit.old, r, edit.classes)

\* Values on both sides of the bounds of types.
Samples == LET positive == {m * 10 ^ k : m \in {1, 2, 3, 9, 99, 999}, k \in 0..4}
           IN  {0} \cup positive \cup {-v : v \in positive}

\* A change of type within a family is reported exactly when some value of
\* the old type cannot be kept.
NarrowingIsExact ==
    edit.kind = "type" /\ phase = "edited" =>
        (FindTypeNarrowings(edit)
         <=> \E v \in Samples : Storable(edit.from, v) /\ ~Storable(edit.to, v))

\* The tables within k cascades of a set of tables.
RECURSIVE Within(_, _, _)
Within(k, fks, from) ==
    IF k = 0 THEN from
    ELSE Within(k - 1, fks,
             from \cup {fks[i][1] : i \in {j \in DOMAIN fks :
                                              fks[j][3] /\ fks[j][2] \in from}})

\* The reach of a cascade is every table that loses rows, and a new foreign
\* key whose cascades can go three tables deep is always asked about.
CascadesAreReported ==
    edit.kind = "cascade" /\ phase = "edited" =>
        \A i \in DOMAIN edit.added :
            LET fks == edit.baseline \o edit.added
                start == {edit.added[i][2]}
                found == CascadeReach(edit.baseline, edit.added, i)
            IN  /\ found.reached = Within(Len(fks), fks, start) \ start
                /\ edit.added[i][3] /\ found.risk \notin {"deep", "critical"} =>
                      Within(Len(fks), fks, start) = Within(2, fks, start)

\* The questions of a revision are about what will happen: a stricter CHECK,
\* a narrower type and a far-reaching cascade are reported for what they are.
WarningsAreExact == StrengtheningIsSound /\ NarrowingIsExact /\ CascadesAreReported
=============================================================================
