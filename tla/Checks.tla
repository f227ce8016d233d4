------------------------------- MODULE Checks -------------------------------
(***************************************************************************)
(* CHECK expressions: how the planner parses them, and what it concludes   *)
(* from them: crates/vespertide-planner/src/validate/check_*.rs.           *)
(*                                                                         *)
(* A text is a sequence of tokens.  A literal is <<kind, n>>: an integer,  *)
(* a float in tenths, a string by its place in the alphabetical order, a   *)
(* Boolean as 0 or 1, or NULL.                                             *)
(***************************************************************************)
EXTENDS Integers, FiniteSets, SequencesExt

CONSTANT MaxCheckExprDepth   \* nested parentheses that the parser follows

ASSUME DepthAssumption == MaxCheckExprDepth \in Nat

Some(seq, P(_)) == \E i \in DOMAIN seq : P(seq[i])

Compare(column, op, value) ==
    [kind |-> "compare", column |-> column, op |-> op, value |-> value]
In(column, values, negated) ==
    [kind |-> "in", column |-> column, values |-> values, negated |-> negated]
Between(column, low, high, negated) ==
    [kind |-> "between", column |-> column, low |-> low, high |-> high,
     negated |-> negated]
IsNull(column, negated) ==
    [kind |-> "isNull", column |-> column, negated |-> negated]
Junction(kind, parts) == [kind |-> kind, parts |-> parts]
Not(inner) == [kind |-> "not", inner |-> inner]
Unparseable == [kind |-> "unparseable"]

IsPredicate(e) == e.kind \in {"compare", "in", "between", "isNull"}

----------------------------------------------------------------------------
(* Literals.                                                               *)

NullLiteral == <<"null", 0>>
IsNumber(l) == l[1] \in {"int", "float"}
Tenths(l) == IF l[1] = "int" THEN 10 * l[2] ELSE l[2]

\* Literal::cmp_value: the sign of the comparison, as an Option.
CmpValue(l, m) ==
    LET Sign(x, y) == <<IF x < y THEN -1 ELSE IF x > y THEN 1 ELSE 0>>
    IN  IF IsNumber(l) /\ IsNumber(m) THEN Sign(Tenths(l), Tenths(m))
        ELSE IF l[1] = m[1] /\ l[1] \in {"string", "bool"} THEN Sign(l[2], m[2])
        ELSE <<>>

ApproxEq(l, m) == CmpValue(l, m) = <<0>> \/ {l, m} = {NullLiteral}

\* x op y
Holds(op, x, y) ==
    CASE op = "=" -> x = y   [] op = "<>" -> x # y
      [] op = "<" -> x < y   [] op = "<=" -> x <= y
      [] op = ">" -> x > y   [] op = ">=" -> x >= y

----------------------------------------------------------------------------
(* Tokens, and the parser: recursive descent without backtracking.  Each   *)
(* operator takes the position it starts from and yields the position      *)
(* after what it has read.                                                 *)

Word(w) == <<w>>
Ident(c) == <<"ident", c>>
Operation(op) == <<"op", op>>
Lit(l) == <<"lit", l>>

Peek(text, at) == IF at \in DOMAIN text THEN text[at] ELSE Word("end")
Got(e, at) == [expr |-> e, at |-> at]
Failed == Got(Unparseable, 0)

\* try_take_literal, as an Option.
TakeLiteral(text, at) ==
    IF Peek(text, at)[1] = "lit" THEN <<Peek(text, at)[2]>> ELSE <<>>

RECURSIVE ParseList(_, _, _, _), ParseRest(_, _, _, _, _), InList(_, _, _)

\* The literals of an IN list from here on, and the position after it.
InList(text, at, values) ==
    LET value == TakeLiteral(text, at)
        more == values \o value
    IN  CASE value = <<>> -> [values |-> <<>>, at |-> 0]
          [] Peek(text, at + 1) = Word(",") -> InList(text, at + 2, more)
          [] Peek(text, at + 1) = Word(")") -> [values |-> more, at |-> at + 2]
          [] OTHER -> [values |-> <<>>, at |-> 0]

ParsePredicate(column, text, start) ==
    LET negated == Peek(text, start) = Word("NOT")
        at == IF negated THEN start + 1 ELSE start
        token == Peek(text, at)
        value == TakeLiteral(text, at + 1)
        high == TakeLiteral(text, at + 3)
        list == InList(text, at + 2, <<>>)
        isNot == Peek(text, at + 1) = Word("NOT")
        null == IF isNot THEN at + 2 ELSE at + 1
    IN  CASE token[1] = "op" ->
                IF negated \/ value = <<>> THEN Failed
                ELSE Got(Compare(column, token[2], value[1]), at + 2)
          [] token = Word("IN") ->
                IF Peek(text, at + 1) # Word("(") \/ list.values = <<>> THEN Failed
                ELSE Got(In(column, list.values, negated), list.at)
          [] token = Word("BETWEEN") ->
                IF value = <<>> \/ Peek(text, at + 2) # Word("AND") \/ high = <<>>
                THEN Failed
                ELSE Got(Between(column, value[1], high[1], negated), at + 4)
          [] token = Word("IS") ->
                IF negated \/ Peek(text, null) # Lit(NullLiteral) THEN Failed
                ELSE Got(IsNull(column, isNot), null + 1)
          [] OTHER -> Failed

ParseAtom(text, at, depth) ==
    LET token == Peek(text, at)
        inner == ParseList("OR", text, at + 1, depth + 1)
    IN  CASE token = Word("(") ->
                IF \/ depth >= MaxCheckExprDepth
                   \/ inner.expr = Unparseable
                   \/ Peek(text, inner.at) # Word(")")
                THEN Failed ELSE Got(inner.expr, inner.at + 1)
          [] token[1] = "ident" -> ParsePredicate(token[2], text, at + 1)
          [] OTHER -> Failed

\* One NOT; a second needs parentheses.
ParseNot(text, at, depth) ==
    LET inner == ParseAtom(text, at + 1, depth)
    IN  IF Peek(text, at) # Word("NOT") THEN ParseAtom(text, at, depth)
        ELSE IF inner.expr = Unparseable THEN Failed
        ELSE Got(Not(inner.expr), inner.at)

\* What AND joins, and what OR joins.
ParseOperand(word, text, at, depth) ==
    IF word = "OR" THEN ParseList("AND", text, at, depth)
    ELSE ParseNot(text, at, depth)

ParseList(word, text, at, depth) ==
    LET first == ParseOperand(word, text, at, depth)
    IN  IF first.expr = Unparseable THEN Failed
        ELSE ParseRest(word, <<first.expr>>, text, first.at, depth)

ParseRest(word, parts, text, at, depth) ==
    LET next == ParseOperand(word, text, at + 1, depth)
    IN  CASE Peek(text, at) # Word(word) ->
                Got(IF Len(parts) = 1 THEN parts[1]
                    ELSE Junction(IF word = "OR" THEN "or" ELSE "and", parts), at)
          [] next.expr = Unparseable -> Failed
          [] OTHER -> ParseRest(word, Append(parts, next.expr), text, next.at, depth)

\* Mutant: what follows a complete expression is ignored.
ParsePrefix(text) == ParseList("OR", text, 1, 0).expr

Parse(text) ==
    LET parsed == ParseList("OR", text, 1, 0)
    IN  IF parsed.at <= Len(text) THEN Unparseable ELSE parsed.expr

----------------------------------------------------------------------------
(* The reference for the parser: how an expression is written, with the    *)
(* parentheses that SQL's precedence makes necessary.                      *)

RECURSIVE Write(_)
Write(e) ==
    LET Negation == IF e.negated THEN <<Word("NOT")>> ELSE <<>>
        Grouped(p) == <<Word("(")>> \o Write(p) \o <<Word(")")>>
        Separated(seqs, word) ==
            FoldLeft(LAMBDA acc, s : acc \o <<Word(word)>> \o s, seqs[1], Tail(seqs))
    IN  CASE e.kind = "compare" ->
                <<Ident(e.column), Operation(e.op), Lit(e.value)>>
          [] e.kind = "in" ->
                <<Ident(e.column)>> \o Negation \o <<Word("IN"), Word("(")>>
                \o Separated([i \in DOMAIN e.values |-> <<Lit(e.values[i])>>], ",")
                \o <<Word(")")>>
          [] e.kind = "between" ->
                <<Ident(e.column)>> \o Negation
                \o <<Word("BETWEEN"), Lit(e.low), Word("AND"), Lit(e.high)>>
          [] e.kind = "isNull" ->
                <<Ident(e.column), Word("IS")>> \o Negation \o <<Lit(NullLiteral)>>
          [] e.kind = "not" ->
                <<Word("NOT")>> \o (IF IsPredicate(e.inner) THEN Write(e.inner)
                                    ELSE Grouped(e.inner))
          [] e.kind = "and" ->
                Separated([i \in DOMAIN e.parts |->
                    IF e.parts[i].kind \in {"and", "or"} THEN Grouped(e.parts[i])
                    ELSE Write(e.parts[i])], "AND")
          [] e.kind = "or" ->
                Separated([i \in DOMAIN e.parts |->
                    IF e.parts[i].kind = "or" THEN Grouped(e.parts[i])
                    ELSE Write(e.parts[i])], "OR")

\* The most parentheses that a token of the text is in, without those of IN.
Nesting(text) ==
    LET Opens(i) == text[i] = Word("(")
                    /\ ~(i > 1 /\ text[i - 1] = Word("IN"))
        Depth(i) == Cardinality({j \in 1..i : Opens(j)})
                    - Cardinality({j \in 1..i : text[j] = Word(")")})
    IN  Max({Depth(i) : i \in DOMAIN text} \cup {0})

WithoutParentheses(text) ==
    SelectSeq(text, LAMBDA t : t # Word("(") /\ t # Word(")"))

\* The texts with one token missing, doubled, or replaced by a word.
OneTokenOff(text, words) ==
    {RemoveAt(text, i) : i \in DOMAIN text}
    \cup {InsertAt(text, i, text[i]) : i \in DOMAIN text}
    \cup {[text EXCEPT ![i] = w] : i \in DOMAIN text, w \in words}

----------------------------------------------------------------------------
(* What a CHECK means to the database, in the three-valued logic of SQL:   *)
(* a row is rejected when it is FALSE.  Values are Options, numbers in     *)
(* tenths; the class of a column is what its literals are compared as.     *)

No == 0
Unknown == 1
Yes == 2
TypeError == 3

Comparable(class, l) ==
    \/ l = NullLiteral
    \/ class = "number" /\ IsNumber(l)
    \/ class = "text" /\ l[1] = "string"
    \/ class = "boolean" /\ (l[1] = "bool" \/ l \in {<<"int", 0>>, <<"int", 1>>})

AsValue(class, l) == IF class = "number" THEN Tenths(l) ELSE l[2]

AllOf(truths) == IF TypeError \in truths THEN TypeError ELSE Min(truths)
AnyOf(truths) == IF TypeError \in truths THEN TypeError ELSE Max(truths)
Opposite(truth) == IF truth = TypeError THEN truth ELSE Yes - truth

RECURSIVE Eval(_, _, _)
Eval(e, row, classes) ==
    LET Compared(op, l) ==
            CASE ~Comparable(classes[e.column], l) -> TypeError
              [] row[e.column] = <<>> \/ l = NullLiteral -> Unknown
              [] OTHER -> IF Holds(op, row[e.column][1],
                                   AsValue(classes[e.column], l))
                          THEN Yes ELSE No
        Negate(truth) == IF e.negated THEN Opposite(truth) ELSE truth
        Parts == {Eval(e.parts[i], row, classes) : i \in DOMAIN e.parts}
    IN  CASE e.kind = "compare" -> Compared(e.op, e.value)
          [] e.kind = "in" -> Negate(AnyOf({Compared("=", l) : l \in ToSet(e.values)}))
          [] e.kind = "between" ->
                Negate(AllOf({Compared(">=", e.low), Compared("<=", e.high)}))
          [] e.kind = "isNull" ->
                Negate(IF row[e.column] = <<>> THEN Yes ELSE No)
          [] e.kind = "not" -> Opposite(Eval(e.inner, row, classes))
          [] e.kind = "and" -> AllOf(Parts)
          [] e.kind = "or" -> AnyOf(Parts)

Passes(e, row, classes) == Eval(e, row, classes) \in {Unknown, Yes}

----------------------------------------------------------------------------
(* extract_simple_column_check: a comparison, or a list, of one column.    *)

IsSimpleCheck(e, column) ==
    /\ e.kind \in {"compare", "in"} /\ e.column = column
    /\ e.kind = "in" => ~e.negated

----------------------------------------------------------------------------
(* check_self_contradiction.rs                                             *)

\* Mutant: bounds that meet exclude each other.
MeetingBoundsContradict(opA, a, opB, b) ==
    LET cmp == CmpValue(a, b)
    IN  /\ cmp # <<>>
        /\ \/ opA = "=" /\ opB = "=" /\ cmp # <<0>>
           \/ {opA, opB} = {"=", "<>"} /\ cmp = <<0>>
           \/ opA \in {">", ">="} /\ opB \in {"<", "<="} /\ cmp[1] >= 0
           \/ opB \in {">", ">="} /\ opA \in {"<", "<="} /\ cmp[1] <= 0

ComparePairContradicts(opA, a, opB, b) ==
    LET cmp == CmpValue(a, b)
        Excluded(lower, upper, order) ==
            /\ lower \in {">", ">="} /\ upper \in {"<", "<="}
            /\ order > 0 \/ (order = 0 /\ (lower = ">" \/ upper = "<"))
    IN  /\ cmp # <<>>
        /\ \/ opA = "=" /\ opB = "=" /\ cmp # <<0>>
           \/ {opA, opB} = {"=", "<>"} /\ cmp = <<0>>
           \/ Excluded(opA, opB, cmp[1])
           \/ Excluded(opB, opA, -cmp[1])

CheckPair(p, q) ==
    \/ /\ p.kind = "compare" /\ q.kind = "compare"
       /\ ComparePairContradicts(p.op, p.value, q.op, q.value)
    \/ p.kind = "isNull" /\ q.kind = "isNull" /\ p.negated # q.negated
    \/ \E pair \in {<<p, q>>, <<q, p>>} :
          pair[1].kind = "isNull" /\ ~pair[1].negated /\ pair[2].kind = "compare"

RECURSIVE FlattenAnd(_)
FlattenAnd(parts) ==
    FlattenSeq([i \in DOMAIN parts |->
        IF parts[i].kind = "and" THEN FlattenAnd(parts[i].parts) ELSE <<parts[i]>>])

Contradictory(flat) ==
    \E i, j \in DOMAIN flat :
        /\ i < j /\ IsPredicate(flat[i]) /\ IsPredicate(flat[j])
        /\ flat[i].column = flat[j].column
        /\ CheckPair(flat[i], flat[j])

RECURSIVE FindContradiction(_)
FindContradiction(e) ==
    LET flat == FlattenAnd(e.parts)
    IN  CASE e.kind = "and" -> Contradictory(flat)
                               \/ Some(flat, LAMBDA p : FindContradiction(p))
          [] e.kind = "or" -> Some(e.parts, LAMBDA p : FindContradiction(p))
          [] OTHER -> FALSE

----------------------------------------------------------------------------
(* check_between_order.rs                                                  *)

IsReversed(low, high) ==
    ~(low[1] = "bool" /\ high[1] = "bool") /\ CmpValue(low, high) = <<1>>

RECURSIVE HasReversedBetween(_)
HasReversedBetween(e) ==
    CASE e.kind = "between" -> ~e.negated /\ IsReversed(e.low, e.high)
      [] e.kind \in {"and", "or"} -> Some(e.parts, LAMBDA p : HasReversedBetween(p))
      [] e.kind = "not" -> HasReversedBetween(e.inner)
      [] OTHER -> FALSE

----------------------------------------------------------------------------
(* check_default.rs: a default is a literal too.  The text of a string is  *)
(* compared as it stands in the model: from Unquoted on they are texts     *)
(* without quotes, all of which come after the quoted ones.                *)

Unquoted == 100

EvaluateOp(op, default, target) ==
    CASE IsNumber(default) /\ IsNumber(target) ->
            Holds(op, Tenths(default), Tenths(target))
      [] default[1] = "string" /\ target[1] = "string" ->
            Holds(op, default[2], target[2])
      [] default[1] = "bool" /\ target[1] = "bool" ->
            op \in {"=", "<>"} => Holds(op, default[2], target[2])
      [] OTHER -> TRUE

LiteralEquals(default, l) == CmpValue(default, l) = <<0>>

DefaultSatisfies(e, default) ==
    IF e.kind = "compare" THEN EvaluateOp(e.op, default, e.value)
    ELSE Some(e.values, LAMBDA l : LiteralEquals(default, l))

----------------------------------------------------------------------------
(* check_strengthening.rs: how the new expression is stricter.             *)

CompareStrictness(op1, v1, op2, v2) ==
    LET cmp == CmpValue(v1, v2)
        tighter == \/ op1 \in {">", ">="} /\ cmp = <<-1>>
                   \/ op1 \in {"<", "<="} /\ cmp = <<1>>
    IN  CASE op1 = op2 /\ ~ApproxEq(v1, v2) /\ tighter -> "boundaryTightened"
          [] /\ <<op1, op2>> \in {<<">=", ">">>, <<"<=", "<">>}
             /\ ApproxEq(v1, v2) -> "operatorTightened"
          [] OTHER -> "none"

InIsStrictSubset(subset, superset) ==
    /\ Len(subset) < Len(superset)
    /\ \A i \in DOMAIN subset : Some(superset, LAMBDA l : ApproxEq(subset[i], l))

\* Mutant: only the lower bound is compared.
LowIsTighter(low1, high1, low2, high2) ==
    CmpValue(low1, low2) = <<-1>> /\ CmpValue(high1, high2) # <<>>

BetweenIsNarrower(low1, high1, low2, high2) ==
    LET low == CmpValue(low1, low2)
        high == CmpValue(high1, high2)
    IN  /\ low \in {<<-1>>, <<0>>} /\ high \in {<<1>>, <<0>>}
        /\ low = <<-1>> \/ high = <<1>>

ClassifyPair(old, new) ==
    LET Same(kind) == /\ old.kind = kind /\ new.kind = kind
                      /\ old.column = new.column
        Plain == ~old.negated /\ ~new.negated
        Among(part, parts) == Contains(parts, part)
        AllAmong(some, all) == \A i \in DOMAIN some : Contains(all, some[i])
    IN  CASE Same("compare") ->
                CompareStrictness(old.op, old.value, new.op, new.value)
          [] Same("in") /\ Plain /\ InIsStrictSubset(new.values, old.values) ->
                "inListShrunk"
          [] /\ Same("between") /\ Plain
             /\ BetweenIsNarrower(old.low, old.high, new.low, new.high) ->
                "betweenNarrowed"
          [] old.kind # "and" /\ new.kind = "and" /\ Among(old, new.parts) ->
                "conjunctAdded"
          [] /\ old.kind = "and" /\ new.kind = "and"
             /\ Len(new.parts) > Len(old.parts)
             /\ AllAmong(old.parts, new.parts) -> "conjunctAdded"
          [] /\ old.kind = "or" /\ new.kind = "or"
             /\ Len(new.parts) < Len(old.parts)
             /\ AllAmong(new.parts, old.parts) -> "disjunctRemoved"
          [] OTHER -> "none"

ClassifyStrengthening(oldText, new) ==
    LET old == Parse(oldText)
    IN  IF Unparseable \in {old, new} \/ old = new THEN "none"
        ELSE ClassifyPair(old, new)

----------------------------------------------------------------------------
(* check_type_mismatch.rs, for the classes of columns that have one kind   *)
(* of literal.                                                             *)

IsDefinitelyMismatch(class, l) ==
    CASE class = "number" -> l[1] \in {"string", "bool"}
      [] class = "text" -> l[1] \in {"int", "float", "bool"}
      [] class = "boolean" -> \/ l[1] \in {"float", "string"}
                              \/ l[1] = "int" /\ l[2] \notin {0, 1}

RECURSIVE WalkCheckExpr(_, _)
WalkCheckExpr(e, classes) ==
    LET CheckOne(l) == IsDefinitelyMismatch(classes[e.column], l)
    IN  CASE e.kind = "compare" -> CheckOne(e.value)
          [] e.kind = "in" -> Some(e.values, CheckOne)
          [] e.kind = "between" -> CheckOne(e.low) \/ CheckOne(e.high)
          [] e.kind \in {"and", "or"} ->
                Some(e.parts, LAMBDA p : WalkCheckExpr(p, classes))
          [] e.kind = "not" -> WalkCheckExpr(e.inner, classes)
          [] OTHER -> FALSE
=============================================================================
