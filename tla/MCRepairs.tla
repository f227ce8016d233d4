----------------------------- MODULE MCRepairs ------------------------------
(***************************************************************************)
(* Changes and rows for the repairs.                                       *)
(***************************************************************************)
EXTENDS Warnings

Numbers == [id |-> "number", a |-> "number", b |-> "number"]
Zero == <<"int", 0>>
One == <<"int", 1>>
Half == <<"float", 5>>
Operators == {"=", "<>", "<", "<=", ">", ">="}

Predicates ==
    {Compare("a", op, l) : op \in Operators, l \in {Zero, One, Half}}
    \cup {In("a", vs, n) : vs \in {<<Zero>>, <<Zero, One>>, <<One, Half, One>>,
                                   <<One, NullLiteral>>}, n \in BOOLEAN}
    \cup {Between("a", p[1], p[2], n) :
            p \in {<<Zero, One>>, <<One, Zero>>, <<Half, One>>, <<One, One>>,
                  <<Half, <<"int", 2>> >>},
            n \in BOOLEAN}
    \cup {IsNull("a", n) : n \in BOOLEAN}
Few == {Compare("a", ">", Zero), Compare("a", "<", Half), Compare("a", "=", One),
        Compare("b", "<>", Zero), IsNull("a", FALSE), Between("a", One, Zero, FALSE)}
Pairs == {Junction(k, <<p, q>>) : k \in {"and", "or"}, p \in Few, q \in Few}
Nested ==
    {Junction(k, <<p, Compare("b", ">", One)>>) : k \in {"and", "or"}, p \in Pairs}
    \cup {Junction("or", <<Compare("b", ">", One), p>>) : p \in Pairs}
    \cup {Not(p) : p \in Pairs \cup Few \cup {Not(Compare("a", ">", Zero))}}
    \cup {Junction("and", <<Compare("a", ">=", One), Compare("a", op, One)>>) :
            op \in Operators}
    \cup {Not(Not(Not(p))) : p \in Few}
    \cup {Junction(k, <<p, q, r>>) : k \in {"and", "or"}, p \in Few,
            q \in {Compare("a", ">", Zero)},
            r \in {Compare("a", "<", Half), Compare("b", "<>", Zero)}}

\* More parentheses than the parser follows.
TooDeep ==
    {Not(Not(Not(Not(p)))) : p \in Few}
    \cup {Junction("or", <<Not(Not(Not(p))), Not(Not(Not(Not(q))))>>) :
            p \in Few, q \in Few}

CheckEdit(e, classes, nullable, default) ==
    [kind |-> "check", expr |-> e, classes |-> classes, nullable |-> nullable,
     default |-> default]
CheckEdits ==
    {CheckEdit(e, Numbers, n, <<>>) :
        e \in Predicates \cup Pairs \cup Nested \cup TooDeep, n \in {{"a", "b"}, {"b"}}}

\* Literals of every kind on columns of every class, with defaults.
Literals == {One, Half, <<"int", 2>>, <<"string", 1>>, <<"bool", 1>>, NullLiteral}
Defaults == {<<l>> : l \in (Literals \ {NullLiteral})
                           \cup {<<"string", 2>>, <<"string", Unquoted + 1>>}}
TypedEdits ==
    {CheckEdit(e, [Numbers EXCEPT !.a = class], {"a"}, default) :
        e \in {Compare("a", op, l) : op \in {"=", "<>", "<"}, l \in Literals}
              \cup {In("a", <<l, m>>, FALSE) : l \in Literals, m \in Literals}
              \cup {Between("a", l, m, FALSE) : l \in Literals, m \in Literals},
        class \in {"number", "text", "boolean"},
        default \in Defaults \cup {<<>>}}

ReplaceEdits ==
    LET some == {Compare("a", ">", Zero), Compare("b", "<>", Zero)}
        joined == {Junction(k, <<p, q>>) : k \in {"and", "or"}, p \in some, q \in some}
                  \cup {Junction(k, <<p, q, r>>) : k \in {"and", "or"},
                          p \in some, q \in some, r \in some}
    IN  {[kind |-> "replace", old |-> e, new |-> f, classes |-> Numbers] :
            e \in Predicates, f \in Predicates}
        \cup {[kind |-> "replace", old |-> e, new |-> f, classes |-> Numbers] :
                e \in joined \cup some, f \in joined \cup some}

UniqueEdits == {[kind |-> "unique", cols |-> cols, key |-> key] :
                  cols \in {<<"a">>, <<"a", "b">>},
                  key \in {<<"id">>, <<"a">>, <<"id", "b">>}}

ForeignEdits ==
    {[kind |-> "foreign", cols |-> cols, self |-> FALSE, nullable |-> n] :
        cols \in {<<"a">>, <<"a", "b">>}, n \in {{"a", "b"}, {"b"}}}
    \cup {[kind |-> "foreign", cols |-> <<"a">>, self |-> TRUE, nullable |-> {"a"}]}

TypeEdits ==
    LET Groups == {{Sized("varchar", 1), Sized("varchar", 2), Sized("char", 1),
                      Sized("char", 2), Simple("text")},
                     {Numeric(p, s) : p \in 1..3, s \in 0..2},
                     {Simple("small_int"), Simple("integer"), Simple("big_int")},
                     {Simple("real"), Simple("double_precision")},
                     {Simple("timestamp"), Simple("timestamptz")}}
    IN  {[kind |-> "type", from |-> p[1], to |-> p[2]] :
            p \in {q \in UNION {f \X f : f \in Groups} : q[1] # q[2]}}

\* Foreign keys of up to five tables: chains, diamonds, cycles, and one that
\* does not cascade.
CascadeEdits ==
    LET Fk(child, parent) == <<child, parent, TRUE>>
        bases == {<<>>, <<Fk("c2", "c1"), Fk("c3", "c2")>>,
                  <<Fk("c2", "c1"), Fk("c3", "c2"), Fk("c3", "c1"), Fk("c4", "c3")>>,
                  <<Fk("c3", "c1"), Fk("c2", "c1"), Fk("c3", "c2"), Fk("c4", "c3")>>,
                  <<Fk("c2", "c1"), Fk("c1", "c2"), <<"c3", "c2", FALSE>>, Fk("c4", "c3")>>}
    IN  {[kind |-> "cascade", baseline |-> base, added |-> added] :
            base \in bases,
            added \in {<< <<c, p, k>> >> : c \in {"c1", "c2", "c4", "c5"},
                                           p \in {"c1", "c3", "c5"}, k \in BOOLEAN}
                      \cup {<<Fk("c5", "c1"), Fk("c1", p)>> : p \in {"c4", "c5"}}}

MCEdits == CheckEdits \cup TypedEdits \cup ReplaceEdits \cup UniqueEdits
           \cup ForeignEdits \cup TypeEdits \cup CascadeEdits

----------------------------------------------------------------------------
Row(id, a, b) == [id |-> <<id>>, a |-> a, b |-> b]
Held(rs, ps) == [rows |-> rs, parents |-> ps]
NullOr(vs) == {<<>>} \cup {<<v>> : v \in vs}
Tables(ids, as, bs) ==
    UNION {{{Row(i, f[i][1], f[i][2]) : i \in is} : f \in [is -> as \X bs]}
              : is \in SUBSET ids}

MCContents(e) ==
    LET values(c, vs) == IF c \in e.nullable THEN NullOr(vs) ELSE {<<v>> : v \in vs}
    IN  CASE e.kind = "check" /\ e.default # <<>> -> {Held({}, {})}
          [] e.kind = "check" ->
                {Held(t, {}) : t \in {{}} \cup {{r} : r \in
                    {s \in AllRows(e.classes) :
                        \A c \in {"a", "b"} : s[c] = <<>> => c \in e.nullable}}}
          [] e.kind = "replace" ->
                {Held({r}, {}) : r \in {s \in AllRows(e.classes) :
                    s.b \in NullOr({0, 15}) /\ Passes(e.old, s, e.classes)}}
          [] e.kind = "unique" ->
                {Held(t, {}) : t \in {u \in Tables(1..3,
                        IF "a" \in ToSet(e.key) THEN {<<0>>, <<1>>} ELSE NullOr({0, 1}),
                        IF Len(e.cols) = 1 THEN {<<0>>}
                        ELSE IF "b" \in ToSet(e.key) THEN {<<0>>, <<1>>}
                        ELSE NullOr({0, 1}))
                    : \A r, s \in u : KeyOf(r, e.key) = KeyOf(s, e.key) => r = s}}
          [] e.kind = "foreign" ->
                {Held(t, ps) : t \in Tables(1..2, values("a", {1, 2}), values("b", {1, 2})),
                    ps \in IF Len(e.cols) = 1 THEN SUBSET {<< <<1>> >>, << <<2>> >>}
                           ELSE {{}, {<< <<1>>, <<1>> >>},
                                 {<< <<1>>, <<1>> >>, << <<2>>, <<1>> >>}}}
          [] e.kind = "type" ->
                {Held({Row(1, v, <<>>)}, {}) : v \in {<<>>} \cup
                    {<<n>> : n \in {m \in {-1000, -996, -100, -4, -3, -2, -1, 0, 1, 2,
                              3, 4, 5, 50, 90, 95, 96, 99, 100, 105, 900, 950, 995, 996,
                              999, 1000, 9950, 9990} :
                        /\ Storable(e.from, m)
                        /\ m >= 0 \/ e.from.kind \notin StringKinds}}}
          [] OTHER -> {Held({}, {})}

MCTypos == {Word("AND"), Word("NOT"), Word("("), Word(")"), Ident("b"), Lit(One)}
=============================================================================
