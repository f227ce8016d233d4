------------------------------ MODULE MCEditing -----------------------------
(***************************************************************************)
(* Three model files: a table with an enum, a CHECK and a UNIQUE, one that *)
(* refers to it in a column and in a constraint, and one in YAML that uses *)
(* the short form; and what they may be changed to.                        *)
(***************************************************************************)
EXTENDS Editing

MCUri == 1..3
MCFormatOf == <<"json", "json", "yaml">>
MCStemOf == <<<<"user">>, <<"post">>, <<"note">>>>
MCNewNames == {<<"fresh">>, <<"id">>}
MCShortens == {<<"a", "age">>}

Literal(sort, rank) == [kind |-> "number", sort |-> sort, rank |-> rank]
Word(kind) == [kind |-> kind, sort |-> "", rank |-> 0]
MCLexeme ==
    ("9" :> Literal("integer", 9)) @@ ("1" :> Literal("integer", 1))
    @@ ("AND" :> Word("keyword")) @@ ("BETWEEN" :> Word("keyword"))
    @@ ("NOT" :> Word("keyword")) @@ ("=" :> Word("operator"))

----------------------------------------------------------------------------
\* One column: its name and its other leaves, of which a path is relative.
At(key, k, leaves) ==
    [j \in DOMAIN leaves |->
        Leaf(<<Step(key, k)>> \o leaves[j].path, leaves[j].text)]
Entry(key, text) == Leaf(<<Step(key, 0)>>, text)
Item(key, k, text) == Leaf(<<Step(key, k)>>, text)
Inside(key, leaves) == At(key, 0, leaves)

Id == At("columns", 1, <<Entry("name", <<"id">>), Entry("type", <<"integer">>),
                         Entry("nullable", <<"false">>),
                         Entry("primary_key", <<"true">>)>>)

Role(k) == At("columns", k,
    <<Entry("name", <<"role">>)>>
    \o Inside("type", <<Entry("kind", <<"enum">>), Entry("name", <<"age">>),
                        Item("values", 1, <<"low">>), Item("values", 2, <<"top">>)>>)
    \o <<Entry("nullable", <<"false">>), Entry("default", <<"'", "low", "'">>)>>)

Age(k) == At("columns", k,
    <<Entry("name", <<"age">>), Entry("type", <<"integer">>),
      Entry("nullable", <<"true">>)>>)

Title(k) == At("columns", k,
    <<Entry("name", <<"title">>), Entry("type", <<"text">>),
      Entry("nullable", <<"false">>), Entry("unique", <<"false">>),
      Entry("default", <<"'", "new", "'">>)>>)

RefersTo(name, cols) ==
    Inside("foreign_key", <<Entry("ref_table", name)>> \o cols)

Author(k, name, cols) == At("columns", k,
    <<Entry("name", <<"author">>), Entry("type", <<"integer">>),
      Entry("nullable", <<"true">>), Entry("index", <<"true">>)>>
    \o RefersTo(name, cols))

Owner(k) == At("columns", k,
    <<Entry("name", <<"owner">>), Entry("type", <<"integer">>),
      Entry("nullable", <<"true">>), Entry("foreign_key", <<"user", ".", "id">>)>>)

CheckOf(k, expr) == At("constraints", k,
    <<Entry("type", <<"check">>), Entry("name", <<"ck">>), Entry("expr", expr)>>)
UniqueOf(k, col) == At("constraints", k,
    <<Entry("type", <<"unique">>), Item("columns", 1, col)>>)
ForeignOf(k, col, name, ref) == At("constraints", k,
    <<Entry("type", <<"foreign_key">>), Item("columns", 1, col),
      Entry("ref_table", name), Item("ref_columns", 1, ref)>>)

Named(name) == <<Entry("name", name)>>

User == Named(<<"user">>) \o Id \o Role(2) \o Age(3)
        \o CheckOf(1, <<"age", "BETWEEN", "9", "AND", "1">>)
\* The constraints come first, and the expression is being typed.
UserLate == Named(<<"user">>) \o UniqueOf(1, <<"age">>) \o CheckOf(2, <<"a">>)
            \o Id \o Age(2)
Post == Named(<<"post">>) \o Id
        \o Author(2, <<"user">>, <<Item("ref_columns", 1, <<"id">>)>>)
        \o ForeignOf(1, <<"author">>, <<"user">>, <<"age">>)
\* Another table of the same name, without a key.
Double == Named(<<"user">>) \o Title(1)
\* A reference without columns, and a column without a type.
Empty == Named(<<"post">>) \o Id \o Author(2, <<"user">>, <<Entry("ref_columns", EmptyArray)>>)
Broken == Named(<<"post">>) \o At("columns", 1, <<Entry("name", <<"id">>)>>)
Note == Named(<<"note">>) \o Id \o Owner(2)
\* The name of the table comes last.
Plain == Id \o Author(2, <<"post">>, <<Item("ref_columns", 1, <<"id">>)>>)
         \o Named(<<"note">>)

MCDisks == {<<User, Post, Note>>, <<UserLate, Double, Plain>>}
MCDrafts == <<{UserLate}, {Post, Double, Empty, Broken}, {Note, Plain}>>
=============================================================================
