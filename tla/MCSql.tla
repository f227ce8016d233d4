------------------------------- MODULE MCSql --------------------------------
(***************************************************************************)
(* Catalogues for the SQL of migrations.                                   *)
(***************************************************************************)
EXTENDS SqlMigration, MCModels

\* e1 and e2 are about a; the text of e3 has an "a" in it but is about b.
MCExprColumns == [e1 |-> {"a"}, e2 |-> {"a"}, e3 |-> {"b"}]
MCExprText == [e1 |-> {"a"}, e2 |-> {"a"}, e3 |-> {"a", "b"}]

\* Enum types that two columns share, that lose or exchange values, and
\* integer enums that get other numbers.
EnumTables ==
    LET mood(name) == Column(name, StringEnum("mood", <<"x", "y">>))
        plain(name) == Column(name, TextType)
    IN  {Only("t", Table(<<Id, mood("a")>>, <<>>)),
         Only("t", Table(<<Id, mood("a"), mood("b")>>, <<>>)),
         Only("t", Table(<<Id, plain("a"), mood("b")>>, <<>>)),
         [m |-> Table(<<Id, mood("a")>>, <<>>), t |-> Table(<<Id>>, <<>>)]}
EnumValueTables ==
    LET Mood(names) == Column("a", StringEnum("mood", names))
        Level(n) == Column("a", IntegerEnum("level", << <<"x", 1>>, <<"y", n>> >>))
    IN  {Only("t", Table(<<Id, col>>, <<>>)) :
            col \in {Mood(<<"x", "y">>), Mood(<<"x", "y", "z">>), Mood(<<"x">>),
                     Level(2), Level(3)}}
RenamedValueTables ==
    {Only("t", Table(<<Id, Column("a", StringEnum("mood", names))>>, <<>>)) :
        names \in {<<"x", "y">>, <<"y", "z">>}}

\* Keys: a serial that grows, and unique constraints on tables without a key
\* that tells rows apart.
KeyTables ==
    LET Serial(type) == [Column("id", type) EXCEPT !.pk = "auto"]
        pair == <<PlainId, Column("a", IntType), Col("b")>>
        both == PrimaryKey(<<"id", "a">>, "")
    IN  {Only("t", Table(<<Serial(IntType)>>, <<>>)),
         Only("t", Table(<<Serial(SimpleType("big_int"))>>, <<>>)),
         Only("t", Table(pair, <<both>>)),
         Only("t", Table(pair, <<both, Unique(Absent, <<"b">>)>>))}

\* Columns that go away with a CHECK, or out of a constraint on two columns.
LeavingTables ==
    LET plain == <<Id, Col("a"), Col("b")>>
    IN  {Only("t", Table(plain, <<>>)),
         Only("t", Table(<<Id, Col("b")>>, <<>>)),
         Only("t", Table(plain, <<Check(<<"c">>, "e1")>>)),
         Only("t", Table(plain, <<Check(<<"c">>, "e3")>>)),
         Only("t", Table(plain, <<Index(Absent, <<"a", "b">>)>>)),
         Only("t", Table(<<Id, Col("b")>>, <<Index(Absent, <<"b">>)>>))}

\* Tables and columns that get another name and then lose a constraint.
MovingTables ==
    LET key == Unique(Absent, <<"a">>)
    IN  {Only("t", Keyed(<<Col("a")>>)),
         Only("t", Table(<<PlainId, Col("a")>>, <<Key, key>>)),
         Only("m", Table(<<PlainId, Col("a")>>, <<Key, key>>)),
         Only("m", Keyed(<<Col("a")>>)),
         Only("t", Table(<<PlainId, Col("a")>>, <<Key, Check(<<"c">>, "e1")>>)),
         Only("t", Table(<<PlainId, Col("b")>>, <<Key, Check(<<"c">>, "e3")>>))}

MCCatalogues ==
    [columns |-> ColumnModels, constraints |-> ConstraintModels,
     tables |-> TableModels, renames |-> RenameModels, enums |-> EnumTables,
     values |-> EnumValueTables, labels |-> RenamedValueTables,
     keys |-> KeyTables, leaving |-> LeavingTables, moving |-> MovingTables,
     defaults |-> NotNullModels]
MCRenaming == {"renames", "moving"}
MCPrefixes == {"", "v_"}
=============================================================================
