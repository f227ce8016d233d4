------------------------------ MODULE MCModels ------------------------------
(***************************************************************************)
(* Catalogues of model files, for the modules that are model-checked on    *)
(* schemas.                                                                *)
(***************************************************************************)
EXTENDS Answers

Names == <<"a", "b", "id", "m", "p", "q", "r", "t">>

IntType == SimpleType("integer")
TextType == SimpleType("text")
Id == [Column("id", IntType) EXCEPT !.pk = "yes"]
Col(name) == [Column(name, IntType) EXCEPT !.nullable = TRUE]
Table(cols, cons) == [cols |-> cols, cons |-> cons]
Only(t, table) == [n \in {t} |-> table]

----------------------------------------------------------------------------
(* One table, whose second column changes type, default, nullability,      *)
(* comment and enum values, or is not there.                               *)

Str(text) == <<Default("str", text)>>
ColumnForms ==
    LET a(type) == Column("a", type)
    IN  {a(IntType),
         [a(IntType) EXCEPT !.nullable = TRUE, !.comment = <<"note">>],
         [a(TextType) EXCEPT !.default = Str("true")],
         [a(TextType) EXCEPT !.default = <<Default("bool", "true")>>],
         [a(StringEnum("mood", <<"x", "y">>)) EXCEPT !.default = Str("x")],
         [a(StringEnum("state", <<"y">>)) EXCEPT !.default = Str("y")],
         a(IntegerEnum("level", << <<"x", 1>>, <<"y", 2>> >>)),
         a(IntegerEnum("level", << <<"y", 1>>, <<"x", 2>> >>))}

ColumnModels ==
    {Only("t", Table(<<Id>>, <<>>))}
    \cup {Only("t", Table(<<Id, a>>, <<>>)) : a \in ColumnForms}

----------------------------------------------------------------------------
(* One table with three columns, whose keys, unique constraints, indexes   *)
(* and CHECKs change, inline and at table level.                           *)

ConstraintTables ==
    LET plain == <<Id, Col("a"), Col("b")>>
        A(col) == <<Id, col, Col("b")>>
        solid == <<Id, Column("a", IntType), Col("b")>>
        NoKey(cols) == [cols EXCEPT ![1].pk = "no"]
        uqA == [Col("a") EXCEPT !.uq = <<Absent>>]
        ixA == [Col("a") EXCEPT !.ix = <<Absent, <<"g">>>>]
        grouped == <<Id, [Col("a") EXCEPT !.uq = <<<<"g">>>>],
                     [Col("b") EXCEPT !.uq = <<<<"g">>>>]>>
    IN  {Table(plain, <<>>),
         Table(A(uqA), <<Unique(Absent, <<"a">>)>>),
         Table(A(uqA), <<>>),
         Table(plain, <<Unique(<<"n">>, <<"a">>)>>),
         Table(plain, <<Unique(<<"n">>, <<"b", "a">>), Check(<<"c">>, "e1")>>),
         Table(plain, <<Check(<<"c">>, "e2")>>),
         Table(A(ixA), <<>>),
         Table(plain, <<Index(AutoIndexName("t", "a"), <<"a">>)>>),
         Table(grouped, <<>>),
         Table(NoKey(plain), <<PrimaryKey(<<"id">>, "auto")>>),
         Table(NoKey(solid), <<PrimaryKey(<<"id", "a">>, "")>>)}

ConstraintModels == {Only("t", table) : table \in ConstraintTables}

----------------------------------------------------------------------------
(* Up to three tables and the foreign keys between them.                   *)

Ref(table) == <<ForeignKeyDef(table, <<"id">>, "")>>
Inline(table) == [Col("a") EXCEPT !.fk = Ref(table)]
Leaf == Table(<<Id>>, <<>>)
Child(parent) == Table(<<Id, Inline(parent)>>, <<>>)
ChildByTable(parent) ==
    Table(<<Id, Col("a")>>,
          <<ForeignKey(<<"f">>, <<"a">>, parent, <<"id">>, "cascade")>>)
FirmChild(parent) ==
    Table(<<Id, [Inline(parent) EXCEPT !.nullable = FALSE]>>, <<>>)

TableModels ==
    {NoTables,
     [n \in {"p"} |-> Leaf],
     [p |-> Leaf, q |-> Table(<<Id, Col("a")>>, <<>>)],
     [p |-> Leaf, q |-> Child("p")],
     [p |-> Leaf, q |-> ChildByTable("p")],
     [p |-> Leaf, q |-> FirmChild("p")],
     [p |-> Child("q"), q |-> Leaf],
     [p |-> Leaf, q |-> Child("p"), r |-> Child("q")],
     [p |-> Child("r"), q |-> Child("p"), r |-> Leaf]}

----------------------------------------------------------------------------
(* Columns and tables that change their name, with their keys declared at  *)
(* table level.                                                            *)

Key == PrimaryKey(<<"id">>, "")
SerialPk == PrimaryKey(<<"id">>, "auto")
PlainId == Column("id", IntType)
Keyed(cols) == Table(<<PlainId>> \o cols, <<Key>>)
TextCol(name) == [Column(name, TextType) EXCEPT !.default = Str("x")]
Linked(parent) ==
    Table(<<PlainId, Col("a")>>,
          <<Key, ForeignKey(Absent, <<"a">>, parent, <<"id">>, "")>>)

RenameModels ==
    {Only("t", Keyed(<<Col("a")>>)),
     Only("t", Keyed(<<Col("b")>>)),
     Only("t", Keyed(<<TextCol("b")>>)),
     Only("t", Keyed(<<Col("a"), TextCol("b")>>)),
     Only("m", Keyed(<<Col("a")>>)),
     Only("m", Keyed(<<TextCol("b")>>)),
     [q |-> Linked("t"), t |-> Keyed(<<Col("a")>>)],
     [q |-> Linked("m"), m |-> Keyed(<<Col("a")>>)]}

----------------------------------------------------------------------------
(* One table whose second column changes its type and default, and which a *)
(* second table refers to with policies that change.                       *)

RetypedModels ==
    LET Labels == {"small_int", "integer", "big_int", "real", "double_precision",
                   "timestamp", "timestamptz"}
        Retyped(label, default) ==
            Only("t", Table(<<Id, [Column("a", SimpleType(label)) EXCEPT !.default = default]>>,
                            <<>>))
    IN  {Retyped(label, Absent) : label \in Labels}
        \cup {Retyped("integer", Str("1")), Retyped("big_int", Str("2"))}

PolicyModels ==
    {[p |-> Leaf, q |-> Table(<<Id, Col("a")>>,
        <<ForeignKey(name, <<"a">>, "p", <<"id">>, opt)>>)] :
            name \in {Absent, <<"f">>}, opt \in {"", "no_action", "cascade"}}

----------------------------------------------------------------------------
(* Pairs of models between which the command and its documentation differ. *)

\* The second column of a composite primary key goes away.
KeyColumnModels ==
    LET a == Column("a", IntType)
    IN  {Only("t", Table(<<PlainId, a>>, <<PrimaryKey(<<"id", "a">>, "")>>)),
         Only("t", Keyed(<<>>))}

\* A column with a default becomes NOT NULL.
NotNullModels ==
    {Only("t", Table(<<Id, [TextCol("a") EXCEPT !.nullable = n]>>, <<>>)) :
        n \in BOOLEAN}

----------------------------------------------------------------------------
(* Two users at once: a column that is renamed or gets a unique            *)
(* constraint, next to a key that the command offers to widen.             *)

SharedModels ==
    {Only("t", Table(<<PlainId, Col("a")>>, <<SerialPk>>)),
     Only("t", Table(<<PlainId, Col("a")>>, <<SerialPk, Unique(<<"n">>, <<"a">>)>>)),
     Only("t", Table(<<PlainId, Column("b", TextType)>>, <<SerialPk>>))}
=============================================================================
