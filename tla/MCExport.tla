------------------------------ MODULE MCExport ------------------------------
(***************************************************************************)
(* Instances of Export: projects whose directory is followed over several  *)
(* exports, and one-shot projects whose names are hard to tell apart.      *)
(***************************************************************************)
EXTENDS Export

CONSTANT MaxExports

Whole == SimpleType(<<"Integer">>)
Table(name, cols, cons) == [name |-> name, cols |-> cols, cons |-> cons]
Id == Column(<<"id">>, Whole)
Plain(names) == [i \in DOMAIN names |-> Column(names[i], Whole)]
Key(cols, target) ==
    ForeignKey(Absent, cols, target, [i \in DOMAIN cols |-> <<"id">>], "")
IdKey == PrimaryKey(<<<<"id">>>>, "")
Model(dirs, stem, table) == [dirs |-> dirs, stem |-> stem, table |-> table]
User == Table(<<"user">>, <<Id>>, <<IdKey>>)

\* Names with `-` go to a directory of their own: order-item and order_item
\* would be written to one file.
DirsFor(t) == IF Contains(t.name, "-") THEN <<<<"dash">>>> ELSE <<>>
OneShot(tables, orms) ==
    [versions |-> {{Model(DirsFor(t), t.name, t) : t \in tables}},
     orms |-> orms, exports |-> 1]
Renderable == {"prisma", "drizzle", "gorm", "django", "seaorm"}

\* A table `post` with two keys, on columns whose relations want one name.
KeyColumns == {<<"user", "id">>, <<"user">>, <<"author", "id">>, <<"author">>,
               <<"post", "id">>}
TwoKeys ==
    {{User, Table(<<"post">>, <<Id>> \o Plain(<<c, d>>),
                  <<IdKey, Key(<<c>>, t), Key(<<d>>, u)>>
                      \o (IF one THEN <<Unique(Absent, <<c>>)>> ELSE <<>>))} :
        c \in KeyColumns, d \in KeyColumns, t \in {<<"user">>, <<"post">>},
        u \in {<<"user">>, <<"post">>}, one \in BOOLEAN}
Distinct(tables) == \A t \in tables : IsInjective(ColumnSeq(t))

\* Three tables with every pattern of references between and inside them.
Ref(t) == Append(t, "id")
Names == {<<"user">>, <<"post">>, <<"note">>}
Linked(links) ==
    {LET targets == SetToSeq({t \in Names : <<n, t>> \in links})
         cols == [i \in DOMAIN targets |-> Ref(targets[i])]
     IN  Table(n, <<Id>> \o Plain(cols),
               <<IdKey>> \o [i \in DOMAIN cols |-> Key(<<cols[i]>>, targets[i])]) :
     n \in Names}
References3 ==
    LET others == {<<n, n>> : n \in {<<"user">>, <<"note">>}}
    IN  {Linked(links) : links \in SUBSET ((Names \X Names) \ others)}

\* Junctions of user and tag, of user with itself, and a direct reference.
Junction(name, c, t, d, u) ==
    Table(name, Plain(<<c, d>>), <<PrimaryKey(<<c, d>>, ""), Key(<<c>>, t), Key(<<d>>, u)>>)
Tagged ==
    Junction(<<"user", "tag">>, <<"user", "id">>, <<"user">>, <<"tag", "id">>, <<"tag">>)
Rated == Junction(<<"rating">>, <<"tag">>, <<"tag">>, <<"user">>, <<"user">>)
Friends(c, d) == Junction(<<"friend">>, c, <<"user">>, d, <<"user">>)
Tag(cols) == Table(<<"tag">>, <<Id>> \o Plain(cols),
                   <<IdKey>> \o [i \in DOMAIN cols |-> Key(<<cols[i]>>, <<"user">>)])
Junctions ==
    {{User, tag} \cup more :
        tag \in {Tag(<<>>), Tag(<<<<"user", "id">>>>),
                Tag(<<<<"owner", "id">>, <<"tag", "user">>>>)},
        more \in SUBSET {Tagged, Rated, Friends(<<"left", "id">>, <<"right", "id">>)}}
    \cup {{User, Friends(<<"user">>, <<"user", "id">>)}}

\* Enums and tables whose identifiers coincide.
Status(label, variants) == Column(<<"state">>, StringEnum(label, variants))
Labels == {<<"status">>, <<"order", "status">>, <<"order">>, <<"status", "-", "code">>}
VariantLists == {<<<<"new">>, <<"old">>>>, <<<<"code">>, <<"code", "new">>>>}
Enumerated(name, col) == Table(name, <<Id, col>>, <<IdKey>>)
Enums ==
    {{Enumerated(<<"order">>, Status(l, v)),
      Enumerated(n, [Status(m, w) EXCEPT !.name = <<"kind">>])} :
        l \in Labels, m \in Labels, v \in VariantLists, w \in VariantLists,
        n \in {<<"item">>, <<"status">>, <<"order", "status">>}}
    \cup {{Enumerated(<<"order">>, Status(<<"status">>, v)),
           Enumerated(<<"item">>, Status(<<"status">>, w)),
           Enumerated(<<"bill">>, Status(<<"order", "status">>, w))} :
             v \in VariantLists, w \in VariantLists}

\* Composite keys, keys to keys, keys to unique columns.
Pair == <<<<"org", "id">>, <<"user", "id">>>>
Member == Table(<<"member">>, Plain(Pair), <<PrimaryKey(Pair, "")>>)
Composite(second) ==
    ForeignKey(Absent, <<Pair[1], second>>, <<"member">>, Pair, "")
Composites ==
    {{Member, Table(<<"log">>, <<Id>> \o Plain(<<<<"org", "id">>, c, d>>),
                    <<IdKey, Composite(c), Composite(d)>>)} :
        c \in {<<"user", "id">>, <<"member">>}, d \in {<<"by", "id">>, <<"member", "id">>}}
Profile(key) ==
    Table(<<"profile">>, <<Id, Column(<<"code">>, Whole)>>,
          <<IdKey, Unique(Absent, <<<<"code">>>>)>> \o key)
Chains ==
    {{User, Profile(key),
      Table(<<"post">>, <<Id, Column(c, Whole)>>,
            <<IdKey, ForeignKey(Absent, <<c>>, <<"profile">>, <<to>>, "")>>)} :
        key \in {<<>>, <<Key(<<<<"id">>>>, <<"user">>)>>},
        c \in {<<"profile", "id">>, <<"profile", "code">>, <<"code">>},
        to \in {<<"id">>, <<"code">>}}

\* Names that fold to one identifier and names that the generated code uses.
Folding ==
    {{User, Table(n, <<Id>> \o Plain(cols), <<IdKey>> \o keys),
      Table(<<"order", "item">>, <<Id>>, <<IdKey>>)} :
        n \in {<<"order", "-", "item">>, <<"sql">>, <<"t">>,
               <<"order", "item", "relation", "s">>},
        cols \in {<<<<"user", "-", "id">>, <<"user", "id">>>>,
                  <<<<"user", "id">>, <<"user", "ID">>>>,
                  <<<<"table", "name">>, <<"user", "id">>>>,
                  <<<<"pk">>, <<"user", "id">>>>},
        keys \in {<<>>, <<Key(<<<<"user", "id">>>>, <<"user">>)>>}}

NamingProjects ==
    {OneShot(t, Renderable) : t \in
        {s \in TwoKeys : Distinct(s)} \cup References3 \cup Junctions \cup Enums
            \cup Composites \cup Chains \cup Folding}

\* A column of every class of types with every shape of default.
OtherType(kind, label) == [kind |-> kind, label |-> label, vals |-> <<>>]
SimpleLabels ==
    {"SmallInt", "Integer", "BigInt", "Real", "DoublePrecision", "Text", "Boolean",
     "Date", "Time", "Timestamp", "Timestamptz", "Interval", "Bytea", "Uuid", "Json",
     "Inet", "Cidr", "Macaddr", "Xml"}
ColumnTypes ==
    {SimpleType(<<l>>) : l \in SimpleLabels}
    \cup {OtherType(k, <<>>) : k \in {"varchar", "char", "numeric"}}
    \cup {OtherType("custom", l) : l \in {<<"money">>, <<"jsonb">>}}
    \cup {StringEnum(<<"status">>, <<<<"new">>, <<"old">>>>),
          IntegerEnum(<<"level">>, <<<<<<"new">>, <<"5">>>>>>)}
Shapes == {"bool", "number", "quoted", "bare", "json", "now", "nowCall", "uuidCall", "call"}
Texts(shape) == IF shape = "bare" THEN {<<"new">>, <<"other">>} ELSE {<<"5">>}
Defaults == {Absent} \cup UNION {{<<Default(s, t)>> : t \in Texts(s)} : s \in Shapes}
Typed(type, null, default) ==
    [Column(<<"value">>, type) EXCEPT !.nullable = null, !.default = default]
Holding(id, col, more) == Table(<<"item">>, <<id, col>>, <<IdKey>> \o more)
ToValue == ForeignKey(Absent, <<<<"value">>>>, <<"item">>, <<<<"id">>>>, "")
TypedTables ==
    {{Holding(Id, Typed(type, default = Absent, default), <<>>)} :
        type \in ColumnTypes, default \in Defaults}
    \cup {{Holding([Column(<<"id">>, type) EXCEPT !.pk = auto],
                   Typed(type, null, Absent), <<ToValue>>)} :
            type \in ColumnTypes, auto \in {"yes", "auto"}, null \in BOOLEAN}
    \cup {{Table(<<"item">>, <<Id, Typed(IntegerEnum(level, <<<<<<"new">>, <<"5">>>>>>), TRUE, Absent),
                               Status(<<"level">>, <<<<"new">>>>)>>, <<IdKey>>)} :
            level \in {<<"level">>, <<"grade">>}}

\* Constraints that overlap on the columns a, b and c.
A == <<"a">>
B == <<"b">>
C == <<"c">>
Small == {Unique(Absent, <<A>>), Unique(Absent, <<C>>), Unique(Absent, <<A, B>>),
          Unique(Absent, <<B, C>>),
          Index(Absent, <<A>>), Index(Absent, <<C>>), Index(Absent, <<B, C>>),
          Check(<<<<"ck">>>>, "a > 0")}
ToUser(col, action) == ForeignKey(Absent, <<col>>, <<"user">>, <<<<"id">>>>, action)
KeySets ==
    {<<>>, <<ToUser(A, "set_null")>>, <<ToUser(C, "set_null")>>,
     <<ToUser(B, "set_default")>>, <<ToUser(A, ""), ToUser(A, "cascade")>>,
     <<ForeignKey(Absent, <<B>>, <<"log">>, <<C>>, "")>>,
     <<ForeignKey(Absent, <<B, C>>, <<"log">>, <<A, B>>, "cascade")>>}
Constrained(pk, small, keys) ==
    Table(<<"log">>, <<Column(A, Whole), Column(B, Whole),
                       [Column(C, Whole) EXCEPT !.nullable = TRUE]>>,
          <<PrimaryKey(pk, "")>> \o SetToSeq(small) \o keys)
ConstrainedTables ==
    {{User, Constrained(pk, small, keys)} : pk \in {<<A>>, <<A, B>>}, keys \in KeySets,
        small \in {s \in SUBSET Small : Cardinality(s) <= 2}}

StatingProjects == {OneShot(t, Orms) : t \in TypedTables \cup ConstrainedTables}

\* A directory over several exports: models move, go away and become invalid.
Post == Table(<<"post">>, <<Id, Column(<<"user", "id">>, Whole)>>,
              <<IdKey, Key(<<<<"user", "id">>>>, <<"user">>)>>)
Twice == [User EXCEPT !.cols = <<[Id EXCEPT !.ix = <<<<"g">>, <<"g">>>>]>>]
UserModel == Model(<<>>, <<"user">>, User)
PostModel == Model(<<<<"blog">>>>, <<"post">>, Post)
Versions ==
    {{UserModel, PostModel}, {UserModel},
     {UserModel, Model(<<>>, <<"blog", "-", "post">>, Post)},
     {Model(<<>>, <<"user">>, Twice)}}
DirectoryProjects == {[versions |-> Versions, orms |-> Orms, exports |-> MaxExports]}

MCProjects == NamingProjects \cup StatingProjects \cup DirectoryProjects
MCOwnPaths == {Path(<<>>, <<"schema">>, "ts"), Path(<<>>, <<"model", "s">>, "py")}

\* The instance is one that the theorems of ExportProofs are about.
ASSUME ApartAssumption == PathsApart /\ OwnPathsApart
=============================================================================
