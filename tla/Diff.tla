-------------------------------- MODULE Diff --------------------------------
(***************************************************************************)
(* Comparing two schemas into a migration plan: crates/vespertide-planner/ *)
(* src/diff.  Both sides are normalised for the comparison; a CreateTable  *)
(* action carries the definition as the user wrote it.                     *)
(***************************************************************************)
EXTENDS Apply

CONSTANT NameOrder   \* every table and column name, in BTreeMap key order

InOrder(S) == SelectSeq(NameOrder, LAMBDA n : n \in S)
ForEach(seq, F(_)) == FlattenSeq([i \in DOMAIN seq |-> F(seq[i])])
When(cond, action) == IF cond THEN <<action>> ELSE <<>>

----------------------------------------------------------------------------
(* Columns of a table that exists on both sides: deletions, then type,     *)
(* enum value, nullability, default and comment changes, then additions.   *)

\* A label change of a string enum renames its database type.
NeedsTypeChange(old, new) ==
    \/ RequiresMigration(old, new)
    \/ old.kind = "senum" /\ new.kind = "senum" /\ old.label # new.label

\* compute_integer_enum_remapping: variants on both sides whose value moved.
EnumRemapping(old, new) ==
    IF old.kind # "ienum" \/ new.kind # "ienum" THEN {}
    ELSE {<<p[1][2], p[2][2]>> :
            p \in {q \in ToSet(old.vals) \X ToSet(new.vals) :
                     q[1][1] = q[2][1] /\ q[1][2] # q[2][2]}}

DiffColumnTypes(t, c, old, new) ==
    When(NeedsTypeChange(old.type, new.type),
         ModifyColumn(t, c, "type", new.type))
DiffIntegerEnumRemappings(t, c, old, new) ==
    When(EnumRemapping(old.type, new.type) # {},
         RemapEnumValues(t, c, EnumRemapping(old.type, new.type)))
DiffColumnNullability(t, c, old, new) ==
    When(old.nullable # new.nullable,
         ModifyColumn(t, c, "nullable", new.nullable))
\* Defaults are compared as SQL, and the action carries SQL.
DiffColumnDefaults(t, c, old, new) ==
    When(DefaultSql(old.default) # DefaultSql(new.default),
         ModifyColumn(t, c, "default",
             [i \in DOMAIN new.default |->
                 Default("str", ToSql(new.default[i]))]))
DiffColumnComments(t, c, old, new) ==
    When(old.comment # new.comment,
         ModifyColumn(t, c, "comment", new.comment))

DiffColumns(t, old, new) ==
    LET both == InOrder(ColumnNames(old) \cap ColumnNames(new))
        Each(D(_, _, _, _)) ==
            ForEach(both, LAMBDA c : D(t, c, ColumnOf(old, c), ColumnOf(new, c)))
    IN  ForEach(InOrder(ColumnNames(old) \ ColumnNames(new)),
                LAMBDA c : <<DeleteColumn(t, c)>>)
        \o Each(DiffColumnTypes)
        \o Each(DiffIntegerEnumRemappings)
        \o Each(DiffColumnNullability)
        \o Each(DiffColumnDefaults)
        \o Each(DiffColumnComments)
        \o ForEach(InOrder(ColumnNames(new) \ ColumnNames(old)),
                   LAMBDA c : <<AddColumn(t, StripInline(ColumnOf(new, c)))>>)

----------------------------------------------------------------------------
(* Constraints of a table that exists on both sides.                       *)

\* Two constraints with one key are versions of the same constraint.
IdentityKey(c) ==
    CASE c.kind = "pk" -> <<"pk">>
      [] c.kind = "fk" -> <<"fk", ToSet(c.cols), c.ref, ToSet(c.refCols)>>
      [] c.kind = "ck" -> <<"ck", c.name>>
      [] OTHER -> <<c.kind, ToSet(c.cols)>>

SameKey(c, d) ==
    c.kind = d.kind /\ IdentityKey(c) = IdentityKey(d)

\* diff_replaced_constraints: pair each changed constraint with the first
\* unused one of the same key.
Replacements(from, to) ==
    LET Candidates(fi, used) ==
            {ti \in DOMAIN to : /\ ti \notin {p[2] : p \in ToSet(used)}
                                /\ ~Contains(from, to[ti])
                                /\ SameKey(from[fi], to[ti])}
        Pair(used, fi) ==
            IF Contains(to, from[fi]) \/ Candidates(fi, used) = {} THEN used
            ELSE Append(used, <<fi, Min(Candidates(fi, used))>>)
    IN  FoldLeft(Pair, <<>>, [fi \in DOMAIN from |-> fi])

\* A constraint of one side that is not equal to one of the other side, and
\* is not the version (in ReplaceConstraint) of one.
Unpaired(cons, i, other, paired) == ~Contains(other, cons[i]) /\ i \notin paired

DiffConstraints(t, old, new) ==
    LET from == old.cons
        to == new.cons
        deleted == ColumnNames(old) \ ColumnNames(new)
        replaced == Replacements(from, to)
        Indices(seq) == [i \in DOMAIN seq |-> i]
        Gone(fi) == Unpaired(from, fi, to, {p[1] : p \in ToSet(replaced)})
        New(ti) == Unpaired(to, ti, from, {p[2] : p \in ToSet(replaced)})
        \* A constraint whose columns are all deleted goes with them.
        AllColumnsDeleted(c) ==
            c.cols # <<>> /\ ToSet(c.cols) \subseteq deleted
    IN  ForEach(replaced,
                LAMBDA p : <<ReplaceConstraint(t, from[p[1]], to[p[2]])>>)
        \o ForEach(Indices(from),
                LAMBDA fi : When(Gone(fi) /\ ~AllColumnsDeleted(from[fi]),
                                 RemoveConstraint(t, from[fi])))
        \o ForEach(Indices(to),
                LAMBDA ti : When(New(ti), AddConstraint(t, to[ti])))

----------------------------------------------------------------------------
(* Order.                                                                  *)

\* kahn_ready_order: names in ready order; names on a cycle are left out.
\* deps maps each name to the names it depends on.
KahnPop(deps, st) ==
    IF st.queue = <<>> THEN st
    ELSE LET name == Head(st.queue)
             degree == [n \in DOMAIN deps |->
                          IF name \in deps[n] THEN st.degree[n] - 1
                          ELSE st.degree[n]]
             ready == {n \in DOMAIN deps : name \in deps[n] /\ degree[n] = 0}
         IN  [queue |-> Tail(st.queue) \o InOrder(ready),
              order |-> Append(st.order, name), degree |-> degree]

KahnReadyOrder(deps) ==
    LET degree == [n \in DOMAIN deps |-> Cardinality(deps[n])]
        start == [queue |-> InOrder({n \in DOMAIN deps : degree[n] = 0}),
                  order |-> <<>>, degree |-> degree]
    IN  FoldLeft(LAMBDA st, n : KahnPop(deps, st), start,
                 InOrder(DOMAIN deps)).order

\* The tables among names that a table's foreign keys point to.
ForeignKeyTargets(schema, names) ==
    [t \in names |->
        {r \in names \ {t} :
            \E i \in DOMAIN schema[t].cons : References(schema[t].cons[i], r)}]

\* topological_sort_tables: Err on a cycle.
TopologicalSortTables(schema, names) ==
    LET order == KahnReadyOrder(ForeignKeyTargets(schema, names))
    IN  IF Len(order) # Cardinality(names) THEN Err ELSE order

\* Mutant: deletions in the order of their names.
DeleteByName(schema, names) == InOrder(names)

\* sort_delete_tables: referencing tables first.  A name that Kahn's order
\* leaves out sorts as position 0.
SortDeleteTables(schema, names) ==
    LET order == Reverse(KahnReadyOrder(ForeignKeyTargets(schema, names)))
        Position(n) == IF Contains(order, n)
                       THEN SelectInSeq(order, LAMBDA m : m = n) - 1 ELSE 0
    IN  ForEach([k \in 1..(Cardinality(names) + 1) |-> k - 1],
                LAMBDA k : SelectSeq(InOrder(names),
                                     LAMBDA n : Position(n) = k))

\* sort_create_before_add_constraint: a stable sort into three classes.
SortCreateBeforeAddConstraint(actions) ==
    LET IsCreate(a) == a.op = "CreateTable"
        created == {actions[i].table :
                      i \in {j \in DOMAIN actions : IsCreate(actions[j])}}
        RefsCreated(a) == /\ a.op = "AddConstraint"
                          /\ \E t \in created : References(a.con, t)
    IN  SelectSeq(actions, IsCreate)
        \o SelectSeq(actions, LAMBDA a : ~IsCreate(a) /\ ~RefsCreated(a))
        \o SelectSeq(actions, RefsCreated)

\* sort_enum_default_dependencies: swap the type and the default change of a
\* column whose old default is an enum value that the new type removes.  A
\* default's text is here without the quotes extract_unquoted_default strips.
SortEnumDefaultDependencies(actions, from) ==
    LET Changes(a, field) == a.op = "ModifyColumn" /\ a.change[1] = field
        Removed(old, new, value) ==
            /\ old.kind = "senum" /\ new.kind = "senum"
            /\ Contains(old.vals, <<value, 0>>)
            /\ ~Contains(new.vals, <<value, 0>>)
        Swaps(i, j) ==
            /\ i < j
            /\ Changes(actions[i], "type") /\ Changes(actions[j], "default")
            /\ actions[i].table = actions[j].table
            /\ actions[i].column = actions[j].column
            /\ LET old == ColumnOf(from[actions[i].table], actions[i].column)
               IN  old.default # Absent
                   /\ Removed(old.type, actions[i].change[2],
                              old.default[1].text)
        Partner(i) ==
            IF \E j \in DOMAIN actions : Swaps(i, j) \/ Swaps(j, i)
            THEN CHOOSE j \in DOMAIN actions : Swaps(i, j) \/ Swaps(j, i)
            ELSE i
    IN  [i \in DOMAIN actions |-> actions[Partner(i)]]

----------------------------------------------------------------------------
\* A table that diff_schemas refuses before comparing anything.
Unusable(table) ==
    \/ \E i, j \in DOMAIN table.cols :
          i # j /\ table.cols[i].name = table.cols[j].name
    \/ NormalizeFails(table)

NormalizeSchema(schema) == [t \in DOMAIN schema |-> Normalize(schema[t])]

\* diff_schemas
DiffNormalized(from, to, fromOriginal, toOriginal) ==
    LET deletes == ForEach(SortDeleteTables(from, DOMAIN from \ DOMAIN to),
                           LAMBDA t : <<DeleteTable(t)>>)
        changes == ForEach(InOrder(DOMAIN from \cap DOMAIN to),
                       LAMBDA t : DiffColumns(t, from[t], to[t])
                                  \o DiffConstraints(t, from[t], to[t]))
        created == TopologicalSortTables(to, DOMAIN to \ DOMAIN from)
        creates == ForEach(created,
                           LAMBDA t : <<CreateTable(t, toOriginal[t])>>)
    IN  IF \/ \E t \in DOMAIN from : Unusable(fromOriginal[t])
           \/ \E t \in DOMAIN to : Unusable(toOriginal[t])
        THEN Err
        ELSE IF created = Err THEN Err
        ELSE SortEnumDefaultDependencies(
                SortCreateBeforeAddConstraint(deletes \o changes \o creates),
                from)

DiffSchemas(from, to) ==
    DiffNormalized(NormalizeSchema(from), NormalizeSchema(to), from, to)
=============================================================================
