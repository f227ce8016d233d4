------------------------------- MODULE Schema -------------------------------
(***************************************************************************)
(* Table definitions and their normal form: crates/vespertide-core/src/    *)
(* schema.  A schema is a function from table names to tables; a table has *)
(* a sequence of columns and a sequence of table-level constraints.  An    *)
(* Option is a sequence of length 0 or 1, so that every field has one      *)
(* shape whatever its value.                                               *)
(***************************************************************************)
EXTENDS Naturals, Sequences, SequencesExt

Absent == <<>>
NoTables == [t \in {} |-> {}]

----------------------------------------------------------------------------
(* Column types.  Simple types have no values; an enum lists its variants  *)
(* as <<name, value>>, and the value counts for integer enums only.        *)

SimpleType(label) == [kind |-> "simple", label |-> label, vals |-> <<>>]
StringEnum(label, names) ==
    [kind |-> "senum", label |-> label,
     vals |-> [i \in DOMAIN names |-> <<names[i], 0>>]]
IntegerEnum(label, vals) ==
    [kind |-> "ienum", label |-> label, vals |-> vals]

IsEnum(type) == type.kind \in {"senum", "ienum"}

\* ColumnType::requires_migration
RequiresMigration(old, new) ==
    IF IsEnum(old) /\ IsEnum(new)
    THEN /\ ~(old.kind = "ienum" /\ new.kind = "ienum")
         /\ <<old.kind, old.vals>> # <<new.kind, new.vals>>
    ELSE old # new

\* DefaultValue: a Boolean, a number or a string, with the text it prints as.
\* Two defaults of different kinds can lower to the same SQL.
Default(kind, text) == [kind |-> kind, text |-> text]
ToSql(d) == IF d.kind = "str" /\ d.text = "" THEN "''" ELSE d.text
DefaultSql(option) == [i \in DOMAIN option |-> ToSql(option[i])]

----------------------------------------------------------------------------
(* Constraints.  opt stands for what only the SQL generator looks at       *)
(* (auto_increment, ON DELETE and ON UPDATE, a CHECK expression); strat is  *)
(* the data-repair strategy that cmd_revision stamps on an addition.       *)

DefaultStrategy == "default"

Constraint(kind, name, cols, ref, refCols, opt) ==
    [kind |-> kind, name |-> name, cols |-> cols, ref |-> ref,
     refCols |-> refCols, opt |-> opt, strat |-> DefaultStrategy]

PrimaryKey(cols, opt) == Constraint("pk", Absent, cols, Absent, <<>>, opt)
Unique(name, cols) == Constraint("uq", name, cols, Absent, <<>>, "")
Index(name, cols) == Constraint("ix", name, cols, Absent, <<>>, "")
Check(name, expr) == Constraint("ck", name, <<>>, Absent, <<>>, expr)
ForeignKey(name, cols, ref, refCols, opt) ==
    Constraint("fk", name, cols, <<ref>>, refCols, opt)

\* The foreign key that a column declares, whichever way it is written.
ForeignKeyDef(ref, refCols, opt) == [ref |-> ref, refCols |-> refCols, opt |-> opt]

References(c, table) == c.kind = "fk" /\ c.ref = <<table>>

----------------------------------------------------------------------------
(* Columns.  pk is "no", "yes" or "auto" (with auto_increment).  uq and ix  *)
(* hold the inline groups: Absent for `true` (a group of its own), <<g>>   *)
(* for the named group g.  fk is an Option of [ref, refCols, opt].         *)

Column(name, type) ==
    [name |-> name, type |-> type, nullable |-> FALSE, default |-> Absent,
     comment |-> Absent, pk |-> "no", uq |-> <<>>, ix |-> <<>>,
     fk |-> Absent]

\* The column as an AddColumn action carries it.
StripInline(col) ==
    [col EXCEPT !.pk = "no", !.uq = <<>>, !.ix = <<>>, !.fk = Absent]

ColumnNames(table) == {table.cols[i].name : i \in DOMAIN table.cols}
ColumnOf(table, name) ==
    table.cols[CHOOSE i \in DOMAIN table.cols : table.cols[i].name = name]

----------------------------------------------------------------------------
(* TableDef::normalize: inline constraints become table-level ones, unless *)
(* an equivalent one is there already.                                     *)

AddPrimaryKeyConstraint(table, cons) ==
    LET inline == SelectSeq(table.cols, LAMBDA c : c.pk # "no")
        names == [i \in DOMAIN inline |-> inline[i].name]
        auto == \E i \in DOMAIN inline : inline[i].pk = "auto"
        present == \E i \in DOMAIN cons : cons[i].kind = "pk"
    IN  IF inline = <<>> \/ present THEN cons
        ELSE Append(cons, PrimaryKey(names, IF auto THEN "auto" ELSE ""))

\* field is "uq" or "ix".  The columns with an inline membership, in column
\* order: one <<group, column>> pair for each.  A `true` belongs to a group
\* of its own.
InlineMembers(cols, field) ==
    FlattenSeq([i \in DOMAIN cols |->
        [j \in DOMAIN cols[i][field] |->
            IF cols[i][field][j] = Absent
            THEN <<<<"auto", cols[i].name>>, cols[i].name>>
            ELSE <<<<"named", cols[i][field][j][1]>>, cols[i].name>>]])

\* The groups in the order in which their first member appears.
InlineGroups(cols, field) ==
    LET members == InlineMembers(cols, field)
        keys == FoldLeft(LAMBDA acc, m : IF Contains(acc, m[1]) THEN acc
                                         ELSE Append(acc, m[1]),
                         <<>>, members)
        ColsOf(key) == LET own == SelectSeq(members, LAMBDA m : m[1] = key)
                       IN  [i \in DOMAIN own |-> own[i][2]]
    IN  [i \in DOMAIN keys |->
            [name |-> IF keys[i][1] = "auto" THEN Absent ELSE <<keys[i][2]>>,
             cols |-> ColsOf(keys[i])]]

\* A named group is there already when the name is taken, an unnamed one
\* when an unnamed constraint has the same columns.
GroupPresent(cons, kind, group) ==
    \E i \in DOMAIN cons :
        /\ cons[i].kind = kind
        /\ cons[i].name = group.name
        /\ group.name = Absent => cons[i].cols = group.cols

AddUniqueConstraints(table, cons) ==
    FoldLeft(LAMBDA acc, g : IF GroupPresent(acc, "uq", g) THEN acc
                             ELSE Append(acc, Unique(g.name, g.cols)),
             cons, InlineGroups(table.cols, "uq"))

AddForeignKeyConstraints(table, cons) ==
    LET Present(acc, col) == \E i \in DOMAIN acc :
            acc[i].kind = "fk" /\ acc[i].cols = <<col.name>>
        AddOne(acc, col) ==
            IF col.fk = Absent \/ Present(acc, col) THEN acc
            ELSE Append(acc, ForeignKey(Absent, <<col.name>>, col.fk[1].ref,
                                        col.fk[1].refCols, col.fk[1].opt))
    IN  FoldLeft(AddOne, cons, table.cols)

AddIndexConstraints(table, cons) ==
    FoldLeft(LAMBDA acc, g : IF GroupPresent(acc, "ix", g) THEN acc
                             ELSE Append(acc, Index(g.name, g.cols)),
             cons, InlineGroups(table.cols, "ix"))

Normalize(table) ==
    [table EXCEPT !.cons =
        AddIndexConstraints(table, AddForeignKeyConstraints(table,
            AddUniqueConstraints(table, AddPrimaryKeyConstraint(table, @))))]

\* A column listed twice in one index is refused.
NormalizeFails(table) ==
    \E i \in DOMAIN table.cols :
        LET ix == table.cols[i].ix
        IN  \E j, k \in DOMAIN ix : j # k /\ ix[j] = ix[k]
=============================================================================
