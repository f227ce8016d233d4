--------------------------- MODULE DropResolution ---------------------------
(***************************************************************************)
(* Turning a deletion into a rename: crates/vespertide-planner/src/        *)
(* drop_resolution.rs.  For each deleted column or table the user confirms *)
(* the drop or picks one of the columns or tables the same plan adds; the  *)
(* pair becomes a rename, followed by the differences between the two.     *)
(***************************************************************************)
EXTENDS Diff

DropIt == <<>>          \* DropChoice::Drop; <<target>> is RenameTo(target)

IsDrop(a) == a.op \in {"DeleteTable", "DeleteColumn"}

\* find_drop_resolutions: the targets offered for the drop at index i.
Candidates(actions, i) ==
    IF actions[i].op = "DeleteColumn"
    THEN {actions[j].def.name : j \in {k \in DOMAIN actions :
            actions[k].op = "AddColumn" /\ actions[k].table = actions[i].table}}
    ELSE {actions[j].table : j \in {k \in DOMAIN actions :
            actions[k].op = "CreateTable"}}

\* How close the candidate at j is to what the drop at i removes: columns by
\* type, nullability and default, tables by the names of their columns.
MatchQuality(actions, baseline, i, j) ==
    LET new == actions[j].def
        t == actions[i].table
        old == ColumnOf(baseline[t], actions[i].column)
    IN  IF actions[i].op = "DeleteTable"
        THEN IF t \in DOMAIN baseline /\ ColumnNames(baseline[t]) = ColumnNames(new)
             THEN "Exact" ELSE "Different"
        ELSE IF ~HasColumn(baseline, t, actions[i].column) \/ old.type # new.type
        THEN "Different"
        ELSE IF old.nullable = new.nullable /\ old.default = new.default
        THEN "Exact" ELSE "SameType"

\* One answer for each drop of the plan.
DropChoices(actions) ==
    LET drops == {i \in DOMAIN actions : IsDrop(actions[i])}
        all == UNION {Candidates(actions, i) : i \in drops}
    IN  {f \in [drops -> {DropIt} \cup {<<n>> : n \in all}] :
            \A i \in drops : f[i] = DropIt
                             \/ f[i][1] \in Candidates(actions, i)}

----------------------------------------------------------------------------

\* The two actions at i and j give way to `instead`, at the earlier place.
Merge(actions, i, j, instead) ==
    LET lo == Min({i, j})
        hi == Max({i, j})
    IN  SubSeq(actions, 1, lo - 1) \o instead
        \o SubSeq(actions, lo + 1, hi - 1)
        \o SubSeq(actions, hi + 1, Len(actions))

\* Type, nullability and default are compared as they are written; comments
\* are not compared.
FieldChanges(t, c, old, new) ==
    When(old.type # new.type, ModifyColumn(t, c, "type", new.type))
    \o When(old.nullable # new.nullable,
            ModifyColumn(t, c, "nullable", new.nullable))
    \o When(old.default # new.default,
            ModifyColumn(t, c, "default",
                [i \in DOMAIN new.default |->
                    Default("str", ToSql(new.default[i]))]))

ApplyColumnRename(actions, baseline, t, old, new) ==
    LET del == SelectInSeq(actions, LAMBDA a :
                  a.op = "DeleteColumn" /\ a.table = t /\ a.column = old)
        add == SelectInSeq(actions, LAMBDA a :
                  a.op = "AddColumn" /\ a.table = t /\ a.def.name = new)
        changes == IF HasColumn(baseline, t, old)
                   THEN FieldChanges(t, new, ColumnOf(baseline[t], old),
                                     actions[add].def)
                   ELSE <<>>
    IN  IF del = 0 \/ add = 0 THEN Err
        ELSE Merge(actions, del, add,
                   <<RenameColumn(t, old, new)>> \o changes)

\* Mutant: the old constraints are compared with none.
RenamedWithoutConstraints(t, old, new) ==
    ForEach(old.cons, LAMBDA c : <<RemoveConstraint(t, c)>>)

\* Columns and constraints of the renamed table: the baseline's, which are
\* normalised, against those of the CreateTable, which are not.
RenamedTableChanges(t, old, new) ==
    LET Kept(c) == c.name \in ColumnNames(old)
        Lost(c) == c.name \notin ColumnNames(new)
    IN  ForEach(old.cols, LAMBDA c : When(Lost(c), DeleteColumn(t, c.name)))
        \o ForEach(new.cols, LAMBDA c : When(~Kept(c), AddColumn(t, c)))
        \o ForEach(new.cols, LAMBDA c :
              IF Kept(c) THEN FieldChanges(t, c.name, ColumnOf(old, c.name), c)
              ELSE <<>>)
        \o ForEach(old.cons, LAMBDA c :
              When(~Contains(new.cons, c), RemoveConstraint(t, c)))
        \o ForEach(new.cons, LAMBDA c :
              When(~Contains(old.cons, c), AddConstraint(t, c)))

ApplyTableRename(actions, baseline, old, new) ==
    LET del == SelectInSeq(actions, LAMBDA a :
                  a.op = "DeleteTable" /\ a.table = old)
        create == SelectInSeq(actions, LAMBDA a :
                  a.op = "CreateTable" /\ a.table = new)
        changes == IF old \in DOMAIN baseline
                   THEN RenamedTableChanges(new, baseline[old],
                                            actions[create].def)
                   ELSE <<>>
    IN  IF del = 0 \/ create = 0 THEN Err
        ELSE Merge(actions, del, create, <<RenameTable(old, new)>> \o changes)

\* The answers, applied from the last drop to the first.
ResolveDrops(actions, baseline, choices) ==
    LET last == Reverse(SetToSortSeq(DOMAIN choices, <))
        Resolve(plan, i) ==
            IF plan = Err \/ choices[i] = DropIt THEN plan
            ELSE IF actions[i].op = "DeleteColumn"
            THEN ApplyColumnRename(plan, baseline, actions[i].table,
                                   actions[i].column, choices[i][1])
            ELSE ApplyTableRename(plan, baseline, actions[i].table,
                                  choices[i][1])
    IN  FoldLeft(Resolve, actions, last)
=============================================================================
