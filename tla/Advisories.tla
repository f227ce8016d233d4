----------------------------- MODULE Advisories -----------------------------
(***************************************************************************)
(* The questions of `vespertide revision`: what its detectors find in a    *)
(* plan, in the order in which they look at it, and what each answer does  *)
(* to the plan that the next detector sees.  A detector knows the baseline *)
(* by the names that the plan uses.  Questions about CHECKs and cascades   *)
(* are in Warnings, the statements of a strategy in Repairs.  At the       *)
(* end, the commands that only look: `vespertide diff`, which shows the    *)
(* next plan with warnings, and `vespertide status`, which says whether    *)
(* there is one.                                                           *)
(***************************************************************************)
EXTENDS Answers

Question(about, t, cols) == [about |-> about, table |-> t, cols |-> cols]

Changes(a, field) == a.op = "ModifyColumn" /\ a.change[1] = field
Where(actions, P(_)) == {i \in DOMAIN actions : P(actions[i])}

\* The columns that an action is about; none for a table.
Subject(a) ==
    CASE a.op \in {"DeleteColumn", "ModifyColumn", "RemapEnumValues"} -> {a.column}
      [] a.op \in {"AddConstraint", "ReplaceConstraint"} -> ToSet(a.con.cols)
      [] a.op = "AddColumn" -> {a.def.name}
      [] OTHER -> {}
AskAbout(about, actions, at) ==
    {Question(about, actions[i].table, Subject(actions[i])) : i \in at}

----------------------------------------------------------------------------
(* The detectors.  Each yields the indices of the actions it warns about.  *)

FindUniqueAdditions(actions, baseline) ==
    Where(actions, LAMBDA a : AsksStrategy(a, baseline) /\ a.con.kind = "uq")

FindFkOrphanAdditions(actions, baseline) ==
    Where(actions, LAMBDA a : AsksStrategy(a, baseline) /\ a.con.kind = "fk")

\* A unique constraint on the same columns, none of which is nullable, rules
\* out what a primary key would reject.
FindPrimaryKeyAdditions(actions, baseline) ==
    LET Covered(table, cols) ==
            /\ Some(table.cons, LAMBDA c : c.kind = "uq" /\ ToSet(c.cols) = ToSet(cols))
            /\ ~Some(cols, LAMBDA c : ColumnOf(table, c).nullable)
    IN  Where(actions, LAMBDA a : /\ AsksStrategy(a, baseline) /\ a.con.kind = "pk"
                                  /\ ~Covered(baseline[a.table], a.con.cols))

\* diff_policy: no clause is NO ACTION.
Policy(fk) == IF fk.opt = "no_action" THEN "" ELSE fk.opt

\* Mutant: only foreign keys that have no name of their own are compared.
UnnamedPolicyChanges(actions) ==
    Where(actions, LAMBDA a :
        /\ a.op = "ReplaceConstraint" /\ a.con.kind = "fk" /\ a.to.kind = "fk"
        /\ a.to.name = Absent /\ Policy(a.con) # Policy(a.to))

FindFkPolicyChanges(actions) ==
    Where(actions, LAMBDA a :
        /\ a.op = "ReplaceConstraint" /\ a.con.kind = "fk" /\ a.to.kind = "fk"
        /\ Policy(a.con) # Policy(a.to))

FindRemaps(actions) == Where(actions, LAMBDA a : a.op = "RemapEnumValues")

\* Type changes between simple types that lose values.  See Repairs for the
\* types with a size.
TimestampLabels == {"timestamp", "timestamptz"}
SimpleNarrowing(old, new) ==
    IF old.kind # "simple" \/ new.kind # "simple" THEN "none"
    ELSE CASE Rank(new) # 0 /\ Rank(new) < Rank(old) -> "integerSize"
           [] <<old.label, new.label>> = <<"double_precision", "real">> -> "floatSize"
           [] <<old.label, new.label>> = <<"timestamptz", "timestamp">> -> "timezone"
           [] OTHER -> "none"

FromBaseline(baseline, a) ==
    Changes(a, "type") /\ HasColumn(baseline, a.table, a.column)
OldType(baseline, a) == ColumnOf(baseline[a.table], a.column).type

FindTypeNarrowings(actions, baseline) ==
    Where(actions, LAMBDA a : /\ FromBaseline(baseline, a)
                              /\ SimpleNarrowing(OldType(baseline, a), a.change[2]) # "none")

FindTimezoneConversions(actions, baseline) ==
    Where(actions, LAMBDA a :
        /\ FromBaseline(baseline, a)
        /\ OldType(baseline, a).kind = "simple" /\ a.change[2].kind = "simple"
        /\ {OldType(baseline, a).label, a.change[2].label} = TimestampLabels)

\* A column whose type or values the plan changes is not asked about again.
FindDefaultChanges(actions) ==
    LET Rewritten(t, c) == Some(actions, LAMBDA a :
            /\ Changes(a, "type") \/ a.op = "RemapEnumValues"
            /\ a.table = t /\ a.column = c)
    IN  Where(actions, LAMBDA a :
            Changes(a, "default") /\ ~Rewritten(a.table, a.column))

----------------------------------------------------------------------------
(* The answers that are stamped on the actions, and what is refused.       *)

\* applicable_strategies: a narrowing without one ends the revision.
Repairable(actions, baseline) ==
    \A i \in FindTypeNarrowings(actions, baseline) :
        SimpleNarrowing(OldType(baseline, actions[i]), actions[i].change[2])
            = "integerSize"

\* A strategy, a timezone or a backfill value is recorded on each of these.
Record(actions, at) ==
    [i \in DOMAIN actions |->
        IF i \in at THEN [actions[i] EXCEPT !.fill = TRUE] ELSE actions[i]]

\* prompt_default_change_resolution: a default that goes away cannot be
\* written to the rows.
BackfillOffers(actions) ==
    {i \in FindDefaultChanges(actions) : actions[i].change[2] # Absent}

Optional(kinds, kind, S) == IF kind \in kinds THEN S ELSE {}

\* The questions about the plan as it was diffed and its drops resolved.
PlanQuestions(dropped, resolved, baseline) ==
    AskAbout("drop", dropped, Where(dropped, IsDrop))
    \cup AskAbout("unique", resolved, FindUniqueAdditions(resolved, baseline))
    \cup AskAbout("orphan", resolved, FindFkOrphanAdditions(resolved, baseline))
    \cup AskAbout("key", resolved, FindPrimaryKeyAdditions(resolved, baseline))
    \cup {Question("sequence", resolved[r.at].table, {r.column}) :
             r \in FindSequenceExhaustionRisks(resolved, baseline)}

\* What --delete-null-rows may name.
DeleteOptions(resolved, kinds) ==
    SUBSET Optional(kinds, "delete", {i \in DOMAIN resolved : Fillable(resolved[i])})

\* The plans that the answers to these, and the fill values, can lead to.
AmendedPlans(resolved, baseline, kinds, deleting) ==
    LET must == {i \in DOMAIN resolved : MustStamp(resolved[i], baseline)}
        may == {i \in DOMAIN resolved : MayStamp(resolved[i], baseline)}
        fillable == {i \in DOMAIN resolved : Fillable(resolved[i])}
    IN  UNION {EnumFills(Fill(Widen(Stamp(resolved, must \cup stamps), widened),
                              baseline, given, deleting), baseline) :
            stamps \in SUBSET Optional(kinds, "strategy", may),
            widened \in SUBSET Optional(kinds, "widen", WidenOffers(resolved, baseline)),
            given \in SUBSET Optional(kinds, "fill", fillable)}

\* The questions about such a plan.
AmendedQuestions(plan, baseline) ==
    AskAbout("policy", plan, FindFkPolicyChanges(plan))
    \cup AskAbout("remap", plan, FindRemaps(plan))
    \cup AskAbout("narrowing", plan, FindTypeNarrowings(plan, baseline))
    \cup AskAbout("timezone", plan, FindTimezoneConversions(plan, baseline))
    \cup AskAbout("default", plan, FindDefaultChanges(plan))

\* cmd_revision_core from the resolved drops to the file: every plan that the
\* answers can lead to, with the questions that were asked on the way.  kinds
\* are the kinds of answer that are more than a yes, deleting is what
\* --delete-null-rows names.
Sessions(dropped, resolved, baseline, kinds, deleting) ==
    LET Recorded(plan) == FindTypeNarrowings(plan, baseline)
                          \cup FindTimezoneConversions(plan, baseline)
    IN  UNION {{[plan |-> Record(plan, Recorded(plan) \cup backfilled),
                 asked |-> PlanQuestions(dropped, resolved, baseline)
                           \cup AmendedQuestions(plan, baseline)] :
                   backfilled \in SUBSET Optional(kinds, "backfill", BackfillOffers(plan))} :
                  plan \in {p \in AmendedPlans(resolved, baseline, kinds, deleting) :
                                Repairable(p, baseline)}}

----------------------------------------------------------------------------
(* What `diff` warns about.                                                *)

\* Mutant: a foreign key is thought to guard nothing.
FindKeyDrops(actions) ==
    Where(actions, LAMBDA a :
        a.op = "RemoveConstraint" /\ a.con.kind \notin {"ix", "fk"})

\* find_constraint_drops_without_replacement: what rows will not be checked
\* for any more.
FindConstraintDrops(actions) ==
    Where(actions, LAMBDA a : a.op = "RemoveConstraint" /\ a.con.kind # "ix")

\* The foreign keys of a normalised table whose columns begin no index.
MissingFkSupportingIndexes(table) ==
    {fk \in ToSet(table.cons) :
        /\ fk.kind = "fk" /\ fk.cols # <<>>
        /\ ~Some(table.cons, LAMBDA c :
              c.kind \in {"pk", "uq", "ix"} /\ IsPrefix(fk.cols, c.cols))}

\* Of the plan alone.
PlanWarnings(plan) ==
    AskAbout("policy", plan, FindFkPolicyChanges(plan))
    \cup {Question("unguarded", plan[i].table, ToSet(plan[i].con.cols)) :
             i \in FindConstraintDrops(plan)}

\* Of the plan and the baseline; these are left out when there is none.
BaselineWarnings(plan, baseline) ==
    AskAbout("narrowing", plan, FindTypeNarrowings(plan, baseline))
    \cup AskAbout("timezone", plan, FindTimezoneConversions(plan, baseline))

ModelWarnings(models) ==
    LET schema == NormalizeSchema(models)
    IN  UNION {{Question("unindexed", t, ToSet(fk.cols)) :
                   fk \in MissingFkSupportingIndexes(schema[t])} : t \in DOMAIN schema}

DiffReport(models, baseline) ==
    LET plan == DiffSchemas(baseline, models)
    IN  [actions |-> plan,
         warned |-> PlanWarnings(plan) \cup BaselineWarnings(plan, baseline)
                    \cup ModelWarnings(models)]

\* What `status` says, of the names of the tables alone.
Status(models, files, baseline) ==
    IF files # {}
    THEN IF DOMAIN baseline = DOMAIN models THEN "synchronized" ELSE "differs"
    ELSE IF models = NoTables THEN "nothing" ELSE "not migrated"
=============================================================================
