----------------------------- MODULE MCRevision -----------------------------
(***************************************************************************)
(* Projects for the Revision module.                                       *)
(***************************************************************************)
EXTENDS Revision, MCModels

CONSTANTS u1, u2
Messages == [u \in {u1, u2} |-> IF u = u1 THEN "msg1" ELSE "msg2"]
Project(users, catalogue, picks, bound) ==
    [users |-> users, models |-> catalogue, pattern |-> {"version", "message"},
     picks |-> picks, maxVersion |-> bound]

----------------------------------------------------------------------------
MCProjects ==
    {Project({u1}, ColumnModels, {"fill", "delete"}, 3),
     Project({u1}, ConstraintModels, {}, 3),
     Project({u1}, TableModels, {}, 3),
     Project({u1}, RetypedModels, {"backfill", "widen"}, 2),
     Project({u1}, PolicyModels, {}, 2),
     Project({u1}, RenameModels, {"rename"}, 3),
     [Project({u1}, SharedModels, {"widen"}, 3) EXCEPT !.pattern = {"version"}],
     Project({u1, u2}, SharedModels, {"rename", "strategy", "widen", "fill", "delete"}, 2)}
KeyColumnProjects == {Project({u1}, KeyColumnModels, {}, 2)}
DeleteRowsProjects == {Project({u1}, ColumnModels, {"delete"}, 2)}
=============================================================================
