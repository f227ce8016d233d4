--------------------------- MODULE MCSortDeletes ---------------------------
(* Every reference graph between four tables.                              *)
EXTENDS SortDeletes

MCName == {"p", "q", "r", "t"}
MCNameOrder == <<"p", "q", "r", "t">>
MCKeyOrder ==
    [S \in SUBSET MCName |-> SelectSeq(MCNameOrder, LAMBDA n : n \in S)]
=============================================================================
