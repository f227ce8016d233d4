-------------------------- MODULE MCLanguageServer --------------------------
(* Two model files.  user1 and user2 declare the table user and have the   *)
(* same length, post1 declares post, and draft has the name user but does  *)
(* not parse.                                                              *)
EXTENDS LanguageServer

CONSTANTS a, b, user, post, user1, user2, post1, draft

MCUri == {a, b}
MCTable == {user, post}
MCText == {user1, user2, post1, draft}
MCNameOf == [t \in MCText |-> IF t = post1 THEN post ELSE user]
MCValid == MCText \ {draft}
MCLength == [t \in MCText |-> IF t \in {user1, user2} THEN 1 ELSE 2]
MCStemOf == [u \in MCUri |-> IF u = a THEN user ELSE None]
MCRestored == {user2, None}
MCNested == {b}
MCWorkspaces == {[u \in MCUri |-> IF u = a THEN user1 ELSE post1]}
=============================================================================
