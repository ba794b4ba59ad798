-------------------------- MODULE MCWorkspaceCache --------------------------
(* Small instances of WorkspaceCache for TLC. *)
EXTENDS WorkspaceCache

CONSTANTS c1, c2, n1, r1

TwoClients == {c1, c2}
OneName == {n1}
OneRole == {r1}
=============================================================================
