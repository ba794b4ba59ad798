-------------------------- MODULE MCVersionedStore --------------------------
(* Constants and symmetry for the TLC runs of VersionedStore. *)
EXTENDS VersionedStore, TLC

CONSTANTS c1, c2, w1, w2

TwoClients == {c1, c2}
OneWorkspace == {w1}
TwoWorkspaces == {w1, w2}

\* Everyone sees every workspace.
FullAccess == [c \in Clients |-> Workspaces]

\* c1 sees both workspaces, c2 only the first.
PartAccess == [c \in Clients |-> IF c = c1 THEN Workspaces ELSE {w1}]

\* Sound where Access treats the clients alike and no liveness is checked.
ClientSymmetry == Permutations(Clients)
=============================================================================
