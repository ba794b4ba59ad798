--------------------------- MODULE MCVolumeStore ---------------------------
(* A small instance of VolumeStore for TLC. *)
EXTENDS VolumeStore, TLC

CONSTANTS c1, c2, n1, n2

TwoClients == {c1, c2}
TwoNames == {n1, n2}

member == <<"member">>
tester == <<"tester">>

\* An administrator who is a member, and a user with another role who owns a
\* workspace.
TwoUsers ==
    c1 :> [email |-> "a", roles |-> {member, tester, AdminRole(member)}] @@
    c2 :> [email |-> "b", roles |-> {tester}]

\* One list, two lists of which the first asks for two roles, the owner's list.
ThreeSettings ==
    {[roles |-> <<<<member>>>>, hide |-> TRUE],
     [roles |-> <<<<member, tester>>, <<>>>>, hide |-> FALSE],
     [roles |-> <<<<member>>, <<<<"b", "--$", "owner">>>>>>, hide |-> TRUE]}
=============================================================================
