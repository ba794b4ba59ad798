--------------------------- MODULE MCSecretGroup ---------------------------
(* Small instances of SecretGroup for TLC. *)
EXTENDS SecretGroup

CONSTANTS c1, c2, k1, k2, a

TwoClients == {c1, c2}
TwoKeys == {k1, k2}
OneValue == {a}
=============================================================================
