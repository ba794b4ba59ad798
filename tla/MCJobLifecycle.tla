--------------------------- MODULE MCJobLifecycle ---------------------------
(* Constants for the TLC runs of JobLifecycle. *)
EXTENDS JobLifecycle

CONSTANTS j1, c1, c2, v1

OneJob == {j1}
OneClient == {c1}
TwoClients == {c1, c2}
OneViewer == {v1}
NoViewer == {}
=============================================================================
