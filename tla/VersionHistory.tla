--------------------------- MODULE VersionHistory ---------------------------
(***************************************************************************)
(* What the API promises about one component (flowify.json, the paths      *)
(* /components/{id} and /components/{id}/{version}): a history of numbered *)
(* versions.  A version is appended under the next number, only the newest *)
(* one is rewritten, an older one may be removed, and each of these        *)
(* happens at once.  Requests, transactions, snapshots, tags and document  *)
(* ids do not exist here; VersionedStore implements this module.           *)
(***************************************************************************)
EXTENDS Naturals

CONSTANT Contents   \* what a version may hold

VARIABLE hist       \* hist[v]: the contents of version v

\* The highest version number, 0 while there is none.
Newest == IF DOMAIN hist = {} THEN 0
          ELSE CHOOSE v \in DOMAIN hist : \A w \in DOMAIN hist : w <= v

Init == DOMAIN hist = {}

\* POST and PUT.
AppendVersion(x) ==
    hist' = [v \in DOMAIN hist \cup {Newest + 1} |->
                IF v = Newest + 1 THEN x ELSE hist[v]]

\* PATCH.
AmendNewest(x) ==
    /\ DOMAIN hist # {}
    /\ hist' = [hist EXCEPT ![Newest] = x]

\* DELETE of a version that has a successor.
RemoveOlder(v) ==
    /\ v \in DOMAIN hist \ {Newest}
    /\ hist' = [w \in DOMAIN hist \ {v} |-> hist[w]]

Next ==
    \/ \E x \in Contents : AppendVersion(x) \/ AmendNewest(x)
    \/ \E v \in DOMAIN hist : RemoveOlder(v)

Spec == Init /\ [][Next]_hist

=============================================================================
