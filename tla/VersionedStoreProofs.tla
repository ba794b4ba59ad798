------------------------ MODULE VersionedStoreProofs ------------------------
(***************************************************************************)
(* Theorems about VersionedStore, for every number of clients, workspaces  *)
(* and writes.                                                             *)
(***************************************************************************)
EXTENDS VersionedStore, WellFoundedInduction, TLAPS

(***************************************************************************)
(* A nonempty, bounded set of naturals has a greatest element: the least   *)
(* element of the set of distances from the bound.                         *)
(***************************************************************************)
LEMMA GreatestExists ==
    ASSUME NEW T \in SUBSET Nat, T # {},
           NEW b \in Nat, \A v \in T : v <= b
    PROVE  \E m \in T : \A v \in T : v <= m
<1> DEFINE Gap == {b - v : v \in T}
<1>1. Gap \in SUBSET Nat /\ Gap # {}
  <2>1. \A v \in T : v \in Nat /\ b - v \in Nat
    OBVIOUS
  <2>2. Gap \in SUBSET Nat
    BY <2>1
  <2>3. PICK v \in T : TRUE
    OBVIOUS
  <2>4. b - v \in Gap
    BY <2>3
  <2> QED BY <2>2, <2>4
<1> DEFINE Less == {p \in Nat \X Nat : p[1] < p[2]}
<1>2. PICK g \in Gap : \A h \in Gap : ~(<<h, g>> \in Less)
  <2>1. IsWellFoundedOn(Less, Nat)
    BY NatLessThanWellFounded, Zenon DEF OpToRel
  <2> HIDE DEF Less, Gap
  <2> QED BY <1>1, <2>1, WFMin
<1>3. \A h \in Gap : g <= h
  <2> TAKE h \in Gap
  <2>1. g \in Nat /\ h \in Nat
    BY <1>1
  <2>2. h < g => <<h, g>> \in Less
    BY <2>1
  <2> QED BY <1>2, <2>1, <2>2
<1>4. PICK m \in T : g = b - m
  OBVIOUS
<1>5. \A v \in T : v <= m
  <2> TAKE v \in T
  <2>1. b - v \in Gap
    OBVIOUS
  <2> HIDE DEF Gap
  <2> QED BY <2>1, <1>3, <1>4
<1> QED BY <1>5

-----------------------------------------------------------------------------
(* Type correctness *)

\* The version numbers of S have an upper bound.
Bounded(S) == \E b \in Nat : \A d \in S : d.cur <= b

TypeInv ==
    /\ TypeOK
    /\ Bounded(docs)
    /\ \A c \in Clients : Bounded(snap[c])

(* GetLatestVersion returns the greatest version number of the set. *)
LEMMA LatestIsGreatest ==
    ASSUME NEW S \in SUBSET Document, Bounded(S)
    PROVE  /\ GetLatestVersion(S) \in Nat
           /\ \A d \in S : d.cur <= GetLatestVersion(S)
           /\ S # {} => \E d \in S : d.cur = GetLatestVersion(S)
<1>1. CASE S = {}
  BY <1>1 DEF GetLatestVersion
<1>2. CASE S # {}
  <2> DEFINE T == {d.cur : d \in S}
  <2>1. T \in SUBSET Nat /\ T # {}
    BY <1>2 DEF Document
  <2>2. PICK b \in Nat : \A v \in T : v <= b
    BY DEF Bounded
  <2>3. \E m \in T : \A v \in T : v <= m
    <3> HIDE DEF T
    <3> QED BY <2>1, <2>2, GreatestExists
  <2>4. \E m \in T : \A d \in S : d.cur <= m
    BY <2>3
  <2>5. /\ GetLatestVersion(S) \in T
        /\ \A d \in S : d.cur <= GetLatestVersion(S)
    BY <1>2, <2>4 DEF GetLatestVersion
  <2> QED BY <2>1, <2>5
<1> QED BY <1>1, <1>2

(* The zero value is a document. *)
LEMMA NoDocType == NoDoc \in Document
  BY ConstantsAssumption DEF NoDoc, Document

(* Both POST handlers insert a first version in some workspace. *)
LEMMA CreateInserts ==
    ASSUME NEW c \in Clients, Create(c)
    PROVE  \E ws \in Workspaces : InsertFirst(c, ws)
<1>1. NoDoc.ws \in Workspaces
  BY NoDocType DEF Document
<1> QED BY <1>1 DEF Create, CreateComponent, CreateWorkflow

(* What a client sends is a document. *)
LEMMA EditedType ==
    ASSUME TypeOK, NEW d \in Document, NEW t \in Nat, NEW ws \in Workspaces
    PROVE  Edited(d, t, ws) \in Document
<1>1. writes + 1 \in Nat /\ d.content \in Nat
  BY DEF TypeOK, Document
<1>2. \A n \in Nat, m \in Nat :
        [d EXCEPT !.ts = t, !.content = n, !.base = m, !.ws = ws] \in Document
  BY Zenon DEF Document
<1> QED BY <1>1, <1>2 DEF Edited

(* The ways a request moves on preserve the types of its variables. *)
LEMMA RequestSteps ==
    ASSUME TypeOK, NEW c \in Clients
    PROVE  /\ Done(c) => RequestTypeOK'
           /\ Retry(c) => RequestTypeOK'
           /\ \A d \in Document : Answer(c, d) => RequestTypeOK'
           /\ \A m \in {"post", "get", "put", "patch", "delete"},
                 p \in {"find", "begin", "reply"},
                 b \in Document, o \in Nat, v \in Nat :
                 Start(c, m, p, b, o, v) => RequestTypeOK'
<1> USE DEF TypeOK, RequestTypeOK
<1>1. Done(c) => RequestTypeOK'
  BY NoDocType DEF Done
<1>2. Retry(c) => RequestTypeOK'
  BY DEF Retry
<1>3. \A d \in Document : Answer(c, d) => RequestTypeOK'
  BY DEF Answer
<1>4. ASSUME NEW m \in {"post", "get", "put", "patch", "delete"},
             NEW p \in {"find", "begin", "reply"},
             NEW b \in Document, NEW o \in Nat, NEW v \in Nat,
             Start(c, m, p, b, o, v)
      PROVE  RequestTypeOK'
  BY <1>4 DEF Start
<1> QED BY <1>1, <1>2, <1>3, <1>4

(* Adding a document, or replacing documents by others with the same version *)
(* number, keeps the version numbers bounded.                               *)
LEMMA BoundedSteps ==
    ASSUME NEW S \in SUBSET Document, Bounded(S), NEW n \in Document
    PROVE  /\ Bounded(S \cup {n})
           /\ \A R \in SUBSET S : Bounded(S \ R)
           /\ \A R \in SUBSET S :
                Bounded((S \ R) \cup {n} \cup {[d EXCEPT !.tag = FALSE] : d \in R})
<1>1. PICK b \in Nat : \A d \in S : d.cur <= b
  BY DEF Bounded
<1>2. PICK m \in Nat : n.cur <= m /\ b <= m
  <2>1. n.cur \in Nat
    BY DEF Document
  <2>2. n.cur + b \in Nat /\ n.cur <= n.cur + b /\ b <= n.cur + b
    BY <2>1
  <2> QED BY <2>2
<1>3. \A d \in S : d.cur <= m
  BY <1>1, <1>2 DEF Document
<1>4. \A d \in S : [d EXCEPT !.tag = FALSE].cur = d.cur
  BY DEF Document
<1> QED BY <1>2, <1>3, <1>4 DEF Bounded

(* Pulling the tag leaves a document. *)
LEMMA UntagType ==
    ASSUME NEW d \in Document
    PROVE  /\ [d EXCEPT !.tag = FALSE] \in Document
           /\ [d EXCEPT !.tag = FALSE].cur = d.cur
           /\ [d EXCEPT !.tag = FALSE].tag = FALSE
  BY DEF Document

(* Setting the fields the server sets leaves a document. *)
LEMMA StampType ==
    ASSUME NEW d \in Document, NEW i \in Nat, NEW v \in Nat
    PROVE  /\ [d EXCEPT !.id = i] \in Document
           /\ AsLatest(d, i, v) \in Document
           /\ AsLatest(d, i, v).cur = v
           /\ AsLatest(d, i, v).tag = TRUE
           /\ [d EXCEPT !.id = i].cur = d.cur
           /\ [d EXCEPT !.id = i].tag = d.tag
<1>1. [d EXCEPT !.id = i] \in Document
  BY Zenon DEF Document
<1>2. AsLatest(d, i, v) \in Document
  BY Zenon DEF Document, AsLatest
<1> QED BY <1>1, <1>2 DEF Document, AsLatest

(* The first states satisfy the type invariant. *)
LEMMA TypeInvInit == Init => TypeInv
<1> SUFFICES ASSUME Init PROVE TypeInv
  OBVIOUS
<1>1. TypeOK
  BY NoDocType DEF Init, TypeOK, RequestTypeOK
<1>2. Bounded({})
  BY DEF Bounded
<1> QED BY <1>1, <1>2 DEF Init, TypeInv

(* Every step keeps the type invariant. *)
LEMMA TypeInvStep == TypeInv /\ [Next]_vars => TypeInv'
<1> SUFFICES ASSUME TypeInv, [Next]_vars PROVE TypeInv'
  OBVIOUS
<1> USE DEF TypeInv
<1>typ. /\ docs \in SUBSET Document /\ writes \in Nat /\ clock \in Nat
        /\ created \in BOOLEAN /\ copy \in [Clients -> Document]
        /\ body \in [Clients -> Document] /\ ver \in [Clients -> Nat]
        /\ snap \in [Clients -> SUBSET Document]
        /\ \A c \in Clients : Bounded(snap[c])
        /\ TypeOK /\ RequestTypeOK /\ Bounded(docs)
  BY DEF TypeOK, RequestTypeOK
<1>emp. Bounded({})
  BY DEF Bounded
<1>lat. GetLatestVersion(docs) \in Nat
  BY <1>typ, LatestIsGreatest
<1>1. CASE UNCHANGED vars
  BY <1>1, <1>typ DEF vars, TypeOK, RequestTypeOK
<1>2. ASSUME NEW c \in Clients, ClientStep(c) PROVE TypeInv'
  <2>req. /\ Done(c) => RequestTypeOK'
          /\ Retry(c) => RequestTypeOK'
          /\ \A d \in Document : Answer(c, d) => RequestTypeOK'
          /\ \A m \in {"post", "get", "put", "patch", "delete"},
                p \in {"find", "begin", "reply"},
                b \in Document, o \in Nat, v \in Nat :
                Start(c, m, p, b, o, v) => RequestTypeOK'
    BY <1>typ, RequestSteps
  <2>snp. /\ Done(c) => \A k \in Clients : Bounded(snap'[k])
          /\ Retry(c) => \A k \in Clients : Bounded(snap'[k])
          /\ \A d : Answer(c, d) => \A k \in Clients : Bounded(snap'[k])
          /\ \A m, p, b, o, v : Start(c, m, p, b, o, v)
                => \A k \in Clients : Bounded(snap'[k])
    BY <1>typ, <1>emp DEF Done, Retry, Answer, Start
  <2>loc. /\ body[c] \in Document /\ copy[c] \in Document /\ ver[c] \in Nat
          /\ snap[c] \in SUBSET Document /\ copy[c].ts \in Nat
          /\ body[c].content \in Nat /\ copy[c].ws \in Workspaces
    BY <1>typ DEF Document
  <2>tim. \A t \in {clock, clock + 1} : t \in Nat
    BY <1>typ
  <2>edi. \A d \in Document, t \in Nat, ws \in Workspaces :
            Edited(d, t, ws) \in Document
    BY <1>typ, EditedType
  <2>suf. ASSUME docs' \in SUBSET Document, Bounded(docs'), created' \in BOOLEAN,
                 clock' \in Nat, writes' \in Nat, copy' \in [Clients -> Document],
                 RequestTypeOK', \A k \in Clients : Bounded(snap'[k])
          PROVE  TypeInv'
    BY <2>suf DEF TypeOK
  <2>1. CASE Create(c)
    <3>1. PICK t \in {clock, clock + 1}, ws \in Workspaces :
            /\ TouchMetadata(t)
            /\ LET d == AsLatest(Edited(NoDoc, t, ws), writes + 1, 1)
               IN  /\ docs' = docs \cup {d}
                   /\ Start(c, "post", "reply", d, 0, 0)
      BY <2>1, CreateInserts DEF InsertFirst
    <3> DEFINE d == AsLatest(Edited(NoDoc, t, ws), writes + 1, 1)
    <3>2. d \in Document
      <4>1. Edited(NoDoc, t, ws) \in Document /\ writes + 1 \in Nat /\ 1 \in Nat
        BY <1>typ, <2>tim, <2>edi, NoDocType
      <4> QED BY <4>1, StampType
    <3> HIDE DEF d
    <3>3. docs' = docs \cup {d} /\ Start(c, "post", "reply", d, 0, 0)
      BY <3>1 DEF d
    <3>4. Bounded(docs')
      BY <1>typ, <3>2, <3>3, BoundedSteps
    <3>5. clock' \in Nat /\ writes' \in Nat
      BY <1>typ, <2>tim, <3>1 DEF TouchMetadata
    <3>6. created' \in BOOLEAN /\ copy' = copy
      BY <2>1, CreateInserts DEF InsertFirst
    <3>7. RequestTypeOK' /\ \A k \in Clients : Bounded(snap'[k])
      BY <3>2, <3>3, <2>req, <2>snp
    <3> QED BY <1>typ, <2>suf, <3>2, <3>3, <3>4, <3>5, <3>6, <3>7
  <2>2. CASE Reply(c)
    <3>1. copy' \in [Clients -> Document]
      BY <2>2, <1>typ, <2>loc DEF Reply
    <3> QED BY <2>2, <3>1, <1>typ, <2>req, <2>snp, <2>suf DEF Reply
  <2>3. CASE Abort(c)
    BY <2>3, <1>typ, <2>req, <2>snp, <2>suf DEF Abort
  <2>4. CASE GetVersion(c)
    <3>1. PICK v \in 0 .. MaxWrites :
            Start(c, "get", "find", NoDoc, 0, getCRefVersion(v))
      BY <2>4 DEF GetVersion
    <3>2. getCRefVersion(v) \in Nat
      BY <1>lat, ConstantsAssumption DEF getCRefVersion
    <3>3. RequestTypeOK' /\ \A k \in Clients : Bounded(snap'[k])
      BY <3>1, <3>2, <2>req, <2>snp, NoDocType
    <3> QED BY <2>4, <3>3, <1>typ, <2>suf DEF GetVersion
  <2>5. CASE GetFind(c)
    <3>1. copy' \in [Clients -> Document]
      BY <2>5, <1>typ DEF GetFind, Matching
    <3> QED BY <2>5, <3>1, <1>typ, <2>req, <2>snp, <2>suf DEF GetFind
  <2>6. CASE Put(c)
    <3>1. PICK t \in {clock, clock + 1}, ws \in Workspaces :
            /\ TouchMetadata(t)
            /\ \/ Start(c, "put", "find", Edited(copy[c], t, ws), 0,
                        GetLatestVersion(docs))
               \/ Start(c, "put", "begin", Edited(copy[c], t, copy[c].ws), 0, 0)
      BY <2>6, ConstantsAssumption DEF Put, PutComponent, PutWorkflow, getCRefVersion
    <3>2. RequestTypeOK' /\ \A k \in Clients : Bounded(snap'[k])
      BY <3>1, <1>lat, <2>loc, <2>tim, <2>edi, <2>req, <2>snp
    <3>3. clock' \in Nat /\ writes' \in Nat
      BY <1>typ, <2>tim, <3>1 DEF TouchMetadata
    <3> QED BY <2>6, <3>2, <3>3, <1>typ, <2>suf DEF Put, PutComponent, PutWorkflow
  <2>7. CASE PutWorkflowCheck(c)
    <3>1. RequestTypeOK' /\ \A k \in Clients : Bounded(snap'[k])
      BY <2>7, <2>loc, <2>req, <2>snp DEF PutWorkflowCheck
    <3> QED BY <2>7, <3>1, <1>typ, <2>suf DEF PutWorkflowCheck
  <2>8. CASE PutCommit(c)
    <3> DEFINE latest == GetLatestVersion(snap[c])
               new  == AsLatest(body[c], body[c].content, latest + 1)
               pull == TaggedBefore(snap[c], latest + 1)
    <3>1. latest + 1 \in Nat
      BY <1>typ, <2>loc, LatestIsGreatest
    <3>2. new \in Document
      BY <3>1, <2>loc, StampType
    <3> HIDE DEF latest
    <3>3. \/ /\ pull \subseteq docs
             /\ docs' = (docs \ pull) \cup {new}
                          \cup {[d EXCEPT !.tag = FALSE] : d \in pull}
             /\ Done(c)
          \/ Retry(c)
      BY <2>8 DEF PutCommit, latest
    <3> HIDE DEF new, pull
    <3>4. docs' \in SUBSET Document /\ Bounded(docs')
      <4>1. CASE Retry(c)
        BY <4>1, <1>typ DEF Retry
      <4>2. CASE ~Retry(c)
        <5>1. pull \in SUBSET docs
          BY <3>3, <4>2
        <5>2. docs' = (docs \ pull) \cup {new}
                        \cup {[d EXCEPT !.tag = FALSE] : d \in pull}
          BY <3>3, <4>2
        <5>3. \A d \in pull : [d EXCEPT !.tag = FALSE] \in Document
          BY <1>typ, <5>1, UntagType
        <5>4. docs' \in SUBSET Document
          BY <1>typ, <3>2, <5>2, <5>3
        <5>5. Bounded(docs')
          BY <1>typ, <3>2, <5>1, <5>2, BoundedSteps
        <5> QED BY <5>4, <5>5
      <4> QED BY <4>1, <4>2
    <3>5. RequestTypeOK' /\ \A k \in Clients : Bounded(snap'[k])
      BY <3>3, <2>req, <2>snp
    <3> QED BY <2>8, <3>4, <3>5, <1>typ, <2>suf DEF PutCommit
  <2>9. CASE Patch(c)
    <3>1. PICK t \in {clock, clock + 1}, ws \in Workspaces :
            /\ TouchMetadata(t)
            /\ Start(c, "patch", "begin", Edited(copy[c], t, ws), copy[c].ts, 0)
      BY <2>9, <2>loc DEF Patch, PatchComponent, PatchWorkflow, SendPatch
    <3>2. RequestTypeOK' /\ \A k \in Clients : Bounded(snap'[k])
      BY <3>1, <2>loc, <2>tim, <2>edi, <2>req, <2>snp
    <3>3. clock' \in Nat /\ writes' \in Nat
      BY <1>typ, <2>tim, <3>1 DEF TouchMetadata
    <3> QED BY <2>9, <3>2, <3>3, <1>typ, <2>suf
            DEF Patch, PatchComponent, PatchWorkflow, SendPatch
  <2>10. CASE PatchCommit(c)
    <3>1. \/ Done(c) /\ UNCHANGED docs
          \/ Retry(c)
          \/ \E d \in docs :
               /\ docs' = (docs \ {d}) \cup {[body[c] EXCEPT !.id = d.id]}
               /\ Answer(c, [body[c] EXCEPT !.id = d.id])
      BY <2>10 DEF PatchCommit
    <3>2. /\ docs' \in SUBSET Document /\ Bounded(docs')
          /\ RequestTypeOK' /\ \A k \in Clients : Bounded(snap'[k])
      <4>1. CASE Done(c) /\ UNCHANGED docs
        BY <4>1, <1>typ, <2>req, <2>snp
      <4>2. CASE Retry(c)
        BY <4>2, <1>typ, <2>req, <2>snp DEF Retry
      <4>3. ASSUME NEW d \in docs,
                   docs' = (docs \ {d}) \cup {[body[c] EXCEPT !.id = d.id]},
                   Answer(c, [body[c] EXCEPT !.id = d.id])
            PROVE  /\ docs' \in SUBSET Document /\ Bounded(docs')
                   /\ RequestTypeOK' /\ \A k \in Clients : Bounded(snap'[k])
        <5> DEFINE new == [body[c] EXCEPT !.id = d.id]
        <5>1. d.id \in Nat
          BY <1>typ DEF Document
        <5>2. new \in Document
          BY <2>loc, <5>1, StampType
        <5> HIDE DEF new
        <5>3. docs' = (docs \ {d}) \cup {new} /\ Answer(c, new)
          BY <4>3 DEF new
        <5>4. {d} \in SUBSET docs
          OBVIOUS
        <5>5. Bounded(docs \ {d}) /\ docs \ {d} \in SUBSET Document
          BY <1>typ, <5>2, <5>4, BoundedSteps
        <5>6. Bounded(docs')
          BY <5>2, <5>3, <5>5, BoundedSteps
        <5> QED BY <1>typ, <2>req, <2>snp, <5>2, <5>3, <5>6
      <4> QED BY <3>1, <4>1, <4>2, <4>3
    <3> QED BY <2>10, <3>2, <1>typ, <2>suf DEF PatchCommit
  <2>11. CASE Delete(c)
    <3>1. RequestTypeOK' /\ \A k \in Clients : Bounded(snap'[k])
      <4>1. PICK v \in 1 .. MaxWrites :
              \/ Start(c, "delete", "find", NoDoc, 0, v)
              \/ Start(c, "delete", "begin", NoDoc, 0, v)
        BY <2>11 DEF Delete, DeleteComponent, DeleteWorkflow, SendDelete
      <4>2. v \in Nat
        BY ConstantsAssumption
      <4> QED BY <4>1, <4>2, <2>req, <2>snp, NoDocType
    <3> QED BY <2>11, <3>1, <1>typ, <2>suf
            DEF Delete, DeleteComponent, DeleteWorkflow, SendDelete
  <2>12. CASE DeleteWorkflowCheck(c)
    <3>1. RequestTypeOK' /\ \A k \in Clients : Bounded(snap'[k])
      BY <2>12, <2>loc, <2>req, <2>snp, NoDocType DEF DeleteWorkflowCheck
    <3> QED BY <2>12, <3>1, <1>typ, <2>suf DEF DeleteWorkflowCheck
  <2>13. CASE DeleteCommit(c)
    <3>1. \/ Done(c) /\ \E R \in SUBSET docs : docs' = docs \ R
          \/ Retry(c)
      BY <2>13 DEF DeleteCommit
    <3>2. docs' \in SUBSET Document /\ Bounded(docs')
      BY <3>1, <1>typ, NoDocType, BoundedSteps DEF Retry
    <3>3. RequestTypeOK' /\ \A k \in Clients : Bounded(snap'[k])
      BY <3>1, <2>req, <2>snp
    <3> QED BY <2>13, <3>2, <3>3, <1>typ, <2>suf DEF DeleteCommit
  <2>14. CASE TxnBegin(c)
    <3>1. RequestTypeOK'
      BY <2>14, <1>typ DEF TxnBegin, RequestTypeOK
    <3>2. \A k \in Clients : Bounded(snap'[k])
      BY <2>14, <1>typ DEF TxnBegin
    <3> QED BY <2>14, <3>1, <3>2, <1>typ, <2>suf DEF TxnBegin
  <2> QED BY <1>2, <2>1, <2>2, <2>3, <2>4, <2>5, <2>6, <2>7, <2>8, <2>9, <2>10,
             <2>11, <2>12, <2>13, <2>14 DEF ClientStep
<1> QED BY <1>1, <1>2 DEF Next

(* Every reachable state is well typed, for every value of the constants:   *)
(* in particular updateCallback always computes a version number, because   *)
(* the numbers stored stay bounded.                                         *)
THEOREM TypeCorrect == Spec => []TypeOK
<1>1. Spec => []TypeInv
  BY TypeInvInit, TypeInvStep, PTL DEF Spec
<1>2. TypeInv => TypeOK
  BY DEF TypeInv
<1> QED BY <1>1, <1>2, PTL

-----------------------------------------------------------------------------
(***************************************************************************)
(* One newest version.  Assume that no client deletes a version without    *)
(* having seen a later one.  Then a PUT whose snapshot still holds, in the *)
(* stored collection, the tagged document it pulls the tag from, saw the   *)
(* newest version: the tagged document is the newest both in the snapshot  *)
(* and in the collection.  That is the only thing that orders concurrent   *)
(* PUTs, so the invariant ties the snapshots and the documents clients     *)
(* hold to the collection.                                                 *)
(***************************************************************************)

\* Versions are distinct and the tag marks the newest one.
Lineage(S) ==
    /\ VersionsUniqueIn(S)
    /\ LatestTagIn(S)
    /\ S # {} => \E d \in S : d.tag

\* A document a client holds is not newer than the collection, and strictly
\* older if it does not carry the tag.
Known(b, S) ==
    b.cur > 0 => \E d \in S : b.cur <= d.cur /\ (~b.tag => b.cur < d.cur)

ClientInv(c) ==
    /\ Lineage(snap[c])
    /\ pc[c] \in {"begin", "commit"} => created
    /\ pc[c] = "commit" => snap[c] # {}
    /\ Known(copy[c], docs)
    /\ Known(body[c], docs)
    /\ op[c] = "patch" => body[c].cur > 0
    /\ op[c] = "delete" => \E d \in docs : ver[c] < d.cur

HistoryInv ==
    /\ TypeInv
    /\ Lineage(docs)
    /\ created <=> docs # {}
    /\ \A c \in Clients : ClientInv(c)

(* In a lineage the tagged document is the one GetLatestVersion finds. *)
LEMMA TaggedIsLatest ==
    ASSUME NEW S \in SUBSET Document, Bounded(S), Lineage(S), S # {}
    PROVE  \E m \in S :
             /\ m.tag
             /\ m.cur = GetLatestVersion(S)
             /\ \A d \in S : d.cur <= m.cur
             /\ TaggedBefore(S, m.cur + 1) = {m}
<1>1. PICK m \in S : m.tag
  BY DEF Lineage
<1>2. \A d \in S : d.cur \in Nat
  BY DEF Document
<1>3. \A d \in S : d.cur <= m.cur
  BY <1>1 DEF Lineage, LatestTagIn
<1>4. m.cur = GetLatestVersion(S)
  <2>1. PICK d \in S : d.cur = GetLatestVersion(S)
    BY LatestIsGreatest
  <2>2. m.cur <= GetLatestVersion(S) /\ GetLatestVersion(S) \in Nat
    BY LatestIsGreatest
  <2> QED BY <1>2, <1>3, <2>1, <2>2
<1>5. \A d \in S : d.tag => d = m
  <2> TAKE d \in S
  <2>1. d.tag => d.cur >= m.cur
    BY DEF Lineage, LatestTagIn
  <2> QED BY <1>2, <1>3, <2>1 DEF Lineage, VersionsUniqueIn
<1>6. TaggedBefore(S, m.cur + 1) = {m}
  BY <1>1, <1>2, <1>5 DEF TaggedBefore
<1> QED BY <1>1, <1>3, <1>4, <1>6

(* Appending the next version and pulling the tag from the newest document  *)
(* keeps a lineage.                                                         *)
LEMMA AppendKeepsLineage ==
    ASSUME NEW S \in SUBSET Document, Lineage(S), NEW m \in S, m.tag,
           NEW n \in Document, n.cur = m.cur + 1, n.tag = TRUE,
           NEW T, T = (S \ {m}) \cup {n}
                        \cup {[d EXCEPT !.tag = FALSE] : d \in {m}}
    PROVE  Lineage(T) /\ \A d \in S : \E e \in T : d.cur <= e.cur
<1> DEFINE u == [m EXCEPT !.tag = FALSE]
<1>1. u \in Document /\ u.cur = m.cur /\ u.tag = FALSE
  BY UntagType
<1> HIDE DEF u
<1>2. T = (S \ {m}) \cup {n, u}
  BY DEF u
<1>3. \A d \in S \ {m} : d.cur < m.cur /\ d.cur \in Nat /\ ~d.tag
  <2> TAKE d \in S \ {m}
  <2>1. d.cur \in Nat /\ m.cur \in Nat
    BY DEF Document
  <2>2. d.cur <= m.cur
    BY DEF Lineage, LatestTagIn
  <2>3. d.cur # m.cur
    BY DEF Lineage, VersionsUniqueIn
  <2>4. d.cur < m.cur
    BY <2>1, <2>2, <2>3
  <2>5. ~d.tag
    BY <2>1, <2>4 DEF Lineage, LatestTagIn
  <2> QED BY <2>1, <2>4, <2>5
<1>4. m.cur \in Nat
  BY DEF Document
<1>5. \A d \in T : d = n \/ (d.cur <= m.cur /\ d.cur \in Nat /\ ~d.tag)
  BY <1>1, <1>2, <1>3, <1>4
<1>6. VersionsUniqueIn(T)
  BY <1>1, <1>2, <1>3, <1>4, <1>5 DEF VersionsUniqueIn, Lineage
<1>7. LatestTagIn(T)
  <2> SUFFICES ASSUME NEW d \in T
               PROVE  d.tag <=> \A e \in T : e.cur <= d.cur
    BY DEF LatestTagIn
  <2>1. CASE d = n
    BY <2>1, <1>4, <1>5
  <2>2. CASE d # n
    BY <2>2, <1>2, <1>4, <1>5
  <2> QED BY <2>1, <2>2
<1>8. n \in T /\ n.tag
  BY <1>2
<1>9. \A d \in S : d.cur <= n.cur
  BY <1>3, <1>4
<1> QED BY <1>6, <1>7, <1>8, <1>9 DEF Lineage

(* Replacing a document by one with the same version number and tag keeps a *)
(* lineage.                                                                 *)
LEMMA ReplaceKeepsLineage ==
    ASSUME NEW S \in SUBSET Document, Lineage(S), NEW m \in S,
           NEW n \in Document, n.cur = m.cur, n.tag = m.tag,
           NEW T, T = (S \ {m}) \cup {n}
    PROVE  Lineage(T) /\ \A d \in S : \E e \in T : d.cur <= e.cur
<1>0. \A d \in Document : d.cur \in Nat
  BY DEF Document
<1>1. VersionsUniqueIn(T)
  BY DEF VersionsUniqueIn, Lineage
<1>2. LatestTagIn(T)
  <2>1. \A v : (\A e \in T : e.cur <= v) <=> (\A e \in S : e.cur <= v)
    OBVIOUS
  <2> QED BY <2>1 DEF LatestTagIn, Lineage
<1>3. \E d \in T : d.tag
  BY DEF Lineage
<1>4. \A d \in S : d \in T \/ d.cur <= n.cur
  BY <1>0
<1> QED BY <1>0, <1>1, <1>2, <1>3, <1>4 DEF Lineage

(* Removing a version that is not the newest keeps a lineage. *)
LEMMA RemoveKeepsLineage ==
    ASSUME NEW S \in SUBSET Document, Lineage(S), NEW m \in S,
           NEW w \in S, m.cur < w.cur
    PROVE  Lineage(S \ {m}) /\ \A d \in S : \E e \in S \ {m} : d.cur <= e.cur
<1>0. \A d \in S : d.cur \in Nat
  BY DEF Document
<1>1. w \in S \ {m}
  BY <1>0
<1>2. ~m.tag
  BY <1>0 DEF Lineage, LatestTagIn
<1>3. VersionsUniqueIn(S \ {m})
  BY DEF VersionsUniqueIn, Lineage
<1>4. LatestTagIn(S \ {m})
  <2>1. \A d \in S : (\A e \in S \ {m} : e.cur <= d.cur)
                        <=> (\A e \in S : e.cur <= d.cur)
    BY <1>0, <1>1
  <2> QED BY <2>1 DEF LatestTagIn, Lineage
<1>5. \E d \in S \ {m} : d.tag
  BY <1>2 DEF Lineage
<1>6. \A d \in S : d.cur <= w.cur \/ d \in S \ {m}
  BY <1>0
<1> QED BY <1>0, <1>1, <1>3, <1>4, <1>5, <1>6 DEF Lineage

(* Every stored version is matched by one at least as new. *)
Grows(S, T) == \A d \in S : \E e \in T : d.cur <= e.cur

(* What clients know of the collection stays true while it grows. *)
LEMMA KnownGrows ==
    ASSUME NEW S \in SUBSET Document, NEW T \in SUBSET Document, Grows(S, T)
    PROVE  /\ \A b \in Document : Known(b, S) => Known(b, T)
           /\ \A v \in Nat : (\E d \in S : v < d.cur) => \E e \in T : v < e.cur
           /\ S # {} => T # {}
<1>0. \A d \in Document : d.cur \in Nat
  BY DEF Document
<1>1. ASSUME NEW b \in Document, Known(b, S) PROVE Known(b, T)
  <2>1. SUFFICES ASSUME b.cur > 0
                 PROVE  \E e \in T : b.cur <= e.cur /\ (~b.tag => b.cur < e.cur)
    BY DEF Known
  <2>2. PICK d \in S : b.cur <= d.cur /\ (~b.tag => b.cur < d.cur)
    BY <1>1, <2>1 DEF Known
  <2>3. PICK e \in T : d.cur <= e.cur
    BY DEF Grows
  <2>4. b.cur \in Nat /\ d.cur \in Nat /\ e.cur \in Nat
    BY <1>0
  <2> QED BY <2>2, <2>3, <2>4
<1>2. ASSUME NEW v \in Nat, NEW d \in S, v < d.cur PROVE \E e \in T : v < e.cur
  <2>1. PICK e \in T : d.cur <= e.cur
    BY DEF Grows
  <2> QED BY <1>0, <1>2, <2>1
<1>3. S # {} => T # {}
  BY DEF Grows
<1> QED BY <1>1, <1>2, <1>3

(* What a step does to the collection. *)
LEMMA CollectionStep ==
    ASSUME ~DeleteLatest, HistoryInv, NEW c \in Clients, ClientStep(c)
    PROVE  /\ Lineage(docs')
           /\ Grows(docs, docs')
           /\ created' <=> docs' # {}
<1>typ. /\ docs \in SUBSET Document /\ Bounded(docs) /\ Lineage(docs)
        /\ snap[c] \in SUBSET Document /\ Bounded(snap[c]) /\ Lineage(snap[c])
        /\ body[c] \in Document /\ Known(body[c], docs)
        /\ TypeOK /\ writes \in Nat /\ clock \in Nat /\ ver[c] \in Nat
        /\ body[c].content \in Nat /\ body[c].cur \in Nat
        /\ created <=> docs # {}
  BY DEF HistoryInv, ClientInv, TypeInv, TypeOK, RequestTypeOK, Document
<1>nat. \A d \in Document : d.cur \in Nat /\ d.id \in Nat
  BY DEF Document
<1>same. UNCHANGED <<docs, created>>
           => Lineage(docs') /\ Grows(docs, docs') /\ (created' <=> docs' # {})
  BY <1>typ, <1>nat DEF Grows
<1>1. CASE Create(c)
  <2>1. PICK t \in {clock, clock + 1}, ws \in Workspaces :
          docs' = docs \cup {AsLatest(Edited(NoDoc, t, ws), writes + 1, 1)}
    BY <1>1, CreateInserts DEF InsertFirst
  <2> DEFINE d == AsLatest(Edited(NoDoc, t, ws), writes + 1, 1)
  <2>2. t \in Nat /\ writes + 1 \in Nat /\ 1 \in Nat
    BY <1>typ
  <2>3. Edited(NoDoc, t, ws) \in Document
    BY <1>typ, <2>2, NoDocType, EditedType
  <2>4. d.cur = 1 /\ d.tag = TRUE
    BY <2>2, <2>3, StampType
  <2> HIDE DEF d
  <2>5. docs = {} /\ docs' = {d} /\ created' = TRUE
    BY <1>typ, <1>1, <2>1, CreateInserts DEF InsertFirst, d
  <2> QED BY <2>4, <2>5 DEF Lineage, VersionsUniqueIn, LatestTagIn, Grows
<1>2. CASE PutCommit(c)
  <2> DEFINE latest == GetLatestVersion(snap[c])
             new  == AsLatest(body[c], body[c].content, latest + 1)
             pull == TaggedBefore(snap[c], latest + 1)
  <2>1. created' = created
    BY <1>2 DEF PutCommit
  <2>2. CASE Retry(c)
    BY <1>same, <2>1, <2>2 DEF Retry
  <2>3. CASE ~Retry(c)
    <3>1. snap[c] # {}
      BY <1>2 DEF PutCommit, HistoryInv, ClientInv
    <3>2. PICK m \in snap[c] : m.tag /\ m.cur = latest /\ pull = {m}
      BY <1>typ, <3>1, TaggedIsLatest
    <3>3. m \in Document /\ m.cur + 1 \in Nat
      BY <1>typ, <1>nat
    <3>4. new \in Document /\ new.cur = m.cur + 1 /\ new.tag = TRUE
      <4>1. latest + 1 = m.cur + 1
        BY <3>2
      <4>2. new = AsLatest(body[c], body[c].content, m.cur + 1)
        BY <4>1
      <4> HIDE DEF latest, pull, new
      <4>3. m.cur + 1 \in Nat /\ body[c].content \in Nat /\ body[c] \in Document
        BY <1>typ, <3>3
      <4>4. /\ AsLatest(body[c], body[c].content, m.cur + 1) \in Document
            /\ AsLatest(body[c], body[c].content, m.cur + 1).cur = m.cur + 1
            /\ AsLatest(body[c], body[c].content, m.cur + 1).tag = TRUE
        BY <4>3, StampType
      <4> QED BY <4>2, <4>4
    <3>5. /\ pull \subseteq docs
          /\ docs' = (docs \ pull) \cup {new}
                       \cup {[d EXCEPT !.tag = FALSE] : d \in pull}
      BY <1>2, <2>3 DEF PutCommit
    <3> HIDE DEF new, pull, latest
    <3>6. m \in docs /\ docs' = (docs \ {m}) \cup {new}
                                  \cup {[d EXCEPT !.tag = FALSE] : d \in {m}}
      BY <3>2, <3>5
    <3>7. Lineage(docs') /\ Grows(docs, docs')
      BY <1>typ, <3>2, <3>4, <3>6, AppendKeepsLineage DEF Grows
    <3> QED BY <1>typ, <2>1, <3>6, <3>7
  <2> QED BY <2>2, <2>3
<1>3. CASE PatchCommit(c)
  <2>1. created' = created
    BY <1>3 DEF PatchCommit
  <2>2. CASE UNCHANGED docs
    BY <1>same, <2>1, <2>2
  <2>3. CASE docs' # docs
    <3>1. PICK d \in VersionIn(snap[c], body[c].cur) :
            /\ d \in docs
            /\ body[c].cur = GetLatestVersion(snap[c])
            /\ docs' = (docs \ {d}) \cup {[body[c] EXCEPT !.id = d.id]}
      BY <1>3, <2>3 DEF PatchCommit, Retry
    <3> DEFINE new == [body[c] EXCEPT !.id = d.id]
    <3>2. new \in Document /\ new.cur = body[c].cur /\ new.tag = body[c].tag
      BY <1>typ, <1>nat, <3>1, StampType
    <3> HIDE DEF new
    <3>3. docs' = (docs \ {d}) \cup {new}
      BY <3>1 DEF new
    <3>4. d \in snap[c] /\ d.cur = body[c].cur
      BY <3>1 DEF VersionIn
    <3>5. \A e \in snap[c] : e.cur <= d.cur
      BY <1>typ, <3>1, <3>4, LatestIsGreatest
    <3>6. d.tag
      BY <1>typ, <3>4, <3>5 DEF Lineage, LatestTagIn
    <3>7. \A e \in docs : e.cur <= d.cur
      BY <1>typ, <3>1, <3>6 DEF Lineage, LatestTagIn
    <3>8. d.cur > 0
      BY <1>3, <3>4 DEF PatchCommit, HistoryInv, ClientInv
    <3>9. body[c].tag
      <4>1. PICK e \in docs : body[c].cur <= e.cur
                               /\ (~body[c].tag => body[c].cur < e.cur)
        BY <1>typ, <3>4, <3>8 DEF Known
      <4> QED BY <1>typ, <1>nat, <3>4, <3>7, <4>1
    <3>10. new.tag = d.tag
      BY <3>2, <3>6, <3>9, <1>typ DEF Document
    <3>11. Lineage(docs') /\ Grows(docs, docs')
      BY <1>typ, <3>1, <3>2, <3>3, <3>4, <3>10, ReplaceKeepsLineage DEF Grows
    <3> QED BY <1>typ, <2>1, <3>3, <3>1, <3>11
  <2> QED BY <2>2, <2>3
<1>4. CASE DeleteCommit(c)
  <2>1. created' = created
    BY <1>4 DEF DeleteCommit
  <2>2. CASE UNCHANGED docs
    BY <1>same, <2>1, <2>2
  <2>3. CASE docs' # docs
    <3>1. PICK d \in VersionIn(snap[c], ver[c]) : d \in docs /\ docs' = docs \ {d}
      BY <1>4, <2>3 DEF DeleteCommit, Retry
    <3>2. PICK w \in docs : ver[c] < w.cur
      BY <1>4 DEF DeleteCommit, HistoryInv, ClientInv
    <3>3. d.cur < w.cur
      BY <3>1, <3>2 DEF VersionIn
    <3>4. Lineage(docs') /\ Grows(docs, docs')
      BY <1>typ, <3>1, <3>2, <3>3, RemoveKeepsLineage DEF Grows
    <3> QED BY <1>typ, <2>1, <3>2, <3>4 DEF Grows
  <2> QED BY <2>2, <2>3
<1>5. CASE ~(Create(c) \/ PutCommit(c) \/ PatchCommit(c) \/ DeleteCommit(c))
  <2>1. UNCHANGED <<docs, created>>
    BY <1>5 DEF ClientStep, Reply, Abort, GetVersion, GetFind, Put, PutComponent,
                PutWorkflow, PutWorkflowCheck, Patch, PatchComponent,
                PatchWorkflow, SendPatch, Delete, DeleteComponent,
                DeleteWorkflow, SendDelete, DeleteWorkflowCheck, TxnBegin
  <2> QED BY <1>same, <2>1
<1> QED BY <1>1, <1>2, <1>3, <1>4, <1>5

(* What is stored is known, and so is what is edited from something known. *)
LEMMA StoredKnown ==
    ASSUME NEW S \in SUBSET Document, Lineage(S), NEW d \in S
    PROVE  Known(d, S)
<1>0. \A e \in S : e.cur \in Nat
  BY DEF Document
<1>1. CASE d.tag
  BY <1>0, <1>1 DEF Known
<1>2. CASE ~d.tag
  <2>1. PICK e \in S : ~(e.cur <= d.cur)
    BY <1>2 DEF Lineage, LatestTagIn
  <2>2. d.cur <= e.cur /\ d.cur < e.cur
    BY <1>0, <2>1
  <2> QED BY <2>2 DEF Known
<1> QED BY <1>1, <1>2

(* What is edited from something known is known. *)
LEMMA EditedKnown ==
    ASSUME NEW d \in Document, NEW t \in Nat, NEW ws \in Workspaces,
           NEW S, Known(d, S)
    PROVE  Known(Edited(d, t, ws), S) /\ Edited(d, t, ws).cur = d.cur
<1>1. Edited(d, t, ws).cur = d.cur /\ Edited(d, t, ws).tag = d.tag
  BY DEF Edited, Document
<1> QED BY <1>1 DEF Known

(* The part of the invariant about one client, when its variables stay.     *)
LEMMA ClientInvKept ==
    ASSUME TypeInv, TypeInv', Grows(docs, docs'), created => created',
           NEW k \in Clients, ClientInv(k),
           Lineage(snap'[k]), pc'[k] = "commit" => snap'[k] # {},
           pc'[k] \in {"begin", "commit"} => created',
           copy'[k] = copy[k], body'[k] = body[k],
           op'[k] = op[k], ver'[k] = ver[k]
    PROVE  ClientInv(k)'
<1>1. /\ docs \in SUBSET Document /\ docs' \in SUBSET Document
      /\ copy[k] \in Document /\ body[k] \in Document /\ ver[k] \in Nat
  BY DEF TypeInv, TypeOK, RequestTypeOK
<1>2. Known(copy[k], docs') /\ Known(body[k], docs')
  BY <1>1, KnownGrows DEF ClientInv
<1>3. op[k] = "delete" => \E d \in docs' : ver[k] < d.cur
  <2>1. \A v \in Nat : (\E d \in docs : v < d.cur) => \E e \in docs' : v < e.cur
    BY <1>1, KnownGrows, Zenon
  <2> QED BY <1>1, <2>1 DEF ClientInv
<1> QED BY <1>2, <1>3 DEF ClientInv

(* The first states satisfy the invariant. *)
LEMMA HistoryInit == Init => HistoryInv
<1> SUFFICES ASSUME Init PROVE HistoryInv
  OBVIOUS
<1>1. TypeInv
  BY TypeInvInit
<1>2. Lineage({})
  BY DEF Lineage, VersionsUniqueIn, LatestTagIn
<1>3. ~(NoDoc.cur > 0)
  BY DEF NoDoc
<1>4. \A c \in Clients : ClientInv(c)
  BY <1>2, <1>3 DEF Init, ClientInv, Known
<1> QED BY <1>1, <1>2, <1>4 DEF Init, HistoryInv

(* Every step keeps the invariant, while only superseded versions are deleted. *)
LEMMA HistoryStep ==
    ASSUME ~DeleteLatest
    PROVE  HistoryInv /\ [Next]_vars => HistoryInv'
<1> SUFFICES ASSUME HistoryInv, [Next]_vars PROVE HistoryInv'
  OBVIOUS
<1>typ. TypeInv /\ TypeInv'
  BY TypeInvStep DEF HistoryInv
<1>1. CASE UNCHANGED vars
  BY <1>1, <1>typ DEF vars, HistoryInv, ClientInv
<1>2. ASSUME NEW c \in Clients, ClientStep(c) PROVE HistoryInv'
  <2>col. Lineage(docs') /\ Grows(docs, docs') /\ (created' <=> docs' # {})
    BY <1>2, CollectionStep
  <2>loc. /\ docs \in SUBSET Document /\ docs' \in SUBSET Document
          /\ Lineage(docs) /\ (created <=> docs # {})
          /\ copy[c] \in Document /\ body[c] \in Document /\ ver[c] \in Nat
          /\ clock \in Nat /\ copy[c].ws \in Workspaces
          /\ copy[c].cur \in Nat
          /\ \A k \in Clients : ClientInv(k)
          /\ copy \in [Clients -> Document] /\ RequestTypeOK
    BY <1>typ DEF HistoryInv, TypeInv, TypeOK, RequestTypeOK, Document
  <2>cre. created => created'
    BY <2>col, <2>loc, KnownGrows
  <2>emp. Lineage({})
    BY DEF Lineage, VersionsUniqueIn, LatestTagIn
  <2>old. \A b \in Document : Known(b, docs) => Known(b, docs')
    BY <2>col, <2>loc, KnownGrows, Zenon
  <2>non. NoDoc \in Document /\ Known(NoDoc, docs')
    BY NoDocType DEF NoDoc, Known
  <2>oth. ASSUME NEW k \in Clients, k # c,
                 copy'[k] = copy[k], body'[k] = body[k], pc'[k] = pc[k],
                 op'[k] = op[k], ver'[k] = ver[k], snap'[k] = snap[k]
          PROVE  ClientInv(k)'
    <3>1. /\ Lineage(snap'[k]) /\ (pc'[k] = "commit" => snap'[k] # {})
          /\ pc'[k] \in {"begin", "commit"} => created'
      BY <2>oth, <2>loc, <2>cre DEF ClientInv
    <3> QED BY <1>typ, <2>oth, <2>col, <2>cre, <2>loc, <3>1, ClientInvKept
  <2>fin. ASSUME \A k \in Clients : ClientInv(k)' PROVE HistoryInv'
    BY <2>fin, <1>typ, <2>col DEF HistoryInv
  (* A request that ends, and one that starts *)
  <2>don. ASSUME Done(c), Known(copy'[c], docs'),
                 \A k \in Clients : k # c => copy'[k] = copy[k]
          PROVE  \A k \in Clients : ClientInv(k)'
    <3> TAKE k \in Clients
    <3>1. CASE k = c
      BY <3>1, <2>don, <2>loc, <2>emp, <2>non DEF Done, ClientInv, RequestTypeOK
    <3>2. CASE k # c
      BY <3>2, <2>don, <2>oth, <2>loc DEF Done, RequestTypeOK
    <3> QED BY <3>1, <3>2
  <2>sta. ASSUME NEW m, NEW p, NEW b, NEW o, NEW v, Start(c, m, p, b, o, v),
                 p # "commit", p = "begin" => created', copy' = copy,
                 Known(b, docs'), m = "patch" => b.cur > 0,
                 m = "delete" => \E d \in docs' : v < d.cur
          PROVE  \A k \in Clients : ClientInv(k)'
    <3> TAKE k \in Clients
    <3>1. CASE k = c
      <4>1. /\ snap'[c] = snap[c] /\ pc'[c] = p /\ copy'[c] = copy[c]
            /\ body'[c] = b /\ op'[c] = m /\ ver'[c] = v
        BY <2>sta, <2>loc DEF Start, RequestTypeOK
      <4>2. Lineage(snap[c]) /\ Known(copy[c], docs')
        BY <2>loc, <2>old DEF ClientInv
      <4> QED BY <3>1, <4>1, <4>2, <2>sta DEF ClientInv
    <3>2. CASE k # c
      BY <3>2, <2>sta, <2>oth, <2>loc DEF Start, RequestTypeOK
    <3> QED BY <3>1, <3>2
  <2>ret. ASSUME Retry(c), copy' = copy, pc[c] = "commit"
          PROVE  \A k \in Clients : ClientInv(k)'
    <3> TAKE k \in Clients
    <3>1. CASE k = c
      <4>1. /\ snap'[c] = {} /\ pc'[c] = "begin" /\ copy'[c] = copy[c]
            /\ body'[c] = body[c] /\ op'[c] = op[c] /\ ver'[c] = ver[c]
        BY <2>ret, <2>loc DEF Retry, RequestTypeOK
      <4>2. created'
        BY <2>ret, <2>loc, <2>cre DEF ClientInv
      <4> QED BY <3>1, <4>1, <4>2, <1>typ, <2>col, <2>cre, <2>loc, <2>emp,
                 ClientInvKept
    <3>2. CASE k # c
      BY <3>2, <2>ret, <2>oth, <2>loc DEF Retry, RequestTypeOK
    <3> QED BY <3>1, <3>2
  <2>kno. Known(copy[c], docs) /\ Known(copy[c], docs') /\ Known(body[c], docs')
    BY <2>loc, <2>old DEF ClientInv
  <2>edi. \A t \in {clock, clock + 1}, ws \in Workspaces :
            /\ Known(Edited(copy[c], t, ws), docs')
            /\ Edited(copy[c], t, ws).cur = copy[c].cur
    <3> TAKE t \in {clock, clock + 1}, ws \in Workspaces
    <3>1. t \in Nat
      BY <2>loc
    <3> QED BY <2>loc, <2>kno, <3>1, EditedKnown
  <2>1. CASE Create(c)
    <3>1. PICK d \in docs' : Start(c, "post", "reply", d, 0, 0)
      BY <2>1, CreateInserts DEF InsertFirst
    <3>2. Known(d, docs')
      BY <2>loc, <2>col, StoredKnown
    <3>3. copy' = copy
      BY <2>1, CreateInserts DEF InsertFirst
    <3>4. \A k \in Clients : ClientInv(k)'
      BY <3>1, <3>2, <3>3, <2>sta
    <3> QED BY <3>4, <2>fin
  <2>2. CASE Reply(c)
    BY <2>2, <2>don, <2>kno, <2>loc, <2>fin DEF Reply
  <2>3. CASE Abort(c)
    BY <2>3, <2>don, <2>kno, <2>fin DEF Abort
  <2>4. CASE GetVersion(c)
    <3>1. PICK v : Start(c, "get", "find", NoDoc, 0, v)
      BY <2>4 DEF GetVersion
    <3>2. copy' = copy
      BY <2>4 DEF GetVersion
    <3>3. \A k \in Clients : ClientInv(k)'
      BY <3>1, <3>2, <2>non, <2>sta
    <3> QED BY <3>3, <2>fin
  <2>5. CASE GetFind(c)
    <3>1. /\ Done(c)
          /\ \A k \in Clients : k # c => copy'[k] = copy[k]
          /\ copy'[c] = copy[c] \/ \E d \in docs : copy'[c] = d
      BY <2>5, <2>loc DEF GetFind, Matching
    <3>2. \A d \in docs : Known(d, docs')
      BY <2>loc, <2>old, StoredKnown
    <3>3. Known(copy'[c], docs')
      BY <3>1, <3>2, <2>kno
    <3> QED BY <3>1, <3>3, <2>don, <2>fin
  <2>6. CASE Put(c)
    <3>1. copy' = copy /\ copy[c].cur > 0
      BY <2>6 DEF Put, PutComponent, PutWorkflow
    <3>2. created'
      BY <3>1, <2>loc, <2>cre, <2>kno DEF Known
    <3>3. PICK t \in {clock, clock + 1}, ws \in Workspaces,
                v \in {0, GetLatestVersion(docs)} :
            \/ Start(c, "put", "find", Edited(copy[c], t, ws), 0, v)
            \/ Start(c, "put", "begin", Edited(copy[c], t, copy[c].ws), 0, v)
      BY <2>6, ConstantsAssumption DEF Put, PutComponent, PutWorkflow, getCRefVersion
    <3>4. \A k \in Clients : ClientInv(k)'
      BY <3>1, <3>2, <3>3, <2>loc, <2>edi, <2>sta
    <3> QED BY <3>4, <2>fin
  <2>7. CASE PutWorkflowCheck(c)
    <3>1. copy' = copy /\ pc[c] = "find"
      BY <2>7 DEF PutWorkflowCheck
    <3>2. \/ Done(c)
          \/ Start(c, "put", "begin", body[c], 0, 0) /\ docs # {}
      BY <2>7 DEF PutWorkflowCheck, Matching
    <3>3. \A k \in Clients : ClientInv(k)'
      BY <3>1, <3>2, <2>loc, <2>cre, <2>kno, <2>don, <2>sta
    <3> QED BY <3>3, <2>fin
  <2>8. CASE PutCommit(c)
    <3>1. copy' = copy /\ pc[c] = "commit" /\ (Done(c) \/ Retry(c))
      BY <2>8 DEF PutCommit
    <3>2. \A k \in Clients : ClientInv(k)'
      BY <3>1, <2>kno, <2>don, <2>ret
    <3> QED BY <3>2, <2>fin
  <2>9. CASE Patch(c)
    <3>1. copy' = copy /\ copy[c].cur > 0
      BY <2>9 DEF Patch, PatchComponent, PatchWorkflow, SendPatch
    <3>2. created'
      BY <3>1, <2>loc, <2>cre, <2>kno DEF Known
    <3>3. PICK t \in {clock, clock + 1}, ws \in Workspaces :
            Start(c, "patch", "begin", Edited(copy[c], t, ws), copy[c].ts, 0)
      BY <2>9, <2>loc DEF Patch, PatchComponent, PatchWorkflow, SendPatch
    <3>4. \A k \in Clients : ClientInv(k)'
      BY <3>1, <3>2, <3>3, <2>edi, <2>sta
    <3> QED BY <3>4, <2>fin
  <2>10. CASE PatchCommit(c)
    <3>1. copy' = copy /\ pc[c] = "commit" /\ op[c] = "patch"
      BY <2>10 DEF PatchCommit
    <3>2. \/ Done(c) \/ Retry(c) \/ \E d \in docs' : Answer(c, d) /\ d.cur > 0
      <4>1. body[c].cur > 0
        BY <3>1, <2>loc DEF ClientInv
      <4>2. \A i \in Nat : [body[c] EXCEPT !.id = i].cur = body[c].cur
        BY <2>loc, StampType
      <4>3. \A d \in docs : d.id \in Nat
        BY <2>loc DEF Document
      <4> QED BY <2>10, <4>1, <4>2, <4>3 DEF PatchCommit
    <3>3. ASSUME NEW d \in docs', Answer(c, d), d.cur > 0
          PROVE  \A k \in Clients : ClientInv(k)'
      <4> TAKE k \in Clients
      <4>1. CASE k = c
        <5>1. /\ snap'[c] = {} /\ pc'[c] = "reply" /\ copy'[c] = copy[c]
              /\ body'[c] = d /\ op'[c] = "patch" /\ ver'[c] = ver[c]
          BY <3>1, <3>3, <2>loc DEF Answer, RequestTypeOK
        <5>2. Known(d, docs')
          BY <2>loc, <2>col, StoredKnown
        <5> QED BY <3>3, <4>1, <5>1, <5>2, <2>emp, <2>kno DEF ClientInv
      <4>2. CASE k # c
        BY <4>2, <3>1, <3>3, <2>oth, <2>loc DEF Answer, RequestTypeOK
      <4> QED BY <4>1, <4>2
    <3>4. \A k \in Clients : ClientInv(k)'
      BY <3>1, <3>2, <3>3, <2>kno, <2>don, <2>ret
    <3> QED BY <3>4, <2>fin
  <2>11. CASE Delete(c)
    <3>1. PICK v \in 1 .. MaxWrites :
            /\ v < copy[c].cur
            /\ \/ Start(c, "delete", "find", NoDoc, 0, v)
               \/ Start(c, "delete", "begin", NoDoc, 0, v)
      BY <2>11 DEF Delete, DeleteComponent, DeleteWorkflow, SendDelete
    <3>2. copy' = copy /\ created'
      BY <2>11, <2>cre DEF Delete, DeleteComponent, DeleteWorkflow, SendDelete
    <3>3. \E d \in docs' : v < d.cur
      <4>1. v \in Nat /\ \A d \in docs' : d.cur \in Nat
        BY <2>loc, ConstantsAssumption DEF Document
      <4>2. PICK d \in docs' : copy[c].cur <= d.cur
        BY <3>1, <4>1, <2>loc, <2>kno DEF Known
      <4> QED BY <3>1, <4>1, <4>2, <2>loc
    <3>4. \A k \in Clients : ClientInv(k)'
      BY <3>1, <3>2, <3>3, <2>non, <2>sta
    <3> QED BY <3>4, <2>fin
  <2>12. CASE DeleteWorkflowCheck(c)
    <3>1. copy' = copy /\ op[c] = "delete" /\ docs' = docs
      BY <2>12 DEF DeleteWorkflowCheck
    <3>2. \/ Done(c)
          \/ Start(c, "delete", "begin", NoDoc, 0, ver[c]) /\ docs # {}
      BY <2>12 DEF DeleteWorkflowCheck, Matching
    <3>3. \E d \in docs' : ver[c] < d.cur
      BY <3>1, <2>loc DEF ClientInv
    <3>4. \A k \in Clients : ClientInv(k)'
      BY <3>1, <3>2, <3>3, <2>loc, <2>cre, <2>kno, <2>non, <2>don, <2>sta
    <3> QED BY <3>4, <2>fin
  <2>13. CASE DeleteCommit(c)
    <3>1. copy' = copy /\ pc[c] = "commit" /\ (Done(c) \/ Retry(c))
      BY <2>13 DEF DeleteCommit
    <3>2. \A k \in Clients : ClientInv(k)'
      BY <3>1, <2>kno, <2>don, <2>ret
    <3> QED BY <3>2, <2>fin
  <2>14. CASE TxnBegin(c)
    <3>1. /\ docs' = docs /\ created' = created /\ copy' = copy
          /\ op' = op /\ body' = body /\ ver' = ver
      BY <2>14 DEF TxnBegin
    <3>2. /\ pc[c] = "begin" /\ snap'[c] = docs /\ pc'[c] = "commit"
          /\ \A k \in Clients : k # c => pc'[k] = pc[k] /\ snap'[k] = snap[k]
      BY <2>14, <2>loc DEF TxnBegin, RequestTypeOK
    <3>3. created
      BY <3>2, <2>loc DEF ClientInv
    <3>4. ClientInv(c)'
      BY <1>typ, <2>col, <2>loc, <3>1, <3>2, <3>3, ClientInvKept
    <3>5. \A k \in Clients : ClientInv(k)'
      BY <3>1, <3>2, <3>4, <2>oth
    <3> QED BY <3>5, <2>fin
  <2> QED BY <1>2, <2>1, <2>2, <2>3, <2>4, <2>5, <2>6, <2>7, <2>8, <2>9, <2>10,
             <2>11, <2>12, <2>13, <2>14 DEF ClientStep
<1> QED BY <1>1, <1>2 DEF Next

LEMMA HistoryIsInvariant ==
    ASSUME ~DeleteLatest
    PROVE  Spec => []HistoryInv
<1>1. HistoryInv /\ [Next]_vars => HistoryInv'
  BY HistoryStep
<1> QED BY HistoryInit, <1>1, PTL DEF Spec

(* As long as no client deletes a version it has seen no successor of, the  *)
(* versions of a uid are distinct, however PUT, PATCH and DELETE            *)
(* transactions overlap and although there is no unique index.              *)
THEOREM VersionsStayUnique ==
    ASSUME ~DeleteLatest
    PROVE  Spec => []VersionsUnique
<1>1. HistoryInv => VersionsUnique
  BY DEF HistoryInv, Lineage, VersionsUnique
<1> QED BY <1>1, HistoryIsInvariant, PTL

(* As long as no client deletes a version it has seen no successor of, the  *)
(* tag "latest" is on the newest version and on no other, however PUT,      *)
(* PATCH and DELETE transactions overlap.                                   *)
THEOREM OneNewestVersion ==
    ASSUME ~DeleteLatest
    PROVE  Spec => []LatestTagOnNewest
<1>1. HistoryInv => LatestTagOnNewest
  BY DEF HistoryInv, Lineage, LatestTagOnNewest
<1> QED BY <1>1, HistoryIsInvariant, PTL
=============================================================================
