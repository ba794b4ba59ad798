------------------------ MODULE VersionHistoryProofs ------------------------
(***************************************************************************)
(* What the steps of VersionedStore do to the history of a uid: theorems   *)
(* about its action properties, about the workspace of a workflow, and     *)
(* that it implements VersionHistory.                                      *)
(***************************************************************************)
EXTENDS VersionedStoreProofs

(***************************************************************************)
(* The shapes a step of client c may have, of the fourteen actions of      *)
(* ClientStep.                                                             *)
(***************************************************************************)

\* No other client's request is touched.
OthersStay(c) ==
    \A k \in Clients \ {c} :
        /\ copy'[k] = copy[k] /\ pc'[k] = pc[k] /\ op'[k] = op[k]
        /\ body'[k] = body[k] /\ old'[k] = old[k] /\ ver'[k] = ver[k]
        /\ snap'[k] = snap[k]

\* The request of c ends; asks for or deletes a version; is on its way, where a
\* PUT leaves "find" only with the workspace of a stored version.
Ends(c) == op'[c] = "none" /\ body'[c] = NoDoc /\ snap'[c] = {} /\ pc'[c] = "idle"
Asks(c) ==
    op'[c] \in {"get", "delete"} /\ body'[c] = NoDoc /\ snap'[c] = snap[c]
Waits(c) ==
    /\ op'[c] = op[c] /\ body'[c] = body[c]
    /\ op[c] = "patch" => old'[c] = old[c]
    /\ snap'[c] \in {{}, docs, snap[c]}
    /\ pc'[c] \in {"begin", "commit"}
    /\ op[c] = "put" /\ pc[c] = "find" => \E d \in docs : d.ws = body[c].ws

\* Nothing is stored; the client may have received a document.
Quiet(c) ==
    /\ UNCHANGED <<docs, created, clock, writes>>
    /\ Ends(c) \/ Asks(c) \/ Waits(c)
    /\ \/ copy'[c] = copy[c]
       \/ copy'[c] \in docs
       \/ pc[c] = "reply" /\ copy'[c] = body[c]

\* A POST stores a first version.
First(t, ws) == AsLatest(Edited(NoDoc, t, ws), writes + 1, 1)
Posts(c) ==
    /\ ~created /\ created' = TRUE
    /\ copy' = copy
    /\ \E t \in {clock, clock + 1}, ws \in Workspaces :
          /\ TouchMetadata(t)
          /\ docs' = docs \cup {First(t, ws)}
          /\ body'[c] = First(t, ws)
    /\ op'[c] = "post" /\ pc'[c] = "reply" /\ snap'[c] = snap[c]

\* A PUT or a PATCH is sent.
Sends(c) ==
    /\ UNCHANGED <<docs, created, copy>>
    /\ copy[c].cur > 0
    /\ snap'[c] = snap[c]
    /\ \E t \in {clock, clock + 1}, ws \in Workspaces :
          /\ TouchMetadata(t)
          /\ body'[c] = Edited(copy[c], t, ws)
          /\ \/ op'[c] = "put" /\ (pc'[c] = "find" \/ ws = copy[c].ws)
             \/ /\ op'[c] = "patch" /\ old'[c] = copy[c].ts
                /\ ws = copy[c].ws \/ (Kind = "workflow" /\ MovingPatch)

\* A PUT, a PATCH, a DELETE takes effect.
Pulled(c) == TaggedBefore(snap[c], GetLatestVersion(snap[c]) + 1)
Newer(c) == AsLatest(body[c], body[c].content, GetLatestVersion(snap[c]) + 1)
Puts(c) ==
    /\ UNCHANGED <<created, clock, writes, copy>>
    /\ pc[c] = "commit" /\ op[c] = "put"
    /\ Pulled(c) \subseteq docs
    /\ docs' = (docs \ Pulled(c)) \cup {Newer(c)}
                 \cup {[d EXCEPT !.tag = FALSE] : d \in Pulled(c)}
    /\ Ends(c)

Patches(c) ==
    /\ UNCHANGED <<created, clock, writes, copy>>
    /\ pc[c] = "commit" /\ op[c] = "patch"
    /\ body[c].cur = GetLatestVersion(snap[c])
    /\ \E d \in VersionIn(snap[c], body[c].cur) :
          /\ d \in docs /\ d.ts = old[c]
          /\ docs' = (docs \ {d}) \cup {[body[c] EXCEPT !.id = d.id]}
          /\ body'[c] = [body[c] EXCEPT !.id = d.id]
    /\ op'[c] = "patch" /\ pc'[c] = "reply" /\ old'[c] = old[c] /\ snap'[c] = {}

Deletes(c) ==
    /\ UNCHANGED <<created, clock, writes, copy>>
    /\ pc[c] = "commit" /\ op[c] = "delete"
    /\ \E d \in VersionIn(snap[c], ver[c]) : d \in docs /\ docs' = docs \ {d}
    /\ Ends(c)

Shape(c) ==
    Quiet(c) \/ Posts(c) \/ Sends(c) \/ Puts(c) \/ Patches(c) \/ Deletes(c)

(* Every step of a client has one of these shapes. *)
LEMMA StepShape ==
    ASSUME TypeOK, NEW c \in Clients, ClientStep(c)
    PROVE  OthersStay(c) /\ Shape(c)
<1> USE DEF TypeOK, RequestTypeOK, Shape, OthersStay
<1>don. Done(c) => /\ Ends(c)
                   /\ \A k \in Clients \ {c} :
                        /\ pc'[k] = pc[k] /\ op'[k] = op[k] /\ body'[k] = body[k]
                        /\ old'[k] = old[k] /\ ver'[k] = ver[k] /\ snap'[k] = snap[k]
  BY DEF Done, Ends
<1>sta. \A m, p, b, o, v : Start(c, m, p, b, o, v) =>
          /\ op'[c] = m /\ pc'[c] = p /\ body'[c] = b /\ old'[c] = o /\ snap' = snap
          /\ \A k \in Clients \ {c} :
               /\ pc'[k] = pc[k] /\ op'[k] = op[k] /\ body'[k] = body[k]
               /\ old'[k] = old[k] /\ ver'[k] = ver[k]
  BY DEF Start
<1>ret. Retry(c) => /\ docs' = docs /\ op' = op /\ body' = body /\ old' = old /\ ver' = ver
                    /\ pc'[c] = "begin" /\ snap'[c] = {}
                    /\ \A k \in Clients \ {c} : pc'[k] = pc[k] /\ snap'[k] = snap[k]
  BY DEF Retry
<1>ans. \A d : Answer(c, d) =>
          /\ body'[c] = d /\ pc'[c] = "reply" /\ snap'[c] = {}
          /\ op' = op /\ old' = old /\ ver' = ver
          /\ \A k \in Clients \ {c} :
               pc'[k] = pc[k] /\ body'[k] = body[k] /\ snap'[k] = snap[k]
  BY DEF Answer
<1>1. CASE Create(c)
  <2>1. PICK ws \in Workspaces : InsertFirst(c, ws)
    BY <1>1, CreateInserts
  <2>2. PICK t \in {clock, clock + 1} :
          /\ TouchMetadata(t)
          /\ docs' = docs \cup {First(t, ws)}
          /\ Start(c, "post", "reply", First(t, ws), 0, 0)
    BY <2>1 DEF InsertFirst, First
  <2>3. ~created /\ created' = TRUE /\ copy' = copy
    BY <2>1 DEF InsertFirst
  <2>4. Posts(c)
    BY <2>2, <2>3, <1>sta DEF Posts
  <2> QED BY <2>2, <2>3, <2>4, <1>sta
<1>2. CASE Reply(c)
  BY <1>2, <1>don DEF Reply, Quiet
<1>3. CASE Abort(c)
  BY <1>3, <1>don DEF Abort, Quiet
<1>4. CASE GetVersion(c)
  BY <1>4, <1>sta DEF GetVersion, Quiet, Asks
<1>5. CASE GetFind(c)
  <2>1. \A k \in Clients \ {c} : copy'[k] = copy[k]
    BY <1>5 DEF GetFind
  <2>2. copy'[c] = copy[c] \/ copy'[c] \in docs
    BY <1>5 DEF GetFind, Matching
  <2> QED BY <1>5, <1>don, <2>1, <2>2 DEF GetFind, Quiet
<1>6. CASE Put(c)
  <2>1. /\ UNCHANGED <<docs, created, copy>> /\ copy[c].cur > 0
        /\ \E t \in {clock, clock + 1}, ws \in Workspaces :
             /\ TouchMetadata(t)
             /\ \E p, o, v :
                  /\ Start(c, "put", p, Edited(copy[c], t, ws), o, v)
                  /\ p = "find" \/ ws = copy[c].ws
    <3>1. copy[c].ws \in Workspaces
      BY DEF Document
    <3> QED BY <1>6, <3>1 DEF Put, PutComponent, PutWorkflow
  <2>2. Sends(c)
    BY <2>1, <1>sta DEF Sends
  <2> QED BY <2>1, <2>2, <1>sta
<1>7. CASE PutWorkflowCheck(c)
  BY <1>7, <1>don, <1>sta DEF PutWorkflowCheck, Matching, Quiet, Waits
<1>8. CASE PutCommit(c)
  <2>1. CASE Retry(c)
    BY <1>8, <2>1, <1>ret DEF PutCommit, Quiet, Waits
  <2>2. CASE ~Retry(c)
    BY <1>8, <2>2, <1>don DEF PutCommit, Puts, Pulled, Newer
  <2> QED BY <2>1, <2>2
<1>9. CASE Patch(c)
  <2>1. /\ UNCHANGED <<docs, created, copy>> /\ copy[c].cur > 0
        /\ \E t \in {clock, clock + 1}, ws \in Workspaces :
             /\ TouchMetadata(t)
             /\ Start(c, "patch", "begin", Edited(copy[c], t, ws), copy[c].ts, 0)
             /\ ws = copy[c].ws \/ (Kind = "workflow" /\ MovingPatch)
    <3>1. copy[c].ws \in Workspaces
      BY DEF Document
    <3> QED BY <1>9, <3>1 DEF Patch, PatchComponent, PatchWorkflow, SendPatch
  <2>2. Sends(c)
    BY <2>1, <1>sta DEF Sends
  <2> QED BY <2>1, <2>2, <1>sta
<1>10. CASE PatchCommit(c)
  <2>0. UNCHANGED <<created, clock, writes, copy>> /\ pc[c] = "commit" /\ op[c] = "patch"
    BY <1>10 DEF PatchCommit
  <2>1. CASE Retry(c)
    BY <2>0, <2>1, <1>ret DEF Quiet, Waits
  <2>2. CASE Done(c) /\ UNCHANGED docs
    BY <2>0, <2>2, <1>don DEF Quiet
  <2>3. CASE ~Retry(c) /\ ~(Done(c) /\ UNCHANGED docs)
    <3>1. PICK d \in VersionIn(snap[c], body[c].cur) :
            /\ body[c].cur = GetLatestVersion(snap[c])
            /\ d \in docs /\ d.ts = old[c]
            /\ docs' = (docs \ {d}) \cup {[body[c] EXCEPT !.id = d.id]}
            /\ Answer(c, [body[c] EXCEPT !.id = d.id])
      BY <1>10, <2>3 DEF PatchCommit
    <3> QED BY <2>0, <3>1, <1>ans DEF Patches
  <2> QED BY <2>1, <2>2, <2>3
<1>11. CASE Delete(c)
  BY <1>11, <1>sta DEF Delete, DeleteComponent, DeleteWorkflow, SendDelete, Quiet, Asks
<1>12. CASE DeleteWorkflowCheck(c)
  BY <1>12, <1>don, <1>sta DEF DeleteWorkflowCheck, Quiet, Asks
<1>13. CASE DeleteCommit(c)
  <2>1. CASE Retry(c)
    BY <1>13, <2>1, <1>ret DEF DeleteCommit, Quiet, Waits
  <2>2. CASE Done(c) /\ UNCHANGED docs
    BY <1>13, <2>2, <1>don DEF DeleteCommit, Quiet
  <2>3. CASE ~Retry(c) /\ ~(Done(c) /\ UNCHANGED docs)
    BY <1>13, <2>3, <1>don DEF DeleteCommit, Deletes
  <2> QED BY <2>1, <2>2, <2>3
<1>14. CASE TxnBegin(c)
  BY <1>14 DEF TxnBegin, Quiet, Waits
<1> QED BY <1>1, <1>2, <1>3, <1>4, <1>5, <1>6, <1>7, <1>8, <1>9, <1>10, <1>11,
           <1>12, <1>13, <1>14 DEF ClientStep

-----------------------------------------------------------------------------
(***************************************************************************)
(* Documents keep apart.  The _id of a document is the number of the write *)
(* that inserted it; a PUT that is on its way has a number of its own,     *)
(* which no document and no other PUT has.                                 *)
(***************************************************************************)
IdInv ==
    /\ writes <= MaxWrites
    /\ \A d, e \in docs : d.id = e.id => d = e
    /\ \A d \in docs : d.id <= writes
    /\ \A c \in Clients :
         /\ op[c] \in {"put", "patch"} => body[c].content \in 1 .. writes
         /\ op[c] = "put" => \A d \in docs : d.id # body[c].content
         /\ op[c] = "put" => \A k \in Clients \ {c} :
               op[k] = "put" => body[k].content # body[c].content

(***************************************************************************)
(* One write in a millisecond.  Then the timestamp of a document says      *)
(* which write produced it, and the timestamp a PATCH compares says which  *)
(* contents it started from.                                               *)
(***************************************************************************)
Stamped(d) == d.ts = d.content
StampInv ==
    /\ clock = writes
    /\ \A d \in docs : Stamped(d)
    /\ \A c \in Clients :
         /\ \A d \in snap[c] : Stamped(d)
         /\ Stamped(copy[c])
         /\ Stamped(body[c])
         /\ op[c] = "patch" => body[c].base = old[c]

(***************************************************************************)
(* One workspace.  What is stored, seen in a snapshot or held by a client  *)
(* is in it, and so is what a PATCH, or a PUT past its look-up, is about   *)
(* to store.  Before the POST there is nothing of all this.                *)
(***************************************************************************)
In(d, w) == d.cur > 0 => d.ws = w
PlacedIn(w) ==
    /\ \A d \in docs : d.ws = w
    /\ \A c \in Clients :
         /\ \A d \in snap[c] : d.ws = w
         /\ In(copy[c], w)
         /\ pc[c] = "reply" => In(body[c], w)
         /\ op[c] = "patch" => body[c].ws = w
         /\ op[c] = "put" /\ pc[c] # "find" => body[c].ws = w

PlaceInv ==
    /\ \E w \in Workspaces : PlacedIn(w)
    /\ ~created =>
         /\ docs = {}
         /\ \A c \in Clients :
               /\ snap[c] = {} /\ copy[c].cur = 0 /\ body[c].cur = 0
               /\ op[c] \notin {"put", "patch"}

-----------------------------------------------------------------------------
(* The documents that the steps make *)

(* The fields of what a client sends. *)
LEMMA EditedFields ==
    ASSUME TypeOK, NEW d \in Document, NEW t \in Nat, NEW ws \in Workspaces
    PROVE  \E n \in Document :
             /\ n = Edited(d, t, ws)
             /\ n.id = d.id /\ n.cur = d.cur /\ n.ts = t /\ n.content = writes + 1
             /\ n.base = d.content /\ n.ws = ws
<1>1. Edited(d, t, ws) \in Document
  BY EditedType
<1> QED BY <1>1 DEF Edited, Document

(* The fields of a document stored under another's _id. *)
LEMMA SameIdFields ==
    ASSUME NEW d \in Document, NEW i \in Nat
    PROVE  \E n \in Document :
             /\ n = [d EXCEPT !.id = i]
             /\ n.id = i /\ n.cur = d.cur /\ n.tag = d.tag /\ n.ts = d.ts
             /\ n.content = d.content /\ n.base = d.base /\ n.ws = d.ws
<1>1. [d EXCEPT !.id = i] \in Document
  BY StampType
<1> QED BY <1>1 DEF Document

(* The fields of a document whose tag is pulled. *)
LEMMA UntagFields ==
    ASSUME NEW d \in Document
    PROVE  \E n \in Document :
             /\ n = [d EXCEPT !.tag = FALSE]
             /\ n.id = d.id /\ n.cur = d.cur /\ n.tag = FALSE /\ n.ts = d.ts
             /\ n.content = d.content /\ n.base = d.base /\ n.ws = d.ws
<1>1. [d EXCEPT !.tag = FALSE] \in Document
  BY UntagType
<1> QED BY <1>1 DEF Document

(* The fields of a first version. *)
LEMMA FirstFields ==
    ASSUME TypeOK, NEW t \in Nat, NEW ws \in Workspaces
    PROVE  \E n \in Document :
             /\ n = First(t, ws)
             /\ n.id = writes + 1 /\ n.cur = 1 /\ n.ts = t /\ n.content = writes + 1
             /\ n.ws = ws
<1>1. writes + 1 \in Nat /\ 1 \in Nat
  BY DEF TypeOK
<1>2. PICK e \in Document :
        e = Edited(NoDoc, t, ws) /\ e.ts = t /\ e.content = writes + 1 /\ e.ws = ws
  BY NoDocType, EditedFields
<1>3. First(t, ws) = AsLatest(e, writes + 1, 1)
  BY <1>2 DEF First
<1>4. PICK n \in Document :
        /\ n = AsLatest(e, writes + 1, 1) /\ n.id = writes + 1 /\ n.cur = 1
        /\ n.ts = e.ts /\ n.content = e.content /\ n.ws = e.ws
  <2>1. AsLatest(e, writes + 1, 1) \in Document
    BY <1>1, StampType, Zenon
  <2> QED BY <2>1 DEF AsLatest, Document
<1> QED BY <1>2, <1>3, <1>4

(* The fields of the next version. *)
LEMMA NewerFields ==
    ASSUME TypeInv, NEW c \in Clients
    PROVE  \E n \in Document :
             /\ n = Newer(c)
             /\ n.id = body[c].content /\ n.cur = GetLatestVersion(snap[c]) + 1
             /\ n.ts = body[c].ts /\ n.content = body[c].content
             /\ n.base = body[c].base /\ n.ws = body[c].ws
<1>1. /\ body[c] \in Document /\ body[c].content \in Nat
      /\ snap[c] \in SUBSET Document /\ Bounded(snap[c])
  BY DEF TypeInv, TypeOK, RequestTypeOK, Document
<1>2. GetLatestVersion(snap[c]) + 1 \in Nat
  BY <1>1, LatestIsGreatest
<1> DEFINE b == body[c]
           v == GetLatestVersion(snap[c]) + 1
<1>3. b \in Document /\ b.content \in Nat /\ v \in Nat
  BY <1>1, <1>2
<1>4. Newer(c) = AsLatest(b, b.content, v)
  BY DEF Newer
<1> HIDE DEF b, v
<1>5. PICK n \in Document :
        /\ n = AsLatest(b, b.content, v) /\ n.id = b.content /\ n.cur = v /\ n.ts = b.ts
        /\ n.content = b.content /\ n.base = b.base /\ n.ws = b.ws
  <2>1. AsLatest(b, b.content, v) \in Document
    BY <1>3, StampType, Zenon
  <2> QED BY <1>3, <2>1 DEF AsLatest, Document
<1> QED BY <1>4, <1>5 DEF b, v

(* After a PUT every document is the new one, or an old one but for its tag. *)
LEMMA PutsKeepsFields ==
    ASSUME TypeInv, NEW c \in Clients, Puts(c), NEW e \in docs'
    PROVE  \/ e = Newer(c)
           \/ \E d \in docs :
                /\ e.id = d.id /\ e.cur = d.cur /\ e.ts = d.ts
                /\ e.content = d.content /\ e.ws = d.ws
                /\ e = d \/ (d \in Pulled(c) /\ e = [d EXCEPT !.tag = FALSE])
<1>1. docs \in SUBSET Document /\ Pulled(c) \subseteq docs
  BY DEF TypeInv, TypeOK, Puts
<1>2. e = Newer(c) \/ e \in docs \/ \E d \in Pulled(c) : e = [d EXCEPT !.tag = FALSE]
  BY DEF Puts
<1>3. CASE \E d \in Pulled(c) : e = [d EXCEPT !.tag = FALSE]
  <2>1. PICK d \in Pulled(c) : e = [d EXCEPT !.tag = FALSE]
    BY <1>3
  <2>2. d \in docs /\ d \in Document
    BY <1>1
  <2>3. /\ e.id = d.id /\ e.cur = d.cur /\ e.ts = d.ts
        /\ e.content = d.content /\ e.ws = d.ws
    BY <2>1, <2>2, UntagFields
  <2> QED BY <2>1, <2>2, <2>3
<1> QED BY <1>2, <1>3

-----------------------------------------------------------------------------
(* Ids *)

(* The first states satisfy the invariant. *)
LEMMA IdInit == Init => IdInv
  BY ConstantsAssumption DEF Init, IdInv

(* Every step keeps the invariant. *)
LEMMA IdStep == TypeInv /\ IdInv /\ [Next]_vars => IdInv'
<1> SUFFICES ASSUME TypeInv, IdInv, [Next]_vars PROVE IdInv'
  OBVIOUS
<1>typ. /\ TypeOK /\ docs \in SUBSET Document /\ writes \in Nat /\ clock \in Nat
        /\ MaxWrites \in Nat
        /\ \A c \in Clients : copy[c] \in Document /\ body[c] \in Document
        /\ \A d \in Document : d.id \in Nat /\ d.content \in Nat
  BY ConstantsAssumption DEF TypeInv, TypeOK, RequestTypeOK, Document
<1>1. CASE UNCHANGED vars
  BY <1>1 DEF vars, IdInv
<1>2. ASSUME NEW c \in Clients, ClientStep(c) PROVE IdInv'
  <2>oth. OthersStay(c) /\ Shape(c)
    BY <1>2, <1>typ, StepShape
  <2>1. CASE Quiet(c)
    <3>1. op'[c] \in {"put", "patch"} => op'[c] = op[c] /\ body'[c] = body[c]
      BY <2>1 DEF Quiet, Ends, Asks, Waits
    <3> QED BY <2>1, <2>oth, <3>1 DEF Quiet, IdInv, OthersStay
  <2>2. CASE Posts(c)
    <3>1. PICK t \in {clock, clock + 1}, ws \in Workspaces :
            TouchMetadata(t) /\ docs' = docs \cup {First(t, ws)}
      BY <2>2 DEF Posts
    <3>2. First(t, ws).id = writes + 1
      BY <1>typ, <3>1, FirstFields
    <3>3. writes' = writes + 1 /\ writes < MaxWrites /\ op'[c] = "post"
      BY <2>2, <3>1 DEF TouchMetadata, Posts
    <3> QED BY <1>typ, <2>oth, <3>1, <3>2, <3>3 DEF IdInv, OthersStay
  <2>3. CASE Sends(c)
    <3>1. PICK t \in {clock, clock + 1}, ws \in Workspaces :
            TouchMetadata(t) /\ body'[c] = Edited(copy[c], t, ws)
      BY <2>3 DEF Sends
    <3>2. body'[c].content = writes + 1
      <4>1. t \in Nat /\ copy[c] \in Document
        BY <1>typ
      <4>2. TypeOK
        BY <1>typ
      <4>3. PICK n \in Document : n = Edited(copy[c], t, ws) /\ n.content = writes + 1
        BY <4>1, <4>2, EditedFields
      <4> QED BY <3>1, <4>3
    <3>3. writes' = writes + 1 /\ writes < MaxWrites /\ docs' = docs
      BY <2>3, <3>1 DEF TouchMetadata, Sends
    <3> QED BY <1>typ, <2>oth, <3>2, <3>3 DEF IdInv, OthersStay
  <2>4. CASE Puts(c)
    <3>1. /\ Newer(c).id = body[c].content /\ body[c].content \in 1 .. writes
          /\ \A d \in docs : d.id # body[c].content
      BY <2>4, NewerFields DEF Puts, IdInv
    <3>2. writes' = writes /\ op'[c] = "none" /\ op[c] = "put"
      BY <2>4 DEF Puts, Ends
    <3>3. \A e \in docs' :
            \/ e = Newer(c)
            \/ \E d \in docs : e.id = d.id
                  /\ (e = d \/ (d \in Pulled(c) /\ e = [d EXCEPT !.tag = FALSE]))
      BY <2>4, PutsKeepsFields
    <3>4. \A d \in Pulled(c) : d \in docs' => d = Newer(c) \/ d = [d EXCEPT !.tag = FALSE]
      <4> SUFFICES ASSUME NEW d \in Pulled(c), d \in docs', d # Newer(c)
                   PROVE  d = [d EXCEPT !.tag = FALSE]
        OBVIOUS
      <4>1. d \in docs /\ \E x \in Pulled(c) : d = [x EXCEPT !.tag = FALSE]
        BY <2>4 DEF Puts
      <4>2. PICK x \in Pulled(c) : d = [x EXCEPT !.tag = FALSE]
        BY <4>1
      <4>3. x \in docs /\ x \in Document
        BY <1>typ, <2>4 DEF Puts
      <4>4. d.id = x.id
        BY <4>2, <4>3, UntagFields
      <4> QED BY <4>1, <4>2, <4>3, <4>4 DEF IdInv
    <3>5. \A e, f \in docs' : e.id = f.id => e = f
      <4> SUFFICES ASSUME NEW e \in docs', NEW f \in docs', e.id = f.id PROVE e = f
        OBVIOUS
      <4>1. CASE e = Newer(c) \/ f = Newer(c)
        BY <4>1, <3>1, <3>3
      <4>2. CASE e # Newer(c) /\ f # Newer(c)
        <5>1. PICK d \in docs : e.id = d.id
                /\ (e = d \/ (d \in Pulled(c) /\ e = [d EXCEPT !.tag = FALSE]))
          BY <3>3, <4>2
        <5>2. PICK g \in docs : f.id = g.id
                /\ (f = g \/ (g \in Pulled(c) /\ f = [g EXCEPT !.tag = FALSE]))
          BY <3>3, <4>2
        <5>3. d = g
          BY <5>1, <5>2 DEF IdInv
        <5> QED BY <5>1, <5>2, <5>3, <4>2, <3>4
      <4> QED BY <4>1, <4>2
    <3>6. \A e \in docs' : e.id \in 1 .. writes \/ \E d \in docs : e.id = d.id
      BY <3>1, <3>3
    <3>7. \A k \in Clients \ {c} : op[k] = "put" => \A e \in docs' : e.id # body[k].content
      BY <3>1, <3>2, <3>3 DEF IdInv
    <3> QED BY <1>typ, <2>oth, <3>2, <3>5, <3>6, <3>7 DEF IdInv, OthersStay
  <2>5. CASE Patches(c)
    <3>1. PICK d \in docs : /\ docs' = (docs \ {d}) \cup {[body[c] EXCEPT !.id = d.id]}
                            /\ body'[c] = [body[c] EXCEPT !.id = d.id]
      BY <2>5 DEF Patches
    <3>2. body[c] \in Document /\ d.id \in Nat
      BY <1>typ
    <3>3. PICK n \in Document :
            n = [body[c] EXCEPT !.id = d.id] /\ n.id = d.id /\ n.content = body[c].content
      BY <3>2, SameIdFields
    <3>4. writes' = writes /\ op'[c] = "patch" /\ op[c] = "patch"
      BY <2>5 DEF Patches
    <3>5. docs' = (docs \ {d}) \cup {n} /\ body'[c] = n
      BY <3>1, <3>3
    <3>6. \A e, f \in docs' : e.id = f.id => e = f
      <4>1. \A e \in docs' : e = n \/ (e \in docs /\ e # d)
        BY <3>5
      <4>2. \A e \in docs : e # d => e.id # n.id
        BY <3>3 DEF IdInv
      <4> QED BY <4>1, <4>2 DEF IdInv
    <3>7. \A e \in docs' : \E f \in docs : e.id = f.id
      BY <3>3, <3>5
    <3>8. \A k \in Clients : op'[k] = op[k] /\ body'[k].content = body[k].content
      BY <2>oth, <3>3, <3>4, <3>5 DEF OthersStay
    <3> QED BY <3>4, <3>6, <3>7, <3>8 DEF IdInv
  <2>6. CASE Deletes(c)
    <3>1. docs' \subseteq docs /\ writes' = writes /\ op'[c] = "none"
      BY <2>6 DEF Deletes, Ends
    <3> QED BY <2>oth, <3>1 DEF IdInv, OthersStay
  <2> QED BY <2>oth, <2>1, <2>2, <2>3, <2>4, <2>5, <2>6 DEF Shape
<1> QED BY <1>1, <1>2 DEF Next

-----------------------------------------------------------------------------
(* Timestamps *)

(* The first states satisfy the invariant. *)
LEMMA StampInit == Init => StampInv
  BY DEF Init, StampInv, Stamped, NoDoc

(* Every step keeps the invariant, while no two writes share a millisecond. *)
LEMMA StampStep ==
    ASSUME ~SameMillisecond
    PROVE  TypeInv /\ StampInv /\ [Next]_vars => StampInv'
<1> SUFFICES ASSUME TypeInv, StampInv, [Next]_vars PROVE StampInv'
  OBVIOUS
<1>typ. /\ TypeOK /\ docs \in SUBSET Document /\ writes \in Nat /\ clock \in Nat
        /\ \A c \in Clients : copy[c] \in Document /\ body[c] \in Document
        /\ \A d \in Document : d.id \in Nat
  BY DEF TypeInv, TypeOK, RequestTypeOK, Document
<1>non. Stamped(NoDoc)
  BY DEF Stamped, NoDoc
<1>tim. \A t : TouchMetadata(t) =>
           t = writes + 1 /\ clock' = writes + 1 /\ writes' = writes + 1
  BY <1>typ DEF TouchMetadata, StampInv
<1>1. CASE UNCHANGED vars
  BY <1>1 DEF vars, StampInv
<1>2. ASSUME NEW c \in Clients, ClientStep(c) PROVE StampInv'
  <2>oth. OthersStay(c) /\ Shape(c)
    BY <1>2, <1>typ, StepShape
  <2>suf. ASSUME clock' = writes', \A d \in docs' : Stamped(d),
                 \A d \in snap'[c] : Stamped(d), Stamped(copy'[c]), Stamped(body'[c]),
                 op'[c] = "patch" => body'[c].base = old'[c]
          PROVE  StampInv'
    <3>1. ASSUME NEW k \in Clients
          PROVE  /\ \A d \in snap'[k] : Stamped(d)
                 /\ Stamped(copy'[k]) /\ Stamped(body'[k])
                 /\ op'[k] = "patch" => body'[k].base = old'[k]
      <4>1. CASE k = c
        BY <2>suf, <4>1
      <4>2. CASE k # c
        BY <2>oth, <4>2 DEF OthersStay, StampInv
      <4> QED BY <4>1, <4>2
    <3> QED BY <2>suf, <3>1 DEF StampInv, Stamped
  <2>end. Ends(c) => /\ \A d \in snap'[c] : Stamped(d)
                     /\ Stamped(body'[c]) /\ op'[c] # "patch"
    BY <1>non DEF Ends
  <2>1. CASE Quiet(c)
    <3>1. /\ clock' = writes' /\ docs' = docs /\ Stamped(copy'[c])
      BY <2>1 DEF Quiet, StampInv
    <3>2. CASE Ends(c)
      BY <3>1, <3>2, <2>end, <2>suf DEF StampInv
    <3>3. CASE Asks(c)
      BY <3>1, <3>3, <1>non, <2>suf DEF Asks, StampInv
    <3>4. CASE Waits(c)
      BY <3>1, <3>4, <2>suf DEF Waits, StampInv
    <3> QED BY <2>1, <3>2, <3>3, <3>4 DEF Quiet
  <2>2. CASE Posts(c)
    <3>1. PICK t \in {clock, clock + 1}, ws \in Workspaces :
            /\ TouchMetadata(t) /\ docs' = docs \cup {First(t, ws)}
            /\ body'[c] = First(t, ws)
      BY <2>2 DEF Posts
    <3>2. Stamped(First(t, ws))
      <4>1. t = writes + 1 /\ t \in Nat
        BY <1>typ, <1>tim, <3>1
      <4>2. PICK n \in Document : n = First(t, ws) /\ n.ts = t /\ n.content = writes + 1
        BY <1>typ, <4>1, FirstFields
      <4> QED BY <4>1, <4>2 DEF Stamped
    <3>3. /\ clock' = writes' /\ op'[c] = "post"
          /\ snap'[c] = snap[c] /\ copy'[c] = copy[c]
      BY <2>2, <3>1, <1>tim DEF Posts
    <3> QED BY <3>1, <3>2, <3>3, <2>suf DEF StampInv
  <2>3. CASE Sends(c)
    <3>1. PICK t \in {clock, clock + 1}, ws \in Workspaces :
            TouchMetadata(t) /\ body'[c] = Edited(copy[c], t, ws)
      BY <2>3 DEF Sends
    <3>2. Stamped(body'[c]) /\ body'[c].base = copy[c].content
      <4>1. t = writes + 1 /\ t \in Nat /\ copy[c] \in Document
        BY <1>typ, <1>tim, <3>1
      <4>2. PICK n \in Document :
              /\ n = Edited(copy[c], t, ws) /\ n.ts = t /\ n.content = writes + 1
              /\ n.base = copy[c].content
        BY <1>typ, <4>1, EditedFields
      <4> QED BY <3>1, <4>1, <4>2 DEF Stamped
    <3>3. /\ clock' = writes' /\ docs' = docs /\ snap'[c] = snap[c] /\ copy'[c] = copy[c]
          /\ op'[c] = "patch" => old'[c] = copy[c].ts
      BY <2>3, <3>1, <1>tim DEF Sends
    <3>4. Stamped(copy[c])
      BY DEF StampInv
    <3> QED BY <3>2, <3>3, <3>4, <2>suf DEF StampInv, Stamped
  <2>4. CASE Puts(c)
    <3>1. PICK n \in Document :
            n = Newer(c) /\ n.ts = body[c].ts /\ n.content = body[c].content
      BY NewerFields
    <3>2. Stamped(Newer(c))
      BY <3>1 DEF StampInv, Stamped
    <3>3. \A e \in docs' : Stamped(e)
      <4> SUFFICES ASSUME NEW e \in docs', e # Newer(c) PROVE Stamped(e)
        BY <3>2
      <4>1. PICK d \in docs : e.ts = d.ts /\ e.content = d.content
        BY <2>4, PutsKeepsFields
      <4> QED BY <4>1 DEF StampInv, Stamped
    <3>4. clock' = writes' /\ copy' = copy /\ Ends(c)
      BY <2>4 DEF Puts, StampInv
    <3> QED BY <3>3, <3>4, <2>end, <2>suf DEF StampInv
  <2>5. CASE Patches(c)
    <3>1. PICK d \in docs : /\ docs' = (docs \ {d}) \cup {[body[c] EXCEPT !.id = d.id]}
                            /\ body'[c] = [body[c] EXCEPT !.id = d.id]
      BY <2>5 DEF Patches
    <3>2. body[c] \in Document /\ d.id \in Nat
      BY <1>typ
    <3>3. PICK n \in Document :
            /\ n = [body[c] EXCEPT !.id = d.id] /\ n.ts = body[c].ts
            /\ n.content = body[c].content /\ n.base = body[c].base
      BY <3>2, SameIdFields
    <3>4. /\ clock' = writes' /\ op[c] = "patch" /\ copy' = copy /\ snap'[c] = {}
          /\ old'[c] = old[c]
      BY <2>5 DEF Patches, StampInv
    <3>5. Stamped(n) /\ n.base = old[c]
      BY <3>3, <3>4 DEF StampInv, Stamped
    <3> QED BY <3>1, <3>3, <3>4, <3>5, <2>suf DEF StampInv
  <2>6. CASE Deletes(c)
    BY <2>6, <2>end, <2>suf DEF Deletes, StampInv
  <2> QED BY <2>oth, <2>1, <2>2, <2>3, <2>4, <2>5, <2>6 DEF Shape
<1> QED BY <1>1, <1>2 DEF Next

-----------------------------------------------------------------------------
(* Workspaces *)

(* The first states satisfy the invariant. *)
LEMMA PlaceInit == Init => PlaceInv
<1> SUFFICES ASSUME Init PROVE PlaceInv
  OBVIOUS
<1>1. PICK w \in Workspaces : TRUE
  BY ConstantsAssumption
<1>2. NoDoc.cur = 0
  BY DEF NoDoc
<1>3. PlacedIn(w)
  BY <1>2 DEF Init, PlacedIn, In
<1> QED BY <1>1, <1>2, <1>3 DEF Init, PlaceInv

(* The part of the invariant about one workspace, from what a step does to  *)
(* the collection and to the request of one client.                         *)
LEMMA PlacedStep ==
    ASSUME NEW c \in Clients, OthersStay(c), NEW w, PlacedIn(w),
           \A d \in docs' : d.ws = w, \A d \in snap'[c] : d.ws = w,
           In(copy'[c], w), pc'[c] = "reply" => In(body'[c], w),
           op'[c] = "patch" => body'[c].ws = w,
           op'[c] = "put" /\ pc'[c] # "find" => body'[c].ws = w
    PROVE  PlacedIn(w)'
<1>1. ASSUME NEW k \in Clients
      PROVE  /\ \A d \in snap'[k] : d.ws = w
             /\ In(copy'[k], w) /\ (pc'[k] = "reply" => In(body'[k], w))
             /\ op'[k] = "patch" => body'[k].ws = w
             /\ op'[k] = "put" /\ pc'[k] # "find" => body'[k].ws = w
  <2>1. CASE k = c
    BY <2>1
  <2>2. CASE k # c
    BY <2>2 DEF OthersStay, PlacedIn
  <2> QED BY <2>1, <2>2
<1> QED BY <1>1 DEF PlacedIn, In

(* Every step keeps the invariant, if no PATCH names another workspace. *)
LEMMA PlaceStep ==
    ASSUME Kind = "workflow" => ~MovingPatch
    PROVE  TypeInv /\ PlaceInv /\ [Next]_vars => PlaceInv'
<1> SUFFICES ASSUME TypeInv, PlaceInv, [Next]_vars PROVE PlaceInv'
  OBVIOUS
<1>typ. /\ TypeOK /\ docs \in SUBSET Document /\ writes \in Nat /\ clock \in Nat
        /\ \A c \in Clients : copy[c] \in Document /\ body[c] \in Document
        /\ \A d \in Document : d.id \in Nat /\ d.cur \in Nat
  BY DEF TypeInv, TypeOK, RequestTypeOK, Document
<1>non. NoDoc.cur = 0
  BY DEF NoDoc
<1>1. CASE UNCHANGED vars
  BY <1>1 DEF vars, PlaceInv, PlacedIn, In
<1>2. ASSUME NEW c \in Clients, ClientStep(c) PROVE PlaceInv'
  <2>oth. OthersStay(c) /\ Shape(c)
    BY <1>2, <1>typ, StepShape
  <2>w. PICK w \in Workspaces : PlacedIn(w)
    BY DEF PlaceInv
  <2>1. CASE Quiet(c)
    <3>1. docs' = docs /\ created' = created /\ In(copy'[c], w)
      BY <2>1, <2>w DEF Quiet, PlacedIn, In
    <3>2. PlacedIn(w)'
      <4>1. CASE Ends(c)
        BY <2>oth, <2>w, <3>1, <4>1, PlacedStep DEF Ends, PlacedIn
      <4>2. CASE Asks(c)
        <5>1. In(body'[c], w)
          BY <4>2, <1>non DEF Asks, In
        <5> QED BY <2>oth, <2>w, <3>1, <4>2, <5>1, PlacedStep DEF Asks, PlacedIn
      <4>3. CASE Waits(c)
        <5>1. op[c] = "put" => body[c].ws = w
          BY <4>3, <2>w DEF Waits, PlacedIn
        <5>2. \A d \in snap'[c] : d.ws = w
          BY <4>3, <2>w DEF Waits, PlacedIn
        <5>3. op[c] = "patch" => body[c].ws = w
          BY <2>w DEF PlacedIn
        <5>4. /\ op'[c] = op[c] /\ body'[c] = body[c] /\ pc'[c] # "reply"
          BY <4>3 DEF Waits
        <5>5. \A d \in docs' : d.ws = w
          BY <2>w, <3>1 DEF PlacedIn
        <5> QED BY <2>oth, <2>w, <3>1, <5>1, <5>2, <5>3, <5>4, <5>5, PlacedStep
      <4> QED BY <2>1, <4>1, <4>2, <4>3 DEF Quiet
    <3>3. ASSUME ~created, NEW k \in Clients
          PROVE  /\ snap'[k] = {} /\ copy'[k].cur = 0 /\ body'[k].cur = 0
                 /\ op'[k] \notin {"put", "patch"}
      <4>1. CASE k # c
        BY <2>oth, <3>3, <4>1 DEF OthersStay, PlaceInv
      <4>2. CASE k = c
        <5>1. copy'[c].cur = 0
          BY <2>1, <3>3 DEF Quiet, PlaceInv
        <5>2. /\ snap'[c] = {} /\ body'[c].cur = 0 /\ op'[c] \notin {"put", "patch"}
          BY <2>1, <3>3, <1>non DEF Quiet, Ends, Asks, Waits, PlaceInv
        <5> QED BY <4>2, <5>1, <5>2
      <4> QED BY <4>1, <4>2
    <3> QED BY <3>1, <3>2, <3>3 DEF PlaceInv
  <2>2. CASE Posts(c)
    <3>1. PICK t \in {clock, clock + 1}, ws \in Workspaces :
            /\ TouchMetadata(t) /\ docs' = docs \cup {First(t, ws)}
            /\ body'[c] = First(t, ws)
      BY <2>2 DEF Posts
    <3>2. t \in Nat
      BY <1>typ
    <3>3. First(t, ws).ws = ws
      BY <1>typ, <3>2, FirstFields
    <3>4. /\ ~created /\ created' = TRUE /\ op'[c] = "post" /\ snap'[c] = snap[c]
          /\ copy'[c] = copy[c]
      BY <2>2 DEF Posts
    <3>5. docs = {} /\ \A k \in Clients : /\ snap[k] = {} /\ copy[k].cur = 0
                                          /\ body[k].cur = 0
                                          /\ op[k] \notin {"put", "patch"}
      BY <3>4 DEF PlaceInv
    <3>6. PlacedIn(ws)
      BY <3>5 DEF PlacedIn, In
    <3>7. PlacedIn(ws)'
      <4>1. In(copy'[c], ws) /\ In(body'[c], ws) /\ \A d \in snap'[c] : d.ws = ws
        BY <3>1, <3>3, <3>4, <3>5 DEF In
      <4>2. \A d \in docs' : d.ws = ws
        BY <3>1, <3>3, <3>5
      <4> QED BY <2>oth, <3>4, <3>6, <4>1, <4>2, PlacedStep
    <3> QED BY <3>4, <3>7 DEF PlaceInv
  <2>3. CASE Sends(c)
    <3>1. PICK t \in {clock, clock + 1}, ws \in Workspaces :
            /\ body'[c] = Edited(copy[c], t, ws)
            /\ \/ op'[c] = "put" /\ (pc'[c] = "find" \/ ws = copy[c].ws)
               \/ /\ op'[c] = "patch"
                  /\ ws = copy[c].ws \/ (Kind = "workflow" /\ MovingPatch)
      BY <2>3 DEF Sends
    <3>2. t \in Nat /\ copy[c] \in Document
      BY <1>typ
    <3>3. body'[c].ws = ws /\ body'[c].cur = copy[c].cur
      BY <1>typ, <3>1, <3>2, EditedFields
    <3>4. /\ docs' = docs /\ created' = created /\ copy'[c] = copy[c]
          /\ snap'[c] = snap[c] /\ copy[c].cur > 0
      BY <2>3 DEF Sends
    <3>5. copy[c].ws = w /\ In(copy[c], w)
      BY <2>w, <3>4 DEF PlacedIn, In
    <3>6. ws = copy[c].ws => In(body'[c], w)
      BY <3>3, <3>5 DEF In
    <3>7. PlacedIn(w)'
      <4>1. \A d \in docs' : d.ws = w
        BY <2>w, <3>4 DEF PlacedIn
      <4>2. \A d \in snap'[c] : d.ws = w
        BY <2>w, <3>4 DEF PlacedIn
      <4>3. op'[c] \in {"put", "patch"} /\ (ws = w \/ (op'[c] = "put" /\ pc'[c] = "find"))
        BY <3>1, <3>5
      <4>4. pc'[c] = "reply" => In(body'[c], w)
        BY <3>3, <3>5, <4>3 DEF In
      <4> QED BY <2>oth, <2>w, <3>3, <3>4, <3>5, <4>1, <4>2, <4>3, <4>4, PlacedStep
    <3>8. created
      BY <1>typ, <3>4 DEF PlaceInv
    <3> QED BY <3>4, <3>7, <3>8 DEF PlaceInv
  <2>4. CASE Puts(c)
    <3>1. PICK n \in Document : n = Newer(c) /\ n.ws = body[c].ws
      BY NewerFields
    <3>2. Newer(c).ws = w
      BY <2>4, <2>w, <3>1 DEF Puts, PlacedIn
    <3>3. \A e \in docs' : e.ws = w
      <4> SUFFICES ASSUME NEW e \in docs', e # Newer(c) PROVE e.ws = w
        BY <3>2
      <4>1. PICK d \in docs : e.ws = d.ws
        BY <2>4, PutsKeepsFields
      <4> QED BY <2>w, <4>1 DEF PlacedIn
    <3>4. created' = created /\ copy'[c] = copy[c] /\ Ends(c) /\ op[c] = "put"
      BY <2>4 DEF Puts
    <3>5. In(copy'[c], w)
      BY <2>w, <3>4 DEF PlacedIn
    <3>6. PlacedIn(w)'
      BY <2>oth, <2>w, <3>3, <3>4, <3>5, PlacedStep DEF Ends
    <3>7. created
      BY <3>4 DEF PlaceInv
    <3> QED BY <3>4, <3>6, <3>7 DEF PlaceInv
  <2>5. CASE Patches(c)
    <3>1. PICK d \in docs : /\ docs' = (docs \ {d}) \cup {[body[c] EXCEPT !.id = d.id]}
                            /\ body'[c] = [body[c] EXCEPT !.id = d.id]
      BY <2>5 DEF Patches
    <3>2. body[c] \in Document /\ d.id \in Nat
      BY <1>typ
    <3>3. PICK n \in Document : n = [body[c] EXCEPT !.id = d.id] /\ n.ws = body[c].ws
      BY <3>2, SameIdFields
    <3>4. /\ created' = created /\ op[c] = "patch" /\ copy'[c] = copy[c]
          /\ snap'[c] = {} /\ op'[c] = "patch"
      BY <2>5 DEF Patches
    <3>5. body'[c].ws = w /\ In(copy'[c], w)
      BY <2>w, <3>1, <3>3, <3>4 DEF PlacedIn
    <3>6. \A e \in docs' : e.ws = w
      BY <2>w, <3>1, <3>5 DEF PlacedIn
    <3>7. PlacedIn(w)'
      BY <2>oth, <2>w, <3>4, <3>5, <3>6, PlacedStep DEF In
    <3>8. created
      BY <3>4 DEF PlaceInv
    <3> QED BY <3>4, <3>7, <3>8 DEF PlaceInv
  <2>6. CASE Deletes(c)
    <3>1. /\ docs' \subseteq docs /\ created' = created /\ copy'[c] = copy[c]
          /\ Ends(c) /\ docs # {}
      BY <2>6 DEF Deletes
    <3>2. (\A d \in docs' : d.ws = w) /\ In(copy'[c], w)
      BY <2>w, <3>1 DEF PlacedIn
    <3>3. PlacedIn(w)'
      BY <2>oth, <2>w, <3>1, <3>2, PlacedStep DEF Ends
    <3>4. created
      BY <3>1 DEF PlaceInv
    <3> QED BY <3>1, <3>3, <3>4 DEF PlaceInv
  <2> QED BY <2>oth, <2>1, <2>2, <2>3, <2>4, <2>5, <2>6 DEF Shape
<1> QED BY <1>1, <1>2 DEF Next

(* All versions of a workflow stay in the workspace it was created in, if   *)
(* no PATCH names another one: PUT compares workspaces before the           *)
(* transaction (mongo.go:1158), and what it compared with cannot change.    *)
THEOREM WorkspaceStays ==
    ASSUME Kind = "workflow" => ~MovingPatch
    PROVE  Spec => []WorkspaceFixed
<1>1. TypeInv /\ PlaceInv /\ [Next]_vars => (TypeInv /\ PlaceInv)'
  BY TypeInvStep, PlaceStep
<1>2. Init => TypeInv /\ PlaceInv
  BY TypeInvInit, PlaceInit
<1>3. PlaceInv => WorkspaceFixed
  BY DEF PlaceInv, PlacedIn, WorkspaceFixed
<1> QED BY <1>1, <1>2, <1>3, PTL DEF Spec

-----------------------------------------------------------------------------
(* Action properties *)

(* The documents before and after a step that have the same _id and other   *)
(* contents: those of a PATCH.                                              *)
LEMMA RewrittenByPatch ==
    ASSUME TypeInv, IdInv, NEW c \in Clients, ClientStep(c),
           NEW d \in docs, NEW e \in docs', d.id = e.id, d.content # e.content
    PROVE  /\ Patches(c)
           /\ d \in VersionIn(snap[c], body[c].cur)
           /\ d.ts = old[c]
           /\ e.base = body[c].base
<1>typ. /\ TypeOK /\ docs \in SUBSET Document /\ writes \in Nat /\ clock \in Nat
        /\ body[c] \in Document
        /\ \A x \in Document : x.id \in Nat
  BY DEF TypeInv, TypeOK, RequestTypeOK, Document
<1>sha. Shape(c)
  BY <1>typ, StepShape
<1>sub. docs' \subseteq docs => FALSE
  BY DEF IdInv
<1>1. ~Quiet(c) /\ ~Sends(c) /\ ~Deletes(c)
  BY <1>sub DEF Quiet, Sends, Deletes
<1>2. ~Posts(c)
  <2> SUFFICES ASSUME Posts(c) PROVE FALSE
    OBVIOUS
  <2>1. PICK t \in {clock, clock + 1}, ws \in Workspaces :
          docs' = docs \cup {First(t, ws)}
    BY DEF Posts
  <2>2. t \in Nat
    BY <1>typ
  <2>3. First(t, ws).id = writes + 1
    BY <1>typ, <2>2, FirstFields
  <2>4. e = First(t, ws)
    BY <2>1 DEF IdInv
  <2> QED BY <1>typ, <2>3, <2>4 DEF IdInv
<1>3. ~Puts(c)
  <2> SUFFICES ASSUME Puts(c) PROVE FALSE
    OBVIOUS
  <2>1. CASE e = Newer(c)
    <3>1. Newer(c).id = body[c].content
      BY NewerFields
    <3> QED BY <2>1, <3>1 DEF Puts, IdInv
  <2>2. CASE e # Newer(c)
    <3>1. PICK x \in docs : e.id = x.id /\ e.content = x.content
      BY <2>2, PutsKeepsFields
    <3> QED BY <3>1 DEF IdInv
  <2> QED BY <2>1, <2>2
<1>4. Patches(c)
  BY <1>sha, <1>1, <1>2, <1>3 DEF Shape
<1>5. PICK x \in VersionIn(snap[c], body[c].cur) :
        /\ x \in docs /\ x.ts = old[c]
        /\ docs' = (docs \ {x}) \cup {[body[c] EXCEPT !.id = x.id]}
  BY <1>4 DEF Patches
<1>6. body[c] \in Document /\ x.id \in Nat
  BY <1>typ, <1>5
<1>7. PICK n \in Document :
        n = [body[c] EXCEPT !.id = x.id] /\ n.id = x.id /\ n.base = body[c].base
  BY <1>6, SameIdFields
<1>8. e = n
  BY <1>5, <1>7 DEF IdInv
<1>9. d = x
  BY <1>5, <1>7, <1>8 DEF IdInv
<1> QED BY <1>4, <1>5, <1>7, <1>8, <1>9

(* A PATCH never overwrites contents its client has not read, whatever      *)
(* versions are deleted meanwhile, as long as no two writes get the same    *)
(* truncated timestamp: the timestamp is all that patchCallback compares.   *)
THEOREM PatchLosesNothing ==
    ASSUME ~SameMillisecond
    PROVE  Spec => NoLostUpdate
<1> DEFINE Inv == TypeInv /\ IdInv /\ StampInv
           A == \A d \in docs, e \in docs' :
                   d.id = e.id /\ d.content # e.content => e.base = d.content
<1>1. Init => Inv
  BY TypeInvInit, IdInit, StampInit
<1>2. Inv /\ [Next]_vars => Inv'
  BY TypeInvStep, IdStep, StampStep
<1>3. Inv /\ [Next]_vars => [A]_docs
  <2> SUFFICES ASSUME Inv, Next, NEW d \in docs, NEW e \in docs',
                      d.id = e.id, d.content # e.content
               PROVE  e.base = d.content
    BY DEF vars
  <2>1. PICK c \in Clients : ClientStep(c)
    BY DEF Next
  <2>2. Patches(c) /\ d.ts = old[c] /\ e.base = body[c].base
    BY <2>1, RewrittenByPatch
  <2>3. Stamped(d) /\ body[c].base = old[c]
    BY <2>2 DEF StampInv, Patches
  <2> QED BY <2>2, <2>3 DEF Stamped
<1> HIDE DEF Inv
<1>4. NoLostUpdate <=> [][A]_docs
  BY DEF NoLostUpdate
<1> QED BY <1>1, <1>2, <1>3, <1>4, PTL DEF Spec

(* The newest stored version is the one a transaction has seen as newest,   *)
(* if that one is still stored.                                             *)
LEMMA NewestStays ==
    ASSUME HistoryInv, NEW c \in Clients, NEW m \in snap[c], m \in docs, 
           m.cur = GetLatestVersion(snap[c])
    PROVE  m.tag /\ m.cur = GetLatestVersion(docs)
<1>1. /\ docs \in SUBSET Document /\ Bounded(docs) /\ Lineage(docs)
      /\ snap[c] \in SUBSET Document /\ Bounded(snap[c]) /\ Lineage(snap[c])
  BY DEF HistoryInv, ClientInv, TypeInv, TypeOK, RequestTypeOK
<1>2. \A e \in snap[c] : e.cur <= m.cur
  BY <1>1, LatestIsGreatest
<1>3. m.tag
  BY <1>1, <1>2 DEF Lineage, LatestTagIn
<1>4. \A e \in docs : e.cur <= m.cur
  BY <1>1, <1>3 DEF Lineage, LatestTagIn
<1>5. /\ GetLatestVersion(docs) \in Nat /\ m.cur <= GetLatestVersion(docs)
      /\ \E e \in docs : e.cur = GetLatestVersion(docs)
  BY <1>1, LatestIsGreatest
<1>6. m.cur \in Nat
  BY <1>1 DEF Document
<1> QED BY <1>3, <1>4, <1>5, <1>6

(* Only the newest version is rewritten, at the moment of the write, while  *)
(* no client deletes a version it has seen no successor of.                 *)
THEOREM PatchRewritesLatest ==
    ASSUME ~DeleteLatest
    PROVE  Spec => OnlyLatestPatched
<1> DEFINE Inv == HistoryInv /\ IdInv
           A == \A d \in docs, e \in docs' :
                   d.id = e.id /\ d.content # e.content
                       => d.cur = GetLatestVersion(docs)
<1>1. Init => Inv
  BY HistoryInit, IdInit
<1>2. Inv /\ [Next]_vars => Inv'
  BY HistoryStep, IdStep DEF HistoryInv
<1>3. Inv /\ [Next]_vars => [A]_docs
  <2> SUFFICES ASSUME Inv, Next, NEW d \in docs, NEW e \in docs',
                      d.id = e.id, d.content # e.content
               PROVE  d.cur = GetLatestVersion(docs)
    BY DEF vars
  <2>1. PICK c \in Clients : ClientStep(c)
    BY DEF Next
  <2>2. Patches(c) /\ d \in VersionIn(snap[c], body[c].cur)
    BY <2>1, RewrittenByPatch DEF HistoryInv
  <2>3. d \in snap[c] /\ d.cur = GetLatestVersion(snap[c])
    BY <2>2 DEF VersionIn, Patches
  <2> QED BY <2>3, NewestStays
<1> HIDE DEF Inv
<1>4. OnlyLatestPatched <=> [][A]_docs
  BY DEF OnlyLatestPatched
<1> QED BY <1>1, <1>2, <1>3, <1>4, PTL DEF Spec

(* The version a committing PUT pulls the tag from is the newest one, in    *)
(* its snapshot and in the collection.                                      *)
LEMMA PutsOnNewest ==
    ASSUME HistoryInv, NEW c \in Clients, Puts(c)
    PROVE  \E m \in docs :
             /\ Pulled(c) = {m}
             /\ m.cur = GetLatestVersion(snap[c])
             /\ m.cur = GetLatestVersion(docs)
<1>1. /\ snap[c] \in SUBSET Document /\ Bounded(snap[c]) /\ Lineage(snap[c])
      /\ snap[c] # {}
  BY DEF HistoryInv, ClientInv, TypeInv, TypeOK, RequestTypeOK, Puts
<1>2. PICK m \in snap[c] : /\ m.cur = GetLatestVersion(snap[c])
                           /\ TaggedBefore(snap[c], m.cur + 1) = {m}
  BY <1>1, TaggedIsLatest
<1>3. Pulled(c) = {m}
  BY <1>2 DEF Pulled
<1>4. m \in docs
  BY <1>3 DEF Puts
<1>5. m.cur = GetLatestVersion(docs)
  BY <1>2, <1>4, NewestStays
<1> QED BY <1>2, <1>3, <1>4, <1>5

(* Before the POST nothing is stored. *)
LEMMA PostsOnNothing ==
    ASSUME HistoryInv, NEW c \in Clients, Posts(c)
    PROVE  docs = {} /\ GetLatestVersion(docs) = 0
  BY DEF HistoryInv, Posts, GetLatestVersion

(* A version that appears is numbered one above the highest stored: no      *)
(* number is skipped or given out twice by concurrent PUTs.                 *)
THEOREM VersionsConsecutive ==
    ASSUME ~DeleteLatest
    PROVE  Spec => NewVersionIsNext
<1> DEFINE A == \A e \in docs' : (\A d \in docs : d.id # e.id)
                                    => e.cur = GetLatestVersion(docs) + 1
<1>1. HistoryInv /\ [Next]_vars => [A]_docs
  <2> SUFFICES ASSUME HistoryInv, Next, NEW e \in docs', \A d \in docs : d.id # e.id
               PROVE  e.cur = GetLatestVersion(docs) + 1
    BY DEF vars
  <2>1. PICK c \in Clients : ClientStep(c)
    BY DEF Next
  <2>typ. /\ TypeInv /\ TypeOK /\ docs \in SUBSET Document /\ clock \in Nat
          /\ body[c] \in Document /\ \A x \in Document : x.id \in Nat
    BY DEF HistoryInv, TypeInv, TypeOK, RequestTypeOK, Document
  <2>sha. Shape(c)
    BY <2>1, <2>typ, StepShape
  <2>2. ~Quiet(c) /\ ~Sends(c) /\ ~Deletes(c)
    BY DEF Quiet, Sends, Deletes
  <2>3. CASE Posts(c)
    <3>1. PICK t \in {clock, clock + 1}, ws \in Workspaces :
            docs' = docs \cup {First(t, ws)}
      BY <2>3 DEF Posts
    <3>2. t \in Nat
      BY <2>typ
    <3>3. First(t, ws).cur = 1
      BY <2>typ, <3>2, FirstFields
    <3> QED BY <2>3, <3>1, <3>3, PostsOnNothing
  <2>4. CASE Puts(c)
    <3>1. PICK m \in docs : m.cur = GetLatestVersion(snap[c])
                              /\ m.cur = GetLatestVersion(docs)
      BY <2>4, PutsOnNewest
    <3>2. e = Newer(c)
      BY <2>4, <2>typ, PutsKeepsFields
    <3>3. Newer(c).cur = GetLatestVersion(snap[c]) + 1
      BY <2>typ, NewerFields
    <3> QED BY <3>1, <3>2, <3>3
  <2>5. CASE Patches(c)
    <3>1. PICK d \in docs : docs' = (docs \ {d}) \cup {[body[c] EXCEPT !.id = d.id]}
      BY <2>5 DEF Patches
    <3>2. d.id \in Nat
      BY <2>typ
    <3>3. PICK n \in Document : n = [body[c] EXCEPT !.id = d.id] /\ n.id = d.id
      BY <2>typ, <3>2, SameIdFields
    <3> QED BY <3>1, <3>3
  <2> QED BY <2>sha, <2>2, <2>3, <2>4, <2>5 DEF Shape
<1>2. HistoryInv /\ [Next]_vars => HistoryInv'
  BY HistoryStep
<1>3. NewVersionIsNext <=> [][A]_docs
  BY DEF NewVersionIsNext
<1> QED BY HistoryInit, <1>1, <1>2, <1>3, PTL DEF Spec

-----------------------------------------------------------------------------
(***************************************************************************)
(* Refinement.  The history of a set of documents, of which StoredHistory  *)
(* is that of the collection; a function is it when it has the same        *)
(* version numbers and each of them the contents of its document.          *)
(***************************************************************************)
HistoryOf(S) == [v \in {d.cur : d \in S} |-> (CHOOSE d \in S : d.cur = v).content]

(* In a history each version holds the contents of its document. *)
LEMMA HistoryHolds ==
    ASSUME NEW S, VersionsUniqueIn(S), NEW d \in S
    PROVE  d.cur \in DOMAIN HistoryOf(S) /\ HistoryOf(S)[d.cur] = d.content
<1>1. (CHOOSE e \in S : e.cur = d.cur) = d
  BY DEF VersionsUniqueIn
<1> QED BY <1>1 DEF HistoryOf

(* A function that holds them for the same version numbers is the history. *)
LEMMA HistoryIs ==
    ASSUME NEW S, VersionsUniqueIn(S), NEW f, f = [v \in DOMAIN f |-> f[v]],
           \A v \in DOMAIN f : \E d \in S : d.cur = v,
           \A d \in S : d.cur \in DOMAIN f /\ f[d.cur] = d.content
    PROVE  HistoryOf(S) = f
<1>1. DOMAIN HistoryOf(S) = DOMAIN f
  BY DEF HistoryOf
<1>2. \A v \in DOMAIN f : HistoryOf(S)[v] = f[v]
  <2> TAKE v \in DOMAIN f
  <2>1. PICK d \in S : d.cur = v
    OBVIOUS
  <2> QED BY <2>1, HistoryHolds
<1>3. HistoryOf(S) = [v \in DOMAIN HistoryOf(S) |-> HistoryOf(S)[v]]
  BY DEF HistoryOf
<1> QED BY <1>1, <1>2, <1>3

(* The newest version of the history is what GetLatestVersion finds. *)
LEMMA NewestIsLatest ==
    ASSUME docs \in SUBSET Document, Bounded(docs)
    PROVE  /\ History!Newest = GetLatestVersion(docs)
           /\ DOMAIN StoredHistory = {d.cur : d \in docs}
<1>1. DOMAIN StoredHistory = {d.cur : d \in docs}
  BY DEF StoredHistory
<1>2. CASE docs = {}
  BY <1>1, <1>2 DEF History!Newest, GetLatestVersion
<1>3. CASE docs # {}
  <2> DEFINE T == {d.cur : d \in docs}
             g == GetLatestVersion(docs)
  <2>1. T # {} /\ T \in SUBSET Nat
    BY <1>3 DEF Document
  <2>2. g \in T /\ \A v \in T : v <= g
    BY <1>3, LatestIsGreatest
  <2>3. History!Newest = CHOOSE v \in T : \A w \in T : w <= v
    BY <1>1, <2>1 DEF History!Newest
  <2> HIDE DEF T, g
  <2>4. \A v \in T : (\A w \in T : w <= v) => v = g
    BY <2>1, <2>2
  <2>5. History!Newest = g
    BY <2>2, <2>3, <2>4
  <2> QED BY <1>1, <2>5 DEF g
<1> QED BY <1>2, <1>3

(* POST and PUT append a version. *)
LEMMA AppendMapped ==
    ASSUME HistoryInv, VersionsUniqueIn(docs'), NEW n, NEW x, 
           n = GetLatestVersion(docs) + 1,
           \E e \in docs' : e.cur = n,
           \A d \in docs : \E e \in docs' : e.cur = d.cur,
           \A e \in docs' : \/ e.cur = n /\ e.content = x
                            \/ \E d \in docs : e.cur = d.cur /\ e.content = d.content
    PROVE  History!AppendVersion(x)
<1>typ. /\ docs \in SUBSET Document /\ Bounded(docs) /\ VersionsUniqueIn(docs)
        /\ \A d \in docs : d.cur \in Nat
  BY DEF HistoryInv, TypeInv, TypeOK, Lineage, Document
<1>new. n = History!Newest + 1 /\ DOMAIN StoredHistory = {d.cur : d \in docs}
  BY <1>typ, NewestIsLatest
<1>old. \A d \in docs : d.cur # n
  BY <1>typ, LatestIsGreatest
<1> DEFINE f == [v \in DOMAIN StoredHistory \cup {n} |->
                    IF v = n THEN x ELSE StoredHistory[v]]
<1>1. \A v \in DOMAIN f : \E e \in docs' : e.cur = v
  BY <1>new
<1>2. ASSUME NEW e \in docs' PROVE e.cur \in DOMAIN f /\ f[e.cur] = e.content
  <2>1. CASE e.cur = n /\ e.content = x
    BY <2>1
  <2>2. CASE \E d \in docs : e.cur = d.cur /\ e.content = d.content
    <3>1. PICK d \in docs : e.cur = d.cur /\ e.content = d.content
      BY <2>2
    <3>2. StoredHistory[d.cur] = d.content /\ d.cur \in DOMAIN StoredHistory
      BY <1>typ, HistoryHolds DEF HistoryOf, StoredHistory
    <3> QED BY <1>old, <3>1, <3>2
  <2> QED BY <2>1, <2>2
<1>3. HistoryOf(docs') = f
  <2>1. f = [v \in DOMAIN f |-> f[v]]
    OBVIOUS
  <2> HIDE DEF f
  <2> QED BY <1>1, <1>2, <2>1, HistoryIs
<1>4. StoredHistory' = f
  BY <1>3 DEF HistoryOf, StoredHistory
<1> QED BY <1>new, <1>4 DEF History!AppendVersion

(* PATCH rewrites the newest version. *)
LEMMA AmendMapped ==
    ASSUME HistoryInv, VersionsUniqueIn(docs'), NEW m \in docs, NEW n,
           m.cur = GetLatestVersion(docs), n.cur = m.cur,
           docs' = (docs \ {m}) \cup {n}
    PROVE  History!AmendNewest(n.content)
<1>typ. /\ docs \in SUBSET Document /\ Bounded(docs) /\ VersionsUniqueIn(docs)
  BY DEF HistoryInv, TypeInv, TypeOK, Lineage
<1>new. m.cur = History!Newest /\ DOMAIN StoredHistory = {d.cur : d \in docs}
  BY <1>typ, NewestIsLatest
<1> DEFINE f == [v \in DOMAIN StoredHistory |->
                    IF v = m.cur THEN n.content ELSE StoredHistory[v]]
<1>0. DOMAIN f = {d.cur : d \in docs}
  BY <1>new
<1>1. \A v \in DOMAIN f : \E e \in docs' : e.cur = v
  BY <1>0
<1>2. ASSUME NEW e \in docs' PROVE e.cur \in DOMAIN f /\ f[e.cur] = e.content
  <2>1. CASE e = n
    BY <2>1, <1>new
  <2>2. CASE e # n
    <3>1. e \in docs /\ e # m
      BY <2>2
    <3>2. e.cur # m.cur
      BY <1>typ, <3>1 DEF VersionsUniqueIn
    <3>3. StoredHistory[e.cur] = e.content /\ e.cur \in DOMAIN StoredHistory
      BY <1>typ, <3>1, HistoryHolds DEF HistoryOf, StoredHistory
    <3> QED BY <3>2, <3>3
  <2> QED BY <2>1, <2>2
<1>3. f = [v \in DOMAIN f |-> f[v]]
  OBVIOUS
<1> HIDE DEF f
<1>4. HistoryOf(docs') = f
  BY <1>1, <1>2, <1>3, HistoryIs
<1>5. StoredHistory' = f
  BY <1>4 DEF HistoryOf, StoredHistory
<1>6. f = [StoredHistory EXCEPT ![m.cur] = n.content]
  BY DEF f
<1> QED BY <1>new, <1>5, <1>6 DEF History!AmendNewest

(* DELETE removes a version that has a successor. *)
LEMMA RemoveMapped ==
    ASSUME HistoryInv, VersionsUniqueIn(docs'), NEW m \in docs, NEW w \in docs,
           m.cur < w.cur, docs' = docs \ {m}
    PROVE  History!RemoveOlder(m.cur)
<1>typ. /\ docs \in SUBSET Document /\ Bounded(docs) /\ VersionsUniqueIn(docs)
        /\ \A d \in docs : d.cur \in Nat
  BY DEF HistoryInv, TypeInv, TypeOK, Lineage, Document
<1>new. /\ History!Newest = GetLatestVersion(docs)
        /\ DOMAIN StoredHistory = {d.cur : d \in docs}
  BY <1>typ, NewestIsLatest
<1>old. m.cur # History!Newest
  BY <1>typ, <1>new, LatestIsGreatest
<1> DEFINE f == [v \in DOMAIN StoredHistory \ {m.cur} |-> StoredHistory[v]]
<1>1. \A v \in DOMAIN f : \E e \in docs' : e.cur = v
  BY <1>new
<1>2. ASSUME NEW e \in docs' PROVE e.cur \in DOMAIN f /\ f[e.cur] = e.content
  <2>1. e \in docs /\ e.cur # m.cur
    BY <1>typ DEF VersionsUniqueIn
  <2>2. StoredHistory[e.cur] = e.content /\ e.cur \in DOMAIN StoredHistory
    BY <1>typ, <2>1, HistoryHolds DEF HistoryOf, StoredHistory
  <2> QED BY <2>1, <2>2
<1>3. f = [v \in DOMAIN f |-> f[v]]
  OBVIOUS
<1> HIDE DEF f
<1>4. HistoryOf(docs') = f
  BY <1>1, <1>2, <1>3, HistoryIs
<1>5. StoredHistory' = f
  BY <1>4 DEF HistoryOf, StoredHistory
<1> QED BY <1>new, <1>old, <1>5 DEF History!RemoveOlder, f

(* Every step of a client is a step of the history, or none. *)
LEMMA StepMapped ==
    ASSUME HistoryInv, HistoryInv', IdInv, NEW c \in Clients, ClientStep(c)
    PROVE  History!Next \/ UNCHANGED StoredHistory
<1>typ. /\ TypeInv /\ TypeOK /\ docs \in SUBSET Document /\ clock \in Nat
        /\ writes \in Nat /\ MaxWrites \in Nat
        /\ body[c] \in Document /\ \A x \in Document : x.id \in Nat /\ x.cur \in Nat
        /\ VersionsUniqueIn(docs')
  BY ConstantsAssumption
     DEF HistoryInv, TypeInv, TypeOK, RequestTypeOK, Document, Lineage
<1>sha. Shape(c)
  BY <1>typ, StepShape
<1>1. CASE Quiet(c) \/ Sends(c)
  <2>1. docs' = docs
    BY <1>1 DEF Quiet, Sends
  <2> QED BY <2>1 DEF StoredHistory
<1>2. CASE Posts(c)
  <2>1. PICK t \in {clock, clock + 1}, ws \in Workspaces :
          TouchMetadata(t) /\ docs' = docs \cup {First(t, ws)}
    BY <1>2 DEF Posts
  <2>2. t \in Nat
    BY <1>typ
  <2>3. PICK n \in Document : n = First(t, ws) /\ n.cur = 1 /\ n.content = writes + 1
    BY <1>typ, <2>2, FirstFields
  <2>4. docs = {} /\ GetLatestVersion(docs) = 0
    BY <1>2, PostsOnNothing
  <2>5. docs' = {n}
    BY <2>1, <2>3, <2>4
  <2>6. History!AppendVersion(writes + 1)
    BY <1>typ, <2>3, <2>4, <2>5, AppendMapped
  <2>7. writes + 1 \in 1 .. MaxWrites
    BY <1>typ, <2>1 DEF TouchMetadata
  <2> QED BY <2>6, <2>7 DEF History!Next
<1>3. CASE Puts(c)
  <2>1. PICK m \in docs : /\ Pulled(c) = {m} /\ m.cur = GetLatestVersion(snap[c])
                          /\ m.cur = GetLatestVersion(docs)
    BY <1>3, PutsOnNewest
  <2>2. PICK n \in Document : /\ n = Newer(c) /\ n.cur = GetLatestVersion(snap[c]) + 1
                              /\ n.content = body[c].content
    BY <1>typ, NewerFields
  <2>3. n \in docs' /\ n.cur = GetLatestVersion(docs) + 1
    BY <1>3, <2>1, <2>2 DEF Puts
  <2>4. \A d \in docs : \E e \in docs' : e.cur = d.cur
    <3> TAKE d \in docs
    <3>1. d \in docs' \/ d = m
      BY <1>3, <2>1 DEF Puts
    <3>2. [m EXCEPT !.tag = FALSE] \in docs'
      BY <1>3, <2>1 DEF Puts
    <3>3. [m EXCEPT !.tag = FALSE].cur = m.cur
      BY <1>typ, UntagType
    <3> QED BY <3>1, <3>2, <3>3
  <2>5. \A e \in docs' : \/ e.cur = GetLatestVersion(docs) + 1 /\ e.content = body[c].content
                         \/ \E d \in docs : e.cur = d.cur /\ e.content = d.content
    BY <1>3, <1>typ, <2>2, <2>3, PutsKeepsFields
  <2>6. History!AppendVersion(body[c].content)
    BY <1>typ, <2>3, <2>4, <2>5, AppendMapped
  <2>7. body[c].content \in 1 .. MaxWrites
    BY <1>3, <1>typ DEF Puts, IdInv
  <2> QED BY <2>6, <2>7 DEF History!Next
<1>4. CASE Patches(c)
  <2>1. PICK d \in VersionIn(snap[c], body[c].cur) :
          /\ d \in docs /\ body[c].cur = GetLatestVersion(snap[c])
          /\ docs' = (docs \ {d}) \cup {[body[c] EXCEPT !.id = d.id]}
    BY <1>4 DEF Patches
  <2>2. body[c] \in Document /\ d.id \in Nat
    BY <1>typ, <2>1
  <2>3. PICK n \in Document : /\ n = [body[c] EXCEPT !.id = d.id]
                              /\ n.cur = body[c].cur /\ n.content = body[c].content
    BY <2>2, SameIdFields
  <2>4. d \in snap[c] /\ d.cur = body[c].cur
    BY <2>1 DEF VersionIn
  <2>5. d.cur = GetLatestVersion(docs)
    BY <2>1, <2>4, NewestStays
  <2>6. docs' = (docs \ {d}) \cup {n} /\ n.cur = d.cur
    BY <2>1, <2>3, <2>4
  <2>7. History!AmendNewest(n.content)
    BY <1>typ, <2>1, <2>5, <2>6, AmendMapped
  <2>8. n.content \in 1 .. MaxWrites
    BY <1>4, <1>typ, <2>3 DEF Patches, IdInv
  <2> QED BY <2>7, <2>8 DEF History!Next
<1>5. CASE Deletes(c)
  <2>1. PICK d \in VersionIn(snap[c], ver[c]) : d \in docs /\ docs' = docs \ {d}
    BY <1>5 DEF Deletes
  <2>2. PICK w \in docs : ver[c] < w.cur
    BY <1>5 DEF Deletes, HistoryInv, ClientInv
  <2>3. d.cur < w.cur
    BY <2>1, <2>2 DEF VersionIn
  <2>4. History!RemoveOlder(d.cur)
    BY <1>typ, <2>1, <2>2, <2>3, RemoveMapped
  <2>5. d.cur \in DOMAIN StoredHistory
    BY <2>1 DEF StoredHistory
  <2> QED BY <2>4, <2>5 DEF History!Next
<1> QED BY <1>sha, <1>1, <1>2, <1>3, <1>4, <1>5 DEF Shape

(* The store implements the history of versions that the API promises:      *)
(* overlapping transactions, their conflicts, retries and failures show     *)
(* only as versions appended under the next number, the newest rewritten or *)
(* an older one removed.  No client deletes a version it has seen no        *)
(* successor of.                                                            *)
THEOREM StoreImplementsHistory ==
    ASSUME ~DeleteLatest
    PROVE  Spec => ImplementsHistory
<1> DEFINE Inv == HistoryInv /\ IdInv
<1>1. Init => Inv
  BY HistoryInit, IdInit
<1>2. Inv /\ [Next]_vars => Inv'
  BY HistoryStep, IdStep DEF HistoryInv
<1>3. Init => History!Init
  BY DEF Init, History!Init, StoredHistory
<1>4. Inv /\ Inv' /\ [Next]_vars => [History!Next]_StoredHistory
  <2>1. CASE UNCHANGED vars
    BY <2>1 DEF vars, StoredHistory
  <2>2. ASSUME Inv, Inv', NEW c \in Clients, ClientStep(c)
        PROVE  [History!Next]_StoredHistory
    BY <2>2, StepMapped
  <2> QED BY <2>1, <2>2 DEF Next
<1> HIDE DEF Inv
<1> QED BY <1>1, <1>2, <1>3, <1>4, PTL DEF Spec, ImplementsHistory, History!Spec
=============================================================================
