--------------------------- MODULE VersionedStore ---------------------------
(***************************************************************************)
(* The versioned documents of storage/mongo.go (collections Components and *)
(* Workflows) and the REST handlers that drive them.                       *)
(*                                                                         *)
(* Every query of the code filters on the uid, so one uid is modelled: its *)
(* documents are the versions of one component or of one workflow.  POST   *)
(* inserts version 1; PUT appends a version inside a transaction, moving   *)
(* the tag "latest" to it; PATCH rewrites the newest version in place if   *)
(* the timestamp the client sends is the stored one; DELETE removes one    *)
(* version.                                                                *)
(*                                                                         *)
(* A MongoDB transaction (readConcern snapshot, writeConcern majority) is  *)
(* two steps: it reads a snapshot of the collection, and it commits if     *)
(* every document it modifies or removes is still the one of its snapshot, *)
(* otherwise session.WithTransaction runs the callback again.  There is no *)
(* unique index: inserts never conflict.                                   *)
(***************************************************************************)
EXTENDS Integers, FiniteSets

CONSTANTS
    Clients,          \* users of the REST API
    Workspaces,       \* workspace names a workflow may carry
    Access,           \* Access[c]: workspaces CheckWorkspaceAccess grants c
    Kind,             \* DocumentKind: "component" or "workflow"
    MaxWrites,        \* bound on POST, PUT and PATCH requests
    SameMillisecond,  \* may two writes get the same (truncated) timestamp?
    DeleteLatest,     \* may a client DELETE a version it saw no successor of?
    MovingPatch       \* may a PATCH body name another workspace?

ASSUME ConstantsAssumption ==
    /\ Workspaces # {}
    /\ Access \in [Clients -> SUBSET Workspaces]
    /\ Kind \in {"component", "workflow"}
    /\ MaxWrites \in Nat
    /\ SameMillisecond \in BOOLEAN
    /\ DeleteLatest \in BOOLEAN
    /\ MovingPatch \in BOOLEAN

VARIABLES
    docs,     \* the stored documents of the uid
    created,  \* has the uid been handed out by a POST?
    clock,    \* the latest millisecond a timestamp was taken in
    writes,   \* number of write requests so far, names their contents
    copy,     \* copy[c]: the document c last received, NoDoc if none
    pc,       \* pc[c]: where the request of c is
    op,       \* op[c]: its method
    body,     \* body[c]: the document being sent (or, at "reply", returned)
    old,      \* old[c]: PATCH: oldTimestamp
    ver,      \* ver[c]: the version a GET or DELETE addresses
    snap      \* snap[c]: the snapshot of the running transaction

vars == <<docs, created, clock, writes, copy, pc, op, body, old, ver, snap>>

(***************************************************************************)
(* A stored document: id is MongoDB's _id, cur is version.current, tag     *)
(* says whether version.tags holds "latest", ts is the timestamp.  content *)
(* names the write that produced the rest of the document, and base the    *)
(* content of the copy that write started from.  version.previous is       *)
(* always cur - 1 and is left out.                                         *)
(***************************************************************************)
Document == [id : Nat, cur : Nat, tag : BOOLEAN, ts : Nat,
             content : Nat, base : Nat, ws : Workspaces]

\* The zero value of the Go struct: "no document".
NoDoc == [id |-> 0, cur |-> 0, tag |-> FALSE, ts |-> 0,
          content |-> 0, base |-> 0, ws |-> CHOOSE w \in Workspaces : TRUE]

Init ==
    /\ docs = {}
    /\ created = FALSE
    /\ clock = 0
    /\ writes = 0
    /\ copy = [c \in Clients |-> NoDoc]
    /\ pc = [c \in Clients |-> "idle"]
    /\ op = [c \in Clients |-> "none"]
    /\ body = [c \in Clients |-> NoDoc]
    /\ old = [c \in Clients |-> 0]
    /\ ver = [c \in Clients |-> 0]
    /\ snap = [c \in Clients |-> {}]

-----------------------------------------------------------------------------
(* Reads *)

\* The highest version number in S; 0, and no error, when S is empty.
GetLatestVersion(S) ==
    IF S = {} THEN 0
    ELSE CHOOSE v \in {d.cur : d \in S} : \A d \in S : d.cur <= v

\* FindOne with the filter of GetComponent/GetWorkflow: version 0 is dropped
\* from the filter, so any document of the uid matches.
Matching(S, v) == {d \in S : v = 0 \/ d.cur = v}

\* The documents a transaction filters by uid and version.
VersionIn(S, v) == {d \in S : d.cur = v}

\* Components are visible to everyone, workflows by workspace.
CheckWorkspaceAccess(c, ws) == Kind = "component" \/ ws \in Access[c]

-----------------------------------------------------------------------------
(* The life of a request *)

\* The handler returns: nothing of the request is kept.
Done(c) ==
    /\ pc' = [pc EXCEPT ![c] = "idle"]
    /\ op' = [op EXCEPT ![c] = "none"]
    /\ body' = [body EXCEPT ![c] = NoDoc]
    /\ old' = [old EXCEPT ![c] = 0]
    /\ ver' = [ver EXCEPT ![c] = 0]
    /\ snap' = [snap EXCEPT ![c] = {}]

\* A request of client c enters step p with the given arguments.
Start(c, method, p, b, o, v) ==
    /\ pc' = [pc EXCEPT ![c] = p]
    /\ op' = [op EXCEPT ![c] = method]
    /\ body' = [body EXCEPT ![c] = b]
    /\ old' = [old EXCEPT ![c] = o]
    /\ ver' = [ver EXCEPT ![c] = v]
    /\ UNCHANGED snap

\* The callback committed and returned document d to the handler.
Answer(c, d) ==
    /\ pc' = [pc EXCEPT ![c] = "reply"]
    /\ body' = [body EXCEPT ![c] = d]
    /\ snap' = [snap EXCEPT ![c] = {}]
    /\ UNCHANGED <<op, old, ver>>

\* A write conflict: WithTransaction runs the callback again (or gives up, see
\* Abort).
Retry(c) ==
    /\ pc' = [pc EXCEPT ![c] = "begin"]
    /\ snap' = [snap EXCEPT ![c] = {}]
    /\ UNCHANGED <<docs, op, body, old, ver>>

\* TouchMetadata: a timestamp truncated to milliseconds.
TouchMetadata(t) ==
    /\ writes < MaxWrites
    /\ writes' = writes + 1
    /\ t \in (IF SameMillisecond THEN {clock, clock + 1} ELSE {clock + 1})
    /\ clock' = t

\* What a client sends: the document it holds with a new content.
Edited(d, t, ws) ==
    [d EXCEPT !.ts = t, !.content = writes + 1, !.base = d.content, !.ws = ws]

\* Version number v with SetLatestTag, stored under _id i.
AsLatest(d, i, v) == [d EXCEPT !.id = i, !.cur = v, !.tag = TRUE]

-----------------------------------------------------------------------------
(* POST *)

\* InitializeMetadata takes a fresh uid, InitializeNew sets version 1 and the
\* tag, the document is inserted.
InsertFirst(c, ws) ==
    /\ pc[c] = "idle"
    /\ ~created
    /\ \E t \in {clock, clock + 1} :
        /\ TouchMetadata(t)
        /\ LET d == AsLatest(Edited(NoDoc, t, ws), writes + 1, 1)
           IN  /\ docs' = docs \cup {d}
               /\ Start(c, "post", "reply", d, 0, 0)
    /\ created' = TRUE
    /\ UNCHANGED copy

\* A component has no workspace (the value of NoDoc stands for none).
CreateComponent(c) == Kind = "component" /\ InsertFirst(c, NoDoc.ws)

\* A workflow is created in a workspace the user has access to.
CreateWorkflow(c) ==
    /\ Kind = "workflow"
    /\ \E ws \in Workspaces : CheckWorkspaceAccess(c, ws) /\ InsertFirst(c, ws)

Create(c) == CreateComponent(c) \/ CreateWorkflow(c)

\* The response reaches the client: 201 of POST and 200 of PATCH carry the
\* stored document.
Reply(c) ==
    /\ pc[c] = "reply"
    /\ copy' = [copy EXCEPT ![c] = body[c]]
    /\ Done(c)
    /\ UNCHANGED <<docs, created, clock, writes>>

\* The connection, the server or the transaction fails: the request ends
\* without an answer, and what was not committed is rolled back.
Abort(c) ==
    /\ pc[c] # "idle"
    /\ Done(c)
    /\ UNCHANGED <<docs, created, clock, writes, copy>>

-----------------------------------------------------------------------------
(* GET *)

\* Mutant: the -1 of getVersionNoFromMuxerPath ("no version") is passed on.
GetVersionUnchecked(c) ==
    /\ pc[c] = "idle"
    /\ created
    /\ \E v \in {-1} \cup 1 .. MaxWrites : Start(c, "get", "find", NoDoc, 0, v)
    /\ UNCHANGED <<docs, created, clock, writes, copy>>

\* Without a version (0) the latest one is looked up.
getCRefVersion(v) == IF v = 0 THEN GetLatestVersion(docs) ELSE v

\* The GET handlers and the first of the two reads of GetComponent/GetWorkflow.
GetVersion(c) ==
    /\ pc[c] = "idle"
    /\ created
    /\ \E v \in 0 .. MaxWrites :
         Start(c, "get", "find", NoDoc, 0, getCRefVersion(v))
    /\ UNCHANGED <<docs, created, clock, writes, copy>>

\* GetComponent/GetWorkflow: FindOne, then the access check.
GetFind(c) ==
    /\ pc[c] = "find"
    /\ op[c] = "get"
    /\ \/ \E d \in Matching(docs, ver[c]) :
            copy' = IF CheckWorkspaceAccess(c, d.ws)
                    THEN [copy EXCEPT ![c] = d] ELSE copy
       \/ Matching(docs, ver[c]) = {} /\ UNCHANGED copy
    /\ Done(c)
    /\ UNCHANGED <<docs, created, clock, writes>>

-----------------------------------------------------------------------------
(* PUT *)

\* Touch the metadata of the body, then call the storage, which starts the
\* transaction.
PutComponent(c) ==
    /\ Kind = "component"
    /\ pc[c] = "idle"
    /\ copy[c].cur > 0
    /\ \E t \in {clock, clock + 1} :
        /\ TouchMetadata(t)
        /\ Start(c, "put", "begin", Edited(copy[c], t, copy[c].ws), 0, 0)
    /\ UNCHANGED <<docs, created, copy>>

\* The same, but the storage first looks the workflow up, outside the
\* transaction (the first of those two reads is part of this step).  The body
\* may name any workspace.
PutWorkflow(c) ==
    /\ Kind = "workflow"
    /\ pc[c] = "idle"
    /\ copy[c].cur > 0
    /\ \E t \in {clock, clock + 1}, ws \in Workspaces :
        /\ TouchMetadata(t)
        /\ Start(c, "put", "find", Edited(copy[c], t, ws), 0, getCRefVersion(0))
    /\ UNCHANGED <<docs, created, copy>>

Put(c) == PutComponent(c) \/ PutWorkflow(c)

\* Mutant: the workspace of the body is not compared.
PutWorkflowCheckMoves(c) ==
    /\ pc[c] = "find"
    /\ op[c] = "put"
    /\ \/ \E d \in Matching(docs, ver[c]) :
            IF CheckWorkspaceAccess(c, d.ws)
            THEN Start(c, "put", "begin", body[c], 0, 0) ELSE Done(c)
       \/ Matching(docs, ver[c]) = {} /\ Done(c)
    /\ UNCHANGED <<docs, created, clock, writes, copy>>

\* storage PutWorkflow: "cannot move workflows from workspace".
PutWorkflowCheck(c) ==
    /\ pc[c] = "find"
    /\ op[c] = "put"
    /\ \/ \E d \in Matching(docs, ver[c]) :
            IF CheckWorkspaceAccess(c, d.ws) /\ d.ws = body[c].ws
            THEN Start(c, "put", "begin", body[c], 0, 0)
            ELSE Done(c)
       \/ Matching(docs, ver[c]) = {} /\ Done(c)
    /\ UNCHANGED <<docs, created, clock, writes, copy>>

\* Mutant: the filter of replaceLatestTag says $eq instead of $ne.
TaggedBeforeEq(S, v) == {d \in S : d.tag /\ d.cur = v}

\* The documents replaceLatestTag updates: those of the snapshot that carry
\* the tag, except the new version.
TaggedBefore(S, v) == {d \in S : d.tag /\ d.cur # v}

\* Mutant: no transaction, the tag is pulled from what is there.
PutCommitNoTxn(c) ==
    LET latest == GetLatestVersion(snap[c])
    IN  /\ pc[c] = "commit"
        /\ op[c] = "put"
        /\ docs' = {AsLatest(body[c], body[c].content, latest + 1)}
                     \cup {[d EXCEPT !.tag = FALSE] : d \in docs}
        /\ Done(c)
        /\ UNCHANGED <<created, clock, writes, copy>>

\* Mutant: the next version number is computed from the number of versions.
PutCommitCounted(c) ==
    LET next == Cardinality(snap[c]) + 1
        pull == TaggedBefore(snap[c], next)
    IN  /\ pc[c] = "commit"
        /\ op[c] = "put"
        /\ pull \subseteq docs
        /\ docs' = (docs \ pull) \cup {AsLatest(body[c], body[c].content, next)}
                     \cup {[d EXCEPT !.tag = FALSE] : d \in pull}
        /\ Done(c)
        /\ UNCHANGED <<created, clock, writes, copy>>

\* updateCallback and the commit: insert the next version with the tag, pull
\* the tag from the others.
PutCommit(c) ==
    LET latest == GetLatestVersion(snap[c])
        new    == AsLatest(body[c], body[c].content, latest + 1)
        pull   == TaggedBefore(snap[c], latest + 1)
    IN  /\ pc[c] = "commit"
        /\ op[c] = "put"
        /\ IF pull \subseteq docs
           THEN /\ docs' = (docs \ pull) \cup {new}
                             \cup {[d EXCEPT !.tag = FALSE] : d \in pull}
                /\ Done(c)
           ELSE Retry(c)
        /\ UNCHANGED <<created, clock, writes, copy>>

-----------------------------------------------------------------------------
(* PATCH *)

\* Remember the timestamp of the body, then touch it.
SendPatch(c, ws) ==
    /\ pc[c] = "idle"
    /\ copy[c].cur > 0
    /\ \E t \in {clock, clock + 1} :
        /\ TouchMetadata(t)
        /\ Start(c, "patch", "begin", Edited(copy[c], t, ws), copy[c].ts, 0)
    /\ UNCHANGED <<docs, created, copy>>

PatchComponent(c) == Kind = "component" /\ SendPatch(c, copy[c].ws)

\* No workspace check at all, on the stored workflow or on the one sent.
PatchWorkflow(c) ==
    /\ Kind = "workflow"
    /\ \E ws \in Workspaces :
         (MovingPatch \/ ws = copy[c].ws) /\ SendPatch(c, ws)

Patch(c) == PatchComponent(c) \/ PatchWorkflow(c)

\* Mutant: any version may be patched.
PatchCommitAnyVersion(c) ==
    /\ pc[c] = "commit"
    /\ op[c] = "patch"
    /\ \E d \in VersionIn(snap[c], body[c].cur) :
         LET new == [body[c] EXCEPT !.id = d.id]
         IN  /\ d.ts = old[c]
             /\ d \in docs
             /\ docs' = (docs \ {d}) \cup {new}
             /\ Answer(c, new)
    /\ UNCHANGED <<created, clock, writes, copy>>

\* Mutant: the timestamps are not compared.
PatchCommitBlind(c) ==
    /\ pc[c] = "commit"
    /\ op[c] = "patch"
    /\ body[c].cur = GetLatestVersion(snap[c])
    /\ \E d \in VersionIn(snap[c], body[c].cur) :
         LET new == [body[c] EXCEPT !.id = d.id]
         IN  /\ d \in docs
             /\ docs' = (docs \ {d}) \cup {new}
             /\ Answer(c, new)
    /\ UNCHANGED <<created, clock, writes, copy>>

\* patchCallback and the commit: only the latest version, only with the stored
\* timestamp ($set replaces everything but _id).
PatchCommit(c) ==
    LET latest == GetLatestVersion(snap[c])
    IN  /\ pc[c] = "commit"
        /\ op[c] = "patch"
        /\ \/ /\ body[c].cur # latest
              /\ Done(c)
              /\ UNCHANGED docs
           \/ /\ body[c].cur = latest
              /\ \E d \in VersionIn(snap[c], body[c].cur) :
                   LET new == [body[c] EXCEPT !.id = d.id]
                   IN  IF d.ts # old[c]
                       THEN Done(c) /\ UNCHANGED docs  \* ErrNewerDocumentExists
                       ELSE IF d \in docs
                       THEN docs' = (docs \ {d}) \cup {new} /\ Answer(c, new)
                       ELSE Retry(c)
        /\ UNCHANGED <<created, clock, writes, copy>>

-----------------------------------------------------------------------------
(* DELETE *)

\* A DELETE of one version enters step p.
SendDelete(c, p) ==
    /\ pc[c] = "idle"
    /\ created
    /\ \E v \in 1 .. MaxWrites :
        /\ DeleteLatest \/ v < copy[c].cur
        /\ Start(c, "delete", p, NoDoc, 0, v)
    /\ UNCHANGED <<docs, created, clock, writes, copy>>

DeleteComponent(c) == Kind = "component" /\ SendDelete(c, "begin")

\* A workflow is looked up first, outside the transaction.
DeleteWorkflow(c) == Kind = "workflow" /\ SendDelete(c, "find")

Delete(c) == DeleteComponent(c) \/ DeleteWorkflow(c)

\* DeleteDocument: "if we can get it we can delete it".
DeleteWorkflowCheck(c) ==
    /\ pc[c] = "find"
    /\ op[c] = "delete"
    /\ \/ \E d \in Matching(docs, ver[c]) :
            IF CheckWorkspaceAccess(c, d.ws)
            THEN Start(c, "delete", "begin", NoDoc, 0, ver[c])
            ELSE Done(c)
       \/ Matching(docs, ver[c]) = {} /\ Done(c)
    /\ UNCHANGED <<docs, created, clock, writes, copy>>

\* Mutant: the filter of DeleteOne has the uid but not the version.
DeleteCommitAnyVersion(c) ==
    /\ pc[c] = "commit"
    /\ op[c] = "delete"
    /\ \E d \in snap[c] : d \in docs /\ docs' = docs \ {d} /\ Done(c)
    /\ UNCHANGED <<created, clock, writes, copy>>

\* deleteCallback and the commit: DeleteOne.  The tag is not moved.
DeleteCommit(c) ==
    /\ pc[c] = "commit"
    /\ op[c] = "delete"
    /\ \/ \E d \in VersionIn(snap[c], ver[c]) :
            IF d \in docs
            THEN docs' = docs \ {d} /\ Done(c)
            ELSE Retry(c)
       \/ /\ VersionIn(snap[c], ver[c]) = {}
          /\ Done(c)
          /\ UNCHANGED docs
    /\ UNCHANGED <<created, clock, writes, copy>>

-----------------------------------------------------------------------------
\* The first operation of a transaction fixes its snapshot.
TxnBegin(c) ==
    /\ pc[c] = "begin"
    /\ pc' = [pc EXCEPT ![c] = "commit"]
    /\ snap' = [snap EXCEPT ![c] = docs]
    /\ UNCHANGED <<docs, created, clock, writes, copy, op, body, old, ver>>

ClientStep(c) ==
    \/ Create(c) \/ Reply(c) \/ Abort(c)
    \/ GetVersion(c) \/ GetFind(c)
    \/ Put(c) \/ PutWorkflowCheck(c) \/ PutCommit(c)
    \/ Patch(c) \/ PatchCommit(c)
    \/ Delete(c) \/ DeleteWorkflowCheck(c) \/ DeleteCommit(c)
    \/ TxnBegin(c)

Next == \E c \in Clients : ClientStep(c)

Spec == Init /\ [][Next]_vars

-----------------------------------------------------------------------------
(* Properties *)

\* Every variable has its type; the snapshot, the body and the copy are
\* documents.
RequestTypeOK ==
    /\ pc \in [Clients -> {"idle", "find", "begin", "commit", "reply"}]
    /\ op \in [Clients -> {"none", "post", "get", "put", "patch", "delete"}]
    /\ body \in [Clients -> Document]
    /\ old \in [Clients -> Nat]
    /\ ver \in [Clients -> Nat]
    /\ snap \in [Clients -> SUBSET Document]

TypeOK ==
    /\ docs \in SUBSET Document
    /\ created \in BOOLEAN
    /\ clock \in Nat
    /\ writes \in Nat
    /\ copy \in [Clients -> Document]
    /\ RequestTypeOK

\* No two stored documents of a uid have the same version number, although
\* nothing but the transaction of updateCallback (mongo.go:222) keeps two
\* concurrent PUTs from computing the same one.
VersionsUniqueIn(S) == \A d, e \in S : d.cur = e.cur => d = e
VersionsUnique == VersionsUniqueIn(docs)

\* The tag "latest" is on the document with the highest version number and on
\* no other: the two writes of updateCallback (insert, replaceLatestTag) and a
\* concurrent PATCH that sends the tag it once read keep it there.
LatestTagIn(S) == \A d \in S : d.tag <=> \A e \in S : e.cur <= d.cur
LatestTagOnNewest == LatestTagIn(docs)

\* A version that appears is numbered one above the highest stored: numbers
\* are neither skipped nor given out twice by concurrent PUTs (mongo.go:237).
NewVersionIsNext ==
    [][\A e \in docs' : (\A d \in docs : d.id # e.id)
                            => e.cur = GetLatestVersion(docs) + 1]_docs

\* "Only latest version of component can be saved" (flowify.json:493): the
\* document a PATCH rewrites is the newest one when the write takes effect,
\* not only when the transaction looked.
OnlyLatestPatched ==
    [][\A d \in docs, e \in docs' :
          d.id = e.id /\ d.content # e.content
              => d.cur = GetLatestVersion(docs)]_docs

\* A PATCH replaces the contents its client had read, never contents written
\* by another request since (the timestamp check of patchCallback,
\* mongo.go:321, and its write conflict).
NoLostUpdate ==
    [][\A d \in docs, e \in docs' :
          d.id = e.id /\ d.content # e.content => e.base = d.content]_docs

\* The documents of the uid seen as a history: what each version number holds.
StoredHistory ==
    [v \in {d.cur : d \in docs} |->
        (CHOOSE d \in docs : d.cur = v).content]

History == INSTANCE VersionHistory
           WITH Contents <- 1 .. MaxWrites, hist <- StoredHistory

\* Overlapping requests, conflicts, retries and aborted transactions of
\* updateCallback, patchCallback and deleteCallback (mongo.go:222-367) look
\* like the one-step operations of VersionHistory: a version is appended under
\* the next number, or the newest is rewritten, or an older one removed, and
\* what a version holds never changes otherwise.  (While no client deletes the
\* newest version.)
ImplementsHistory == History!Spec

\* All versions of a workflow are in one workspace: "cannot move workflows
\* from workspace" (mongo.go:1158), expected by storage_test.go:670.
WorkspaceFixed == \A d, e \in docs : d.ws = e.ws
=============================================================================
