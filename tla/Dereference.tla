----------------------------- MODULE Dereference -----------------------------
(***************************************************************************)
(* What JobsSubmitHandler makes of one job between storing it and handing  *)
(* it to Argo: DereferenceComponent (storage/references.go) replaces every *)
(* reference by the component it finds in the database, depth first, one   *)
(* query after the other, while other users PUT, PATCH and DELETE versions *)
(* of those components; the result is translated.  The tool cmd/transpile  *)
(* does the second part only.                                              *)
(*                                                                         *)
(* A job is a record: entry is "server" or "tool"; root is the component   *)
(* of its workflow, values are its input values; docs[u] are the           *)
(* successive contents of component u as users sent them, of which the     *)
(* first stored[u] are versions 1 .. stored[u] when the job arrives.       *)
(*                                                                         *)
(* How documents are read and how the job is translated are parameters     *)
(* here; JobCompile gives them the code's definitions.                     *)
(***************************************************************************)
EXTENDS Documents

CONSTANTS
    Jobs,              \* the jobs that may be submitted
    MaxDeletes,        \* bound on DELETE requests of other users
    MaxDepth,          \* nesting beyond which the recursion is taken for endless
    Received(_),       \* a component as the body of a request arrives
    Loaded(_),         \* a component that was sent, as FindOne returns it
    Components(_),     \* the components that a job and its documents are made of
    Translate(_, _)    \* what GetArgoWorkflow makes of a job and its components

VARIABLES
    job,      \* the job
    store,    \* store[u][v]: which content of component u version v has
    used,     \* used[u]: how many contents of u have been written
    deletes,  \* number of DELETE requests so far
    phase,    \* where the handler is
    todo,     \* the nodes still to visit, [path, node], in order
    parts,    \* parts[path]: the component at that path
    version,  \* the version getCRefVersion found
    result,   \* how compilation ended
    origin,   \* history: origin[path]: the uid, version, content it was fetched as
    fresh     \* history: fresh[u]: the contents that were newest since the job came

vars == <<job, store, used, deletes, phase, todo, parts, version, result, origin, fresh>>

\* A job comes with at most the versions that users have sent.
ASSUME JobsAssumption ==
    /\ MaxDeletes \in Nat
    /\ \A j \in Jobs : /\ DOMAIN j.stored = DOMAIN j.docs
                       /\ \A u \in DOMAIN j.docs : j.stored[u] \in 0 .. Len(j.docs[u])

Kinds == {"brick", "any", "graph", "map", "conditional"}

\* The types that Node.Node, Map.Node, Conditional.NodeTrue and .NodeFalse have.
NodeForms == {"inline", "reference", "version"}

\* What Go's types say of the components: nodes are a slice, and hold a component
\* or refer to one.
ASSUME ComponentsAssumption ==
    \A j \in Jobs :
        /\ Received(j.root) \in Components(j)
        /\ \A u \in DOMAIN j.docs : \A k \in 1 .. Len(j.docs[u]) :
              Loaded(j.docs[u][k]) \in Components(j)
        /\ \A c \in Components(j) :
              /\ c.impl.kind \in Kinds
              /\ Len(NodesOf(c)) \in Nat /\ DOMAIN NodesOf(c) = 1 .. Len(NodesOf(c))
              /\ \A k \in DOMAIN NodesOf(c) :
                    LET n == NodesOf(c)[k].node
                    IN  /\ n.form \in NodeForms
                        /\ n.form = "inline" => n.cmp \in Components(j)
                        /\ n.form = "version" => n.version \in Nat

\* Mutant: sorted the other way.
GetFirstVersion(st, u) ==
    IF u \notin DOMAIN st \/ DOMAIN st[u] = {} THEN 0
    ELSE CHOOSE v \in DOMAIN st[u] : \A w \in DOMAIN st[u] : v <= w

\* GetLatestVersion: 0 if there is none.
GetLatestVersion(st, u) ==
    IF u \notin DOMAIN st \/ DOMAIN st[u] = {} THEN 0
    ELSE CHOOSE v \in DOMAIN st[u] : \A w \in DOMAIN st[u] : w <= v

Put(f, x, y) == [z \in DOMAIN f \cup {x} |-> IF z = x THEN y ELSE f[z]]

Init ==
    /\ job \in Jobs
    /\ store = [u \in DOMAIN job.docs |-> [v \in 1 .. job.stored[u] |-> v]]
    /\ used = job.stored
    /\ deletes = 0
    /\ phase = "sent"
    /\ todo = <<>>
    /\ parts = <<>>
    /\ version = 0
    /\ result = Stop("none")
    /\ origin = <<>>
    /\ fresh = [u \in DOMAIN job.docs |-> {job.stored[u]} \ {0}]

\* The handler has answered, or the process is gone.
Ended == phase \in {"done", "refused", "runaway"}

-----------------------------------------------------------------------------
(* Other users *)

\* A request that changes component u.
Writes(u, st) ==
    /\ ~Ended
    /\ store' = [store EXCEPT ![u] = st]
    /\ LET v == GetLatestVersion(store', u)
       IN  fresh' = [fresh EXCEPT ![u] = IF v = 0 THEN @ ELSE @ \cup {st[v]}]
    /\ UNCHANGED <<job, phase, todo, parts, version, result, origin>>

NewContent(u) ==
    /\ used[u] < Len(job.docs[u])
    /\ used' = [used EXCEPT ![u] = @ + 1]
    /\ UNCHANGED deletes

\* Without a version of the component this is its first.
PutVersion(u) ==
    /\ NewContent(u)
    /\ Writes(u, Put(store[u], GetLatestVersion(store, u) + 1, used[u] + 1))

PatchVersion(u) ==
    LET v == GetLatestVersion(store, u)
    IN  /\ v # 0
        /\ NewContent(u)
        /\ Writes(u, Put(store[u], v, used[u] + 1))

DeleteVersion(u, v) ==
    /\ deletes < MaxDeletes
    /\ deletes' = deletes + 1
    /\ UNCHANGED used
    /\ Writes(u, [w \in DOMAIN store[u] \ {v} |-> store[u][w]])

-----------------------------------------------------------------------------
(* The handler *)

\* The request is decoded.  DereferenceComponent starts at the root; the tool
\* translates at once.
Receive ==
    /\ phase = "sent"
    /\ IF job.entry = "server"
       THEN /\ todo' = <<[path |-> <<>>, node |-> InlineNode(Received(job.root))]>>
            /\ phase' = "dereference"
       ELSE /\ phase' = "transpile"
            /\ UNCHANGED todo
    /\ UNCHANGED <<job, store, used, deletes, parts, version, result, origin, fresh>>

here == Head(todo)

\* The error that DereferenceComponent returns is the answer.
End(o) ==
    /\ phase' = "refused"
    /\ result' = Stop(o)
    /\ UNCHANGED <<todo, parts>>

\* The nodes of component c, the k-th one at path \o <<k>>.
Below(path, c) ==
    [k \in DOMAIN NodesOf(c) |-> [path |-> Append(path, k), node |-> NodesOf(c)[k].node]]

\* Mutant: kinds that are not implemented are passed on as they are.
TraverseAll(c) ==
    /\ parts' = Put(parts, here.path, c)
    /\ todo' = Below(here.path, c) \o Tail(todo)
    /\ phase' = "dereference"
    /\ UNCHANGED result

\* traverseComponent on component c: its nodes come next.
Traverse(c) ==
    IF c.impl.kind \notin {"graph", "map", "brick"} THEN End("not implemented")
    ELSE /\ parts' = Put(parts, here.path, c)
         /\ todo' = Below(here.path, c) \o Tail(todo)
         /\ phase' = "dereference"
         /\ UNCHANGED result

Visiting(form) ==
    /\ phase = "dereference"
    /\ todo # <<>>
    /\ Len(here.path) <= MaxDepth
    /\ here.node.form \in form

\* drefNode, drefComponent of a component.
DrefInline ==
    /\ Visiting({"inline"})
    /\ Traverse(here.node.cmp)
    /\ UNCHANGED <<job, store, used, deletes, version, origin, fresh>>

\* getCRefVersion: without a version the latest one is looked up.
Unversioned(n) == n.form = "reference" \/ n.version = 0

getCRefVersion ==
    /\ Visiting({"reference", "version"})
    /\ version' = IF Unversioned(here.node) THEN GetLatestVersion(store, here.node.uid)
                  ELSE here.node.version
    /\ phase' = "find"
    /\ UNCHANGED <<job, store, used, deletes, todo, parts, result, origin, fresh>>

\* FindOne in GetComponent: without a version any document of the uid.
Found(u) ==
    IF u \notin DOMAIN store THEN {}
    ELSE {v \in DOMAIN store[u] : version \in {0, v}}

\* The document of version v of component u takes the place of the reference.
Fetch(u, v) ==
    /\ origin' = Put(origin, here.path, [uid |-> u, version |-> v, content |-> store[u][v]])
    /\ Traverse(Loaded(job.docs[u][store[u][v]]))

\* Mutant: a component that is not found is looked for again.
GetComponentAgain ==
    LET u == here.node.uid
    IN  /\ phase = "find"
        /\ \/ /\ Found(u) = {}
              /\ phase' = "dereference"
              /\ UNCHANGED <<todo, parts, result, origin>>
           \/ \E v \in Found(u) : Fetch(u, v)
        /\ UNCHANGED <<job, store, used, deletes, version, fresh>>

GetComponent ==
    LET u == here.node.uid
    IN  /\ phase = "find"
        /\ \/ /\ Found(u) = {}
              /\ End("not found")
              /\ UNCHANGED origin
           \/ \E v \in Found(u) : Fetch(u, v)
        /\ UNCHANGED <<job, store, used, deletes, version, fresh>>

\* The recursion has gone deeper than any of the jobs is nested: it does not
\* come back, the goroutine's stack grows until the process dies.
Runaway ==
    /\ phase = "dereference"
    /\ todo # <<>>
    /\ Len(here.path) > MaxDepth
    /\ phase' = "runaway"
    /\ UNCHANGED <<job, store, used, deletes, todo, parts, version, result, origin, fresh>>

Dereferenced ==
    /\ phase = "dereference"
    /\ todo = <<>>
    /\ phase' = "transpile"
    /\ UNCHANGED <<job, store, used, deletes, todo, parts, version, result, origin, fresh>>

Transpile ==
    /\ phase = "transpile"
    /\ result' = Translate(job, parts)
    /\ phase' = "done"
    /\ UNCHANGED <<job, store, used, deletes, todo, parts, version, origin, fresh>>

-----------------------------------------------------------------------------

Server ==
    Receive \/ DrefInline \/ getCRefVersion \/ GetComponent \/ Runaway
    \/ Dereferenced \/ Transpile

Users ==
    \E u \in DOMAIN store :
        \/ PutVersion(u)
        \/ PatchVersion(u)
        \/ \E v \in DOMAIN store[u] : DeleteVersion(u, v)

Terminated == Ended /\ UNCHANGED vars

Next == Server \/ Users \/ Terminated

\* The handler runs to its end: nothing it waits for depends on another user.
\* This is weak fairness of Server, which is enabled until the handler has ended.
Fairness == []<>Ended \/ []<><<Server>>_vars

Spec == Init /\ [][Next]_vars /\ Fairness

-----------------------------------------------------------------------------
(* Properties *)

TypeOK ==
    /\ DOMAIN store = DOMAIN job.docs
    /\ \A u \in DOMAIN store : /\ used[u] \in 0 .. Len(job.docs[u])
                              /\ \A v \in DOMAIN store[u] : /\ v \in 1 .. used[u]
                                                           /\ store[u][v] \in 1 .. used[u]
                              /\ fresh[u] \subseteq 1 .. used[u]
    /\ deletes \in 0 .. MaxDeletes
    /\ phase \in {"sent", "dereference", "find", "transpile", "done", "refused", "runaway"}
    /\ \A k \in DOMAIN todo : todo[k].node.form \in NodeForms
    /\ \A path \in DOMAIN parts : parts[path].impl.kind \in {"brick", "graph", "map"}
    /\ version \in Nat
    /\ phase = "refused" => result.out \in {"not found", "not implemented"}
    /\ ~Ended => result = Stop("none")

\* Component c, fetched as origin[path] says, is the one that node n holds or
\* names: the version asked for, or a content that was the newest at some moment
\* since the job came.
StandsFor(c, n, path) ==
    IF n.form = "inline" THEN c = n.cmp
    ELSE /\ path \in DOMAIN origin
         /\ LET o == origin[path]
            IN  /\ o.uid = n.uid
                /\ c = Loaded(job.docs[o.uid][o.content])
                /\ IF Unversioned(n) THEN o.content \in fresh[o.uid]
                   ELSE o.version = n.version

\* What is translated is the whole job: the component it was sent with and, at
\* every node of every component at any depth, the component the node holds or
\* refers to, as it was stored while the job was dereferenced, whatever other
\* users did between the two queries of GetComponent.  And a component is only
\* not found if the reference names none, the version asked for is gone, or
\* without a version there was none at first or one was deleted meanwhile.
ReferencesResolved ==
    /\ \A path \in DOMAIN parts : \A k \in DOMAIN NodesOf(parts[path]) :
          /\ phase = "transpile" => Append(path, k) \in DOMAIN parts
          /\ Append(path, k) \in DOMAIN parts =>
                StandsFor(parts[Append(path, k)], NodesOf(parts[path])[k].node, Append(path, k))
    /\ (phase = "transpile" /\ job.entry = "server") =>
          <<>> \in DOMAIN parts /\ parts[<<>>] = Received(job.root)
    /\ (phase = "refused" /\ result.out = "not found") =>
          LET u == here.node.uid
          IN  \/ u \notin DOMAIN job.docs
              \/ IF Unversioned(here.node) THEN job.stored[u] = 0 \/ deletes > 0
                 ELSE here.node.version \notin DOMAIN store[u]

=============================================================================
