-------------------------- MODULE DereferenceProofs --------------------------
(***************************************************************************)
(* Theorems about Dereference, for every job, every set of documents,      *)
(* every interleaving with other users, and every way to read documents    *)
(* and to translate the result.                                            *)
(***************************************************************************)
EXTENDS Dereference, SequenceTheorems, WellFoundedInduction, TLAPS

-----------------------------------------------------------------------------
(* The inductive invariant *)

\* The nodes of a job, and what may be in todo.
NodesIn(j) ==
    {InlineNode(c) : c \in Components(j)}
    \cup UNION {{NodesOf(c)[k].node : k \in DOMAIN NodesOf(c)} : c \in Components(j)}

Entries(j) == [path : Seq(Nat), node : NodesIn(j)]

RootEntry == [path |-> <<>>, node |-> InlineNode(Received(job.root))]

\* Contents and versions are within bounds, and the newest is a fresh one.
StoreInv ==
    /\ job \in Jobs
    /\ deletes \in 0 .. MaxDeletes
    /\ DOMAIN store = DOMAIN job.docs
    /\ DOMAIN used = DOMAIN job.docs
    /\ DOMAIN fresh = DOMAIN job.docs
    /\ \A u \in DOMAIN store :
          /\ used[u] \in 0 .. Len(job.docs[u])
          /\ fresh[u] \subseteq 1 .. used[u]
          /\ \A v \in DOMAIN store[u] : v \in 1 .. used[u] /\ store[u][v] \in 1 .. used[u]
          /\ \A v \in DOMAIN store[u] :
                (\A w \in DOMAIN store[u] : w <= v) => store[u][v] \in fresh[u]
          /\ (deletes = 0 /\ job.stored[u] # 0) => DOMAIN store[u] # {}

\* The parts are a tree, of which todo is the fringe.
TreeInv ==
    /\ todo \in Seq(Entries(job))
    /\ \A p \in DOMAIN parts :
          /\ p \in Seq(Nat)
          /\ parts[p] \in Components(job)
          /\ parts[p].impl.kind \in {"brick", "graph", "map"}
          /\ p = <<>> => parts[p] = Received(job.root)
          /\ p # <<>> => \E q \in DOMAIN parts : \E k \in DOMAIN NodesOf(parts[q]) :
                            p = Append(q, k)
    /\ \A a \in DOMAIN todo :
          /\ todo[a].path \notin DOMAIN parts
          /\ \/ todo = <<RootEntry>> /\ DOMAIN parts = {}
             \/ \E q \in DOMAIN parts : \E k \in DOMAIN NodesOf(parts[q]) :
                   todo[a].path = Append(q, k) /\ todo[a].node = NodesOf(parts[q])[k].node
    /\ \A a, b \in DOMAIN todo : todo[a].path = todo[b].path => a = b

\* Every node of a part has its own part, or is in todo.
FringeInv ==
    /\ \A p \in DOMAIN parts : \A k \in DOMAIN NodesOf(parts[p]) :
          \/ Append(p, k) \in DOMAIN parts
          \/ \E a \in DOMAIN todo : todo[a].path = Append(p, k)
    /\ (phase \in {"dereference", "find", "transpile"} /\ job.entry = "server") =>
          todo = <<RootEntry>> \/ <<>> \in DOMAIN parts

\* What the parts were made from.
ResolvedInv ==
    /\ \A p \in DOMAIN origin : origin[p].uid \in DOMAIN job.docs
    /\ \A p \in DOMAIN parts : \A k \in DOMAIN NodesOf(parts[p]) :
          Append(p, k) \in DOMAIN parts =>
              StandsFor(parts[Append(p, k)], NodesOf(parts[p])[k].node, Append(p, k))

\* Between the two queries of GetComponent: what the second will find.
FindInv ==
    phase = "find" =>
        LET n == here.node
            u == n.uid
        IN  /\ todo # <<>>
            /\ n.form \in {"reference", "version"}
            /\ version \in Nat
            /\ ~Unversioned(n) => version = n.version
            /\ (Unversioned(n) /\ u \in DOMAIN store) =>
                  /\ \A v \in DOMAIN store[u] : version \in {0, v} => store[u][v] \in fresh[u]
                  /\ (deletes = 0 /\ job.stored[u] # 0) => version \in DOMAIN store[u]

\* Where the handler is.
PhaseInv ==
    /\ phase \in {"sent", "dereference", "find", "transpile", "done", "refused", "runaway"}
    /\ version \in Nat
    /\ phase = "sent" => todo = <<>> /\ DOMAIN parts = {}
    /\ phase = "transpile" => todo = <<>>
    /\ ~Ended => result = Stop("none")
    /\ phase = "refused" => result.out \in {"not found", "not implemented"}
    /\ (phase = "refused" /\ result.out = "not found") =>
          LET u == here.node.uid
          IN  \/ u \notin DOMAIN job.docs
              \/ IF Unversioned(here.node) THEN job.stored[u] = 0 \/ deletes > 0
                 ELSE here.node.version \notin DOMAIN store[u]

Inv == StoreInv /\ TreeInv /\ FringeInv /\ ResolvedInv /\ FindInv /\ PhaseInv

-----------------------------------------------------------------------------
(* Versions *)

(***************************************************************************)
(* A nonempty, bounded set of naturals has a greatest element: the least   *)
(* element of the set of distances from the bound.                         *)
(***************************************************************************)
LEMMA GreatestExists ==
    ASSUME NEW T \in SUBSET Nat, T # {},
           NEW b \in Nat, \A v \in T : v <= b
    PROVE  \E m \in T : \A v \in T : v <= m
<1> DEFINE Gap == {b - v : v \in T}
<1>1. Gap \in SUBSET Nat /\ Gap # {}
  <2>1. \A v \in T : v \in Nat /\ b - v \in Nat
    OBVIOUS
  <2>2. Gap \in SUBSET Nat
    BY <2>1
  <2>3. PICK v \in T : TRUE
    OBVIOUS
  <2>4. b - v \in Gap
    BY <2>3
  <2> QED BY <2>2, <2>4
<1> DEFINE Less == {p \in Nat \X Nat : p[1] < p[2]}
<1>2. PICK g \in Gap : \A h \in Gap : ~(<<h, g>> \in Less)
  <2>1. IsWellFoundedOn(Less, Nat)
    BY NatLessThanWellFounded, Zenon DEF OpToRel
  <2> HIDE DEF Less, Gap
  <2> QED BY <1>1, <2>1, WFMin
<1>3. \A h \in Gap : g <= h
  <2> TAKE h \in Gap
  <2>1. g \in Nat /\ h \in Nat
    BY <1>1
  <2>2. h < g => <<h, g>> \in Less
    BY <2>1
  <2> QED BY <1>2, <2>1, <2>2
<1>4. PICK m \in T : g = b - m
  OBVIOUS
<1>5. \A v \in T : v <= m
  <2> TAKE v \in T
  <2>1. b - v \in Gap
    OBVIOUS
  <2> HIDE DEF Gap
  <2> QED BY <2>1, <1>3, <1>4
<1> QED BY <1>5

\* GetLatestVersion of a component with versions up to b.
LEMMA LatestVersion ==
    ASSUME NEW st, NEW u \in DOMAIN st, NEW b \in Nat, DOMAIN st[u] \subseteq 1 .. b
    PROVE  /\ DOMAIN st[u] = {} => GetLatestVersion(st, u) = 0
           /\ DOMAIN st[u] # {} =>
                 /\ GetLatestVersion(st, u) \in DOMAIN st[u]
                 /\ \A w \in DOMAIN st[u] : w <= GetLatestVersion(st, u)
<1>1. CASE DOMAIN st[u] = {}
  BY <1>1 DEF GetLatestVersion
<1>2. CASE DOMAIN st[u] # {}
  <2>1. \E m \in DOMAIN st[u] : \A v \in DOMAIN st[u] : v <= m
    <3>1. DOMAIN st[u] \in SUBSET Nat /\ \A v \in DOMAIN st[u] : v <= b
      OBVIOUS
    <3> QED BY <3>1, <1>2, GreatestExists, Zenon
  <2> QED BY <2>1, <1>2, Zenon DEF GetLatestVersion
<1> QED BY <1>1, <1>2

-----------------------------------------------------------------------------
(* Components, nodes and paths *)

\* The nodes of a component of the job are a sequence.
LEMMA NodesTyped ==
    ASSUME NEW j \in Jobs, NEW c \in Components(j)
    PROVE  /\ c.impl.kind \in Kinds
           /\ Len(NodesOf(c)) \in Nat
           /\ DOMAIN NodesOf(c) = 1 .. Len(NodesOf(c))
           /\ \A k \in DOMAIN NodesOf(c) : NodesOf(c)[k].node \in NodesIn(j)
           /\ InlineNode(c) \in NodesIn(j)
<1>1. /\ c.impl.kind \in Kinds
      /\ Len(NodesOf(c)) \in Nat
      /\ DOMAIN NodesOf(c) = 1 .. Len(NodesOf(c))
  BY ComponentsAssumption, Zenon
<1>2. \A k \in DOMAIN NodesOf(c) : NodesOf(c)[k].node \in NodesIn(j)
  <2> DEFINE Own(d) == {NodesOf(d)[k].node : k \in DOMAIN NodesOf(d)}
  <2>1. \A k \in DOMAIN NodesOf(c) : NodesOf(c)[k].node \in Own(c)
    OBVIOUS
  <2>2. Own(c) \subseteq UNION {Own(d) : d \in Components(j)}
    <3> HIDE DEF Own
    <3> QED OBVIOUS
  <2> QED BY <2>1, <2>2 DEF NodesIn
<1>3. InlineNode(c) \in NodesIn(j)
  BY Zenon DEF NodesIn
<1> QED BY <1>1, <1>2, <1>3

\* What a node of the job holds or refers to.
LEMMA NodeFacts ==
    ASSUME NEW j \in Jobs, NEW n \in NodesIn(j)
    PROVE  /\ n.form \in NodeForms
           /\ n.form = "inline" => n.cmp \in Components(j)
           /\ n.form = "version" => n.version \in Nat
<1>1. CASE \E c \in Components(j) : n = InlineNode(c)
  BY <1>1 DEF InlineNode, NodeForms
<1>2. CASE \E c \in Components(j) : \E k \in DOMAIN NodesOf(c) : n = NodesOf(c)[k].node
  BY <1>2, ComponentsAssumption, Zenon
<1> QED BY <1>1, <1>2, Zenon DEF NodesIn

\* Appending to a path tells paths apart.
LEMMA Paths ==
    ASSUME NEW p \in Seq(Nat), NEW k \in Nat
    PROVE  /\ Append(p, k) \in Seq(Nat)
           /\ Append(p, k) # <<>>
           /\ Append(p, k) # p
           /\ \A q \in Seq(Nat) : \A i \in Nat : Append(p, k) = Append(q, i) => p = q /\ k = i
<1>1. Append(p, k) \in Seq(Nat) /\ Len(Append(p, k)) = Len(p) + 1 /\ Len(p) \in Nat
  OBVIOUS
<1>2. Append(p, k) # <<>> /\ Append(p, k) # p
  BY <1>1
<1>3. \A q \in Seq(Nat) : \A i \in Nat : Append(p, k) = Append(q, i) => p = q /\ k = i
  BY AppendInjective
<1> QED BY <1>1, <1>2, <1>3

\* What Traverse puts in front of todo.
LEMMA BelowTyped ==
    ASSUME NEW j \in Jobs, NEW c \in Components(j), NEW p \in Seq(Nat)
    PROVE  /\ Below(p, c) \in Seq(Entries(j))
           /\ Len(Below(p, c)) = Len(NodesOf(c))
           /\ \A k \in DOMAIN NodesOf(c) :
                 /\ Below(p, c)[k].path = Append(p, k)
                 /\ Below(p, c)[k].node = NodesOf(c)[k].node
<1> DEFINE n == Len(NodesOf(c))
<1>1. n \in Nat /\ DOMAIN NodesOf(c) = 1 .. n
  BY NodesTyped
<1>2. \A k \in 1 .. n : [path |-> Append(p, k), node |-> NodesOf(c)[k].node] \in Entries(j)
  <2> TAKE k \in 1 .. n
  <2>1. Append(p, k) \in Seq(Nat)
    BY <1>1, Paths
  <2>2. NodesOf(c)[k].node \in NodesIn(j)
    BY <1>1, NodesTyped
  <2> QED BY <2>1, <2>2 DEF Entries
<1>3. Below(p, c) = [k \in 1 .. n |-> [path |-> Append(p, k), node |-> NodesOf(c)[k].node]]
  BY <1>1 DEF Below
<1> HIDE DEF n
<1>4. Below(p, c) \in Seq(Entries(j)) /\ Len(Below(p, c)) = n
  BY <1>1, <1>2, <1>3, IsASeq
<1>5. \A k \in 1 .. n : /\ Below(p, c)[k].path = Append(p, k)
                       /\ Below(p, c)[k].node = NodesOf(c)[k].node
  BY <1>3
<1> QED BY <1>1, <1>4, <1>5 DEF n

-----------------------------------------------------------------------------
(* Other users *)

\* A write that changes at most the newest version keeps what GetComponent will
\* find fresh.
LEMMA WritesStep ==
    ASSUME Inv, NEW u \in DOMAIN store, NEW st, Writes(u, st),
           DOMAIN used' = DOMAIN used,
           \A w \in DOMAIN store : used'[w] \in used[w] .. Len(job.docs[w]),
           deletes' \in deletes .. MaxDeletes,
           \A v \in DOMAIN st : v \in 1 .. used'[u] /\ st[v] \in 1 .. used'[u],
           \A v \in DOMAIN st : \/ v \in DOMAIN store[u] /\ st[v] = store[u][v]
                                \/ \A w \in DOMAIN st : w <= v,
           deletes' = 0 => DOMAIN store[u] \subseteq DOMAIN st
    PROVE  Inv'
<1> DEFINE v == GetLatestVersion(store', u)
<1>1. /\ store' = [store EXCEPT ![u] = st]
      /\ fresh' = [fresh EXCEPT ![u] = IF v = 0 THEN @ ELSE @ \cup {st[v]}]
      /\ UNCHANGED <<job, phase, todo, parts, version, result, origin>>
      /\ ~Ended
  BY DEF Writes
<1>2. /\ DOMAIN store = DOMAIN job.docs /\ DOMAIN fresh = DOMAIN job.docs
      /\ DOMAIN used = DOMAIN job.docs /\ job \in Jobs
      /\ deletes \in Nat /\ MaxDeletes \in Nat
      /\ \A w \in DOMAIN store : used[w] \in Nat /\ Len(job.docs[w]) \in Nat
  <2>1. /\ DOMAIN store = DOMAIN job.docs /\ DOMAIN fresh = DOMAIN job.docs
        /\ DOMAIN used = DOMAIN job.docs /\ job \in Jobs
        /\ deletes \in Nat /\ MaxDeletes \in Nat
    BY JobsAssumption DEF Inv, StoreInv
  <2>2. \A w \in DOMAIN store : used[w] \in 0 .. Len(job.docs[w])
    BY DEF Inv, StoreInv
  <2> QED BY <2>1, <2>2
<1>3. /\ DOMAIN store' = DOMAIN store /\ store'[u] = st
      /\ \A w \in DOMAIN store : w # u => store'[w] = store[w]
  BY <1>1
<1>4. /\ DOMAIN fresh' = DOMAIN fresh
      /\ \A w \in DOMAIN store : w # u => fresh'[w] = fresh[w]
      /\ fresh'[u] = IF v = 0 THEN fresh[u] ELSE fresh[u] \cup {st[v]}
      /\ \A w \in DOMAIN store : fresh[w] \subseteq fresh'[w]
  <2> HIDE DEF v
  <2> QED BY <1>1, <1>2
<1>5. /\ used'[u] \in Nat
      /\ DOMAIN st = {} => v = 0
      /\ DOMAIN st # {} => v \in DOMAIN st /\ \A w \in DOMAIN st : w <= v
  <2>1. used'[u] \in Nat /\ DOMAIN store'[u] \subseteq 1 .. used'[u] /\ u \in DOMAIN store'
    BY <1>2, <1>3
  <2> QED BY <1>3, <2>1, LatestVersion
<1> HIDE DEF v
<1>6. \A x \in DOMAIN st : (\A w \in DOMAIN st : w <= x) => st[x] \in fresh'[u]
  <2> SUFFICES ASSUME NEW x \in DOMAIN st, \A w \in DOMAIN st : w <= x
               PROVE  st[x] \in fresh'[u]
    OBVIOUS
  <2>1. v \in 1 .. used'[u] /\ x \in 1 .. used'[u] /\ v <= x /\ x <= v
    BY <1>5
  <2>2. v = x /\ v # 0
    BY <2>1, <1>5
  <2> QED BY <2>2, <1>4
<1>7. StoreInv'
  <2>1. ASSUME NEW w \in DOMAIN store
        PROVE  /\ used'[w] \in 0 .. Len(job.docs[w])
               /\ fresh'[w] \subseteq 1 .. used'[w]
               /\ \A x \in DOMAIN store'[w] :
                     x \in 1 .. used'[w] /\ store'[w][x] \in 1 .. used'[w]
               /\ \A x \in DOMAIN store'[w] :
                     (\A y \in DOMAIN store'[w] : y <= x) => store'[w][x] \in fresh'[w]
               /\ (deletes' = 0 /\ job.stored[w] # 0) => DOMAIN store'[w] # {}
    <3>1. /\ used'[w] \in used[w] .. Len(job.docs[w])
          /\ used[w] \in Nat
          /\ fresh[w] \subseteq 1 .. used[w]
          /\ deletes' = 0 => deletes = 0
          /\ (deletes = 0 /\ job.stored[w] # 0) => DOMAIN store[w] # {}
      BY <1>2 DEF Inv, StoreInv
    <3>2. used'[w] \in 0 .. Len(job.docs[w]) /\ 1 .. used[w] \subseteq 1 .. used'[w]
      BY <3>1, <1>2
    <3>3. CASE w = u
      <4>1. fresh'[u] \subseteq 1 .. used'[u]
        BY <3>1, <3>2, <3>3, <1>4, <1>5
      <4> QED BY <3>1, <3>2, <3>3, <4>1, <1>3, <1>6
    <3>4. CASE w # u
      <4>1. store'[w] = store[w] /\ fresh'[w] = fresh[w]
        BY <3>4, <1>3, <1>4
      <4>2. /\ \A x \in DOMAIN store[w] : x \in 1 .. used[w] /\ store[w][x] \in 1 .. used[w]
            /\ \A x \in DOMAIN store[w] :
                  (\A y \in DOMAIN store[w] : y <= x) => store[w][x] \in fresh[w]
        BY DEF Inv, StoreInv
      <4> QED BY <3>1, <3>2, <4>1, <4>2
    <3> QED BY <3>3, <3>4
  <2>2. deletes' \in 0 .. MaxDeletes
    BY <1>2
  <2> QED BY <1>1, <1>2, <1>3, <1>4, <2>1, <2>2 DEF StoreInv
<1>8. TreeInv' /\ FringeInv'
  <2>1. RootEntry' = RootEntry
    BY <1>1 DEF RootEntry
  <2>2. TreeInv'
    BY <1>1, <2>1 DEF Inv, TreeInv
  <2>3. FringeInv'
    BY <1>1, <2>1 DEF Inv, FringeInv
  <2> QED BY <2>2, <2>3
<1>9. ResolvedInv'
  <2>1. ASSUME NEW c, NEW n, NEW p, \A q \in DOMAIN origin : origin[q].uid \in DOMAIN job.docs,
               StandsFor(c, n, p)
        PROVE  StandsFor(c, n, p)'
    BY <2>1, <1>1, <1>2, <1>4 DEF StandsFor, Unversioned
  <2> QED BY <2>1, <1>1 DEF Inv, ResolvedInv
<1>10. FindInv'
  <2> SUFFICES ASSUME phase = "find"
               PROVE  FindInv'
    BY <1>1 DEF FindInv
  <2> DEFINE n == here.node
  <2>1. here' = here
    BY <1>1 DEF here
  <2>2. /\ todo # <<>>
        /\ n.form \in {"reference", "version"}
        /\ version \in Nat
        /\ ~Unversioned(n) => version = n.version
        /\ (Unversioned(n) /\ n.uid \in DOMAIN store) =>
              /\ \A x \in DOMAIN store[n.uid] :
                    version \in {0, x} => store[n.uid][x] \in fresh[n.uid]
              /\ (deletes = 0 /\ job.stored[n.uid] # 0) => version \in DOMAIN store[n.uid]
    BY DEF Inv, FindInv
  <2> HIDE DEF n
  <2>3. ASSUME Unversioned(n), n.uid \in DOMAIN store
        PROVE  /\ \A x \in DOMAIN store'[n.uid] :
                     version \in {0, x} => store'[n.uid][x] \in fresh'[n.uid]
               /\ (deletes' = 0 /\ job.stored[n.uid] # 0) => version \in DOMAIN store'[n.uid]
    <3>1. deletes' = 0 => deletes = 0
      BY <1>2
    <3>2. CASE n.uid # u
      BY <2>2, <2>3, <3>1, <3>2, <1>3, <1>4
    <3>3. CASE n.uid = u
      BY <2>2, <2>3, <3>1, <3>3, <1>3, <1>4, <1>6
    <3> QED BY <3>2, <3>3
  <2> QED BY <2>1, <2>2, <2>3, <1>1, <1>3 DEF FindInv, n, Unversioned
<1>11. PhaseInv'
  <2>1. phase # "refused" /\ UNCHANGED <<phase, version, todo, parts, result>>
    BY <1>1 DEF Ended
  <2> QED BY <2>1 DEF Inv, PhaseInv, Ended
<1> QED BY <1>7, <1>8, <1>9, <1>10, <1>11 DEF Inv

\* PUT and PATCH write the newest version, DELETE is counted.
LEMMA UsersStep ==
    ASSUME Inv, Users
    PROVE  Inv'
<1>1. PICK u \in DOMAIN store : \/ PutVersion(u)
                                \/ PatchVersion(u)
                                \/ \E v \in DOMAIN store[u] : DeleteVersion(u, v)
  BY DEF Users
<1> DEFINE L == GetLatestVersion(store, u)
<1>2. /\ DOMAIN used = DOMAIN store
      /\ \A w \in DOMAIN store : used[w] \in 0 .. Len(job.docs[w])
      /\ \A v \in DOMAIN store[u] : v \in 1 .. used[u] /\ store[u][v] \in 1 .. used[u]
      /\ deletes \in 0 .. MaxDeletes /\ MaxDeletes \in Nat
  BY JobsAssumption DEF Inv, StoreInv
<1>3. /\ used[u] \in Nat
      /\ L \in 0 .. used[u] /\ \A w \in DOMAIN store[u] : w <= L
      /\ L # 0 => L \in DOMAIN store[u]
  <2>1. used[u] \in Nat /\ DOMAIN store[u] \subseteq 1 .. used[u]
    BY <1>2
  <2>2. /\ DOMAIN store[u] = {} => L = 0
        /\ DOMAIN store[u] # {} => L \in DOMAIN store[u] /\ \A w \in DOMAIN store[u] : w <= L
    BY <2>1, LatestVersion
  <2> HIDE DEF L
  <2> QED BY <2>1, <2>2
<1>4. ASSUME NewContent(u)
      PROVE  /\ DOMAIN used' = DOMAIN used
             /\ \A w \in DOMAIN store : used'[w] \in used[w] .. Len(job.docs[w])
             /\ used'[u] = used[u] + 1
             /\ deletes' \in deletes .. MaxDeletes
  BY <1>2, <1>4 DEF NewContent
<1> HIDE DEF L
<1>5. ASSUME NEW v \in 1 .. used[u] + 1, v >= L, NewContent(u),
             Writes(u, Put(store[u], v, used[u] + 1))
      PROVE  Inv'
  <2> DEFINE st == Put(store[u], v, used[u] + 1)
  <2>1. /\ DOMAIN st = DOMAIN store[u] \cup {v}
        /\ st[v] = used[u] + 1
        /\ \A z \in DOMAIN store[u] : z # v => st[z] = store[u][z]
    BY DEF Put
  <2> HIDE DEF st
  <2>2. \A x \in DOMAIN st : x \in 1 .. used'[u] /\ st[x] \in 1 .. used'[u]
    BY <1>2, <1>3, <1>4, <1>5, <2>1
  <2>3. \A w \in DOMAIN st : w <= v
    BY <1>2, <1>3, <1>5, <2>1
  <2>4. \A x \in DOMAIN st : \/ x \in DOMAIN store[u] /\ st[x] = store[u][x]
                             \/ \A w \in DOMAIN st : w <= x
    BY <2>1, <2>3
  <2>5. deletes' = 0 => DOMAIN store[u] \subseteq DOMAIN st
    BY <2>1
  <2>6. Writes(u, st)
    BY <1>5 DEF st
  <2> QED BY <1>4, <1>5, <2>2, <2>4, <2>5, <2>6, WritesStep
<1>6. CASE PutVersion(u)
  <2>1. NewContent(u) /\ Writes(u, Put(store[u], L + 1, used[u] + 1))
    BY <1>6 DEF PutVersion, L
  <2>2. L + 1 \in 1 .. used[u] + 1 /\ L + 1 >= L
    BY <1>3
  <2> QED BY <1>5, <2>1, <2>2
<1>7. CASE PatchVersion(u)
  <2>1. L # 0 /\ NewContent(u) /\ Writes(u, Put(store[u], L, used[u] + 1))
    BY <1>7 DEF PatchVersion, L
  <2>2. L \in 1 .. used[u] + 1 /\ L >= L
    BY <1>3, <2>1
  <2> QED BY <1>5, <2>1, <2>2
<1>8. ASSUME NEW v \in DOMAIN store[u], DeleteVersion(u, v)
      PROVE  Inv'
  <2> DEFINE st == [w \in DOMAIN store[u] \ {v} |-> store[u][w]]
  <2>1. Writes(u, st) /\ used' = used /\ deletes' = deletes + 1 /\ deletes < MaxDeletes
    BY <1>8 DEF DeleteVersion
  <2>2. /\ DOMAIN st = DOMAIN store[u] \ {v}
        /\ \A x \in DOMAIN st : x \in DOMAIN store[u] /\ st[x] = store[u][x]
    OBVIOUS
  <2> HIDE DEF st
  <2>3. \A x \in DOMAIN st : x \in 1 .. used'[u] /\ st[x] \in 1 .. used'[u]
    BY <1>2, <2>1, <2>2
  <2>4. deletes' \in deletes .. MaxDeletes /\ deletes' # 0
    BY <1>2, <2>1
  <2>5. \A w \in DOMAIN store : used'[w] \in used[w] .. Len(job.docs[w])
    BY <1>2, <2>1
  <2> QED BY <2>1, <2>2, <2>3, <2>4, <2>5, WritesStep
<1> QED BY <1>1, <1>6, <1>7, <1>8

-----------------------------------------------------------------------------
(* Traversing *)

\* t has the nodes of c, at path p, in front of all but the first entry of s.
Spliced(t, p, c, s) ==
    /\ \A k \in DOMAIN NodesOf(c) :
          /\ k \in DOMAIN t
          /\ t[k].path = Append(p, k) /\ t[k].node = NodesOf(c)[k].node
    /\ \A a \in DOMAIN s : a # 1 => \E b \in DOMAIN t : t[b] = s[a]
    /\ \A b \in DOMAIN t :
          \/ b \in DOMAIN NodesOf(c)
          \/ /\ b > Len(NodesOf(c))
             /\ b - Len(NodesOf(c)) + 1 \in DOMAIN s
             /\ b - Len(NodesOf(c)) + 1 # 1
             /\ t[b] = s[b - Len(NodesOf(c)) + 1]

\* The entries of todo after Traverse.
LEMMA TodoAfter ==
    ASSUME NEW j \in Jobs, NEW c \in Components(j), NEW p \in Seq(Nat),
           NEW s \in Seq(Entries(j)), s # <<>>
    PROVE  /\ Below(p, c) \o Tail(s) \in Seq(Entries(j))
           /\ Spliced(Below(p, c) \o Tail(s), p, c, s)
<1> DEFINE n == Len(NodesOf(c))
           e == Below(p, c)
           t == e \o Tail(s)
<1>1. n \in Nat /\ DOMAIN NodesOf(c) = 1 .. n
  BY NodesTyped
<1>2. /\ e \in Seq(Entries(j)) /\ Len(e) = n
      /\ \A k \in 1 .. n : e[k].path = Append(p, k) /\ e[k].node = NodesOf(c)[k].node
  BY <1>1, BelowTyped
<1>3. /\ Tail(s) \in Seq(Entries(j)) /\ Len(Tail(s)) = Len(s) - 1
      /\ \A i \in 1 .. Len(s) - 1 : Tail(s)[i] = s[i + 1]
  BY HeadTailProperties
<1>4. Len(s) \in Nat /\ DOMAIN s = 1 .. Len(s) /\ Len(s) # 0
  BY EmptySeq, LenProperties
<1> HIDE DEF n, e, t
<1>5. /\ t \in Seq(Entries(j))
      /\ DOMAIN t = 1 .. n + (Len(s) - 1)
      /\ \A i \in 1 .. n : t[i] = e[i]
      /\ \A i \in 1 .. Len(s) - 1 : t[n + i] = s[i + 1]
  <2> DEFINE r == Tail(s)
  <2>1. t = e \o r
    BY DEF t
  <2>2. e \in Seq(Entries(j)) /\ r \in Seq(Entries(j))
    BY <1>2, <1>3
  <2>3. Len(e) = n /\ Len(r) = Len(s) - 1 /\ \A i \in 1 .. Len(s) - 1 : r[i] = s[i + 1]
    BY <1>2, <1>3
  <2> HIDE DEF r
  <2>4. /\ t \in Seq(Entries(j))
        /\ Len(t) = Len(e) + Len(r)
        /\ \A i \in 1 .. Len(e) + Len(r) : t[i] = IF i <= Len(e) THEN e[i] ELSE r[i - Len(e)]
    BY <2>1, <2>2, ConcatProperties, Zenon
  <2>5. DOMAIN t = 1 .. n + (Len(s) - 1)
    BY <2>3, <2>4, LenProperties
  <2>6. \A i \in 1 .. n + (Len(s) - 1) : t[i] = IF i <= n THEN e[i] ELSE r[i - n]
    BY <2>3, <2>4, Zenon
  <2>7. ASSUME NEW i \in 1 .. n
        PROVE  t[i] = e[i]
    <3>1. i \in 1 .. n + (Len(s) - 1) /\ i <= n
      BY <1>1, <1>4
    <3> QED BY <2>6, <3>1, Zenon
  <2>8. ASSUME NEW i \in 1 .. Len(s) - 1
        PROVE  t[n + i] = s[i + 1]
    <3>1. n + i \in 1 .. n + (Len(s) - 1) /\ ~(n + i <= n) /\ (n + i) - n = i
      BY <1>1, <1>4
    <3>2. t[n + i] = r[(n + i) - n]
      BY <3>1, <2>6
    <3> QED BY <3>1, <3>2, <2>3
  <2> QED BY <2>4, <2>5, <2>7, <2>8
<1>6. \A k \in 1 .. n : /\ k \in DOMAIN t
                        /\ t[k].path = Append(p, k) /\ t[k].node = NodesOf(c)[k].node
  <2> TAKE k \in 1 .. n
  <2>1. k \in DOMAIN t
    BY <1>1, <1>4, <1>5
  <2>2. t[k] = e[k]
    BY <1>5
  <2> QED BY <2>1, <2>2, <1>2, Zenon
<1>7. \A a \in DOMAIN s : a # 1 => \E b \in DOMAIN t : t[b] = s[a]
  <2> SUFFICES ASSUME NEW a \in DOMAIN s, a # 1
               PROVE  n + (a - 1) \in DOMAIN t /\ t[n + (a - 1)] = s[a]
    BY Zenon
  <2>1. n + (a - 1) \in DOMAIN t /\ a - 1 \in 1 .. Len(s) - 1 /\ (a - 1) + 1 = a
    BY <1>1, <1>4, <1>5
  <2> QED BY <2>1, <1>5
<1>8. ASSUME NEW b \in DOMAIN t, b \notin 1 .. n
      PROVE  b > n /\ b - n + 1 \in DOMAIN s /\ b - n + 1 # 1 /\ t[b] = s[b - n + 1]
  <2>1. b \in Nat /\ b > n /\ b - n \in 1 .. Len(s) - 1 /\ n + (b - n) = b
    BY <1>1, <1>4, <1>5, <1>8
  <2>2. t[n + (b - n)] = s[(b - n) + 1]
    BY <2>1, <1>5
  <2> QED BY <2>1, <2>2, <1>1, <1>4
<1>9. Spliced(t, p, c, s)
  BY <1>1, <1>6, <1>7, <1>8 DEF n, Spliced
<1> QED BY <1>5, <1>9 DEF t, e

\* Where todo begins: at the root, or at a node of a part.
LEMMA HereFacts ==
    ASSUME Inv, todo # <<>>
    PROVE  /\ here = todo[1] /\ 1 \in DOMAIN todo
           /\ here.path \in Seq(Nat) /\ here.node \in NodesIn(job)
           /\ here.path \notin DOMAIN parts
           /\ \/ /\ todo = <<RootEntry>> /\ DOMAIN parts = {}
                 /\ here.path = <<>> /\ here.node = InlineNode(Received(job.root))
              \/ \E q \in DOMAIN parts : \E k \in DOMAIN NodesOf(parts[q]) :
                    here.path = Append(q, k) /\ here.node = NodesOf(parts[q])[k].node
<1>1. todo \in Seq(Entries(job))
  BY DEF Inv, TreeInv
<1>2. here = todo[1] /\ 1 \in DOMAIN todo /\ todo[1] \in Entries(job)
  BY <1>1 DEF here
<1>3. here.path \in Seq(Nat) /\ here.node \in NodesIn(job)
  BY <1>2 DEF Entries
<1>4. /\ here.path \notin DOMAIN parts
      /\ \/ todo = <<RootEntry>> /\ DOMAIN parts = {}
         \/ \E q \in DOMAIN parts : \E k \in DOMAIN NodesOf(parts[q]) :
               here.path = Append(q, k) /\ here.node = NodesOf(parts[q])[k].node
  <2>1. \A a \in DOMAIN todo :
           /\ todo[a].path \notin DOMAIN parts
           /\ \/ todo = <<RootEntry>> /\ DOMAIN parts = {}
              \/ \E q \in DOMAIN parts : \E k \in DOMAIN NodesOf(parts[q]) :
                    todo[a].path = Append(q, k) /\ todo[a].node = NodesOf(parts[q])[k].node
    BY DEF Inv, TreeInv
  <2> QED BY <1>2, <2>1, Zenon
<1>5. todo = <<RootEntry>> => here.path = <<>> /\ here.node = InlineNode(Received(job.root))
  BY <1>2 DEF RootEntry
<1> QED BY <1>2, <1>3, <1>4, <1>5

\* Paths below a path that has no part yet are not in use.
LEMMA NewPaths ==
    ASSUME Inv, NEW p \in Seq(Nat), p \notin DOMAIN parts, NEW k \in Nat
    PROVE  /\ Append(p, k) \notin DOMAIN parts
           /\ \A q \in DOMAIN parts : \A i \in DOMAIN NodesOf(parts[q]) : Append(q, i) # Append(p, k)
<1>1. ASSUME NEW q \in DOMAIN parts, NEW i \in DOMAIN NodesOf(parts[q])
      PROVE  Append(q, i) # Append(p, k)
  <2>1. q \in Seq(Nat) /\ parts[q] \in Components(job) /\ job \in Jobs
    BY DEF Inv, TreeInv, StoreInv
  <2>2. i \in Nat
    BY <2>1, NodesTyped
  <2>3. q # p
    OBVIOUS
  <2> QED BY <2>1, <2>2, <2>3, Paths
<1>2. Append(p, k) # <<>>
  BY Paths
<1>3. Append(p, k) \in DOMAIN parts =>
          \E q \in DOMAIN parts : \E i \in DOMAIN NodesOf(parts[q]) : Append(p, k) = Append(q, i)
  BY <1>2, Zenon DEF Inv, TreeInv
<1> QED BY <1>1, <1>3

\* A step that does not traverse.
LEMMA TreeUnchanged ==
    ASSUME TreeInv, UNCHANGED <<job, todo, parts>>
    PROVE  TreeInv'
<1>1. RootEntry' = RootEntry
  BY DEF RootEntry
<1> QED BY <1>1 DEF TreeInv

\* A step that fetches nothing.
LEMMA ResolvedUnchanged ==
    ASSUME ResolvedInv, UNCHANGED <<job, parts, origin, fresh>>
    PROVE  ResolvedInv'
BY DEF ResolvedInv, StandsFor, Unversioned

\* The component at the head of todo becomes a part, its nodes join the fringe.
LEMMA TraverseStep ==
    ASSUME Inv, phase \in {"dereference", "find"}, todo # <<>>,
           NEW c \in Components(job), Traverse(c),
           UNCHANGED <<job, store, used, deletes, version, fresh>>,
           NEW P, P = here.path, NEW n, n = here.node,
           \A p \in DOMAIN origin' : origin'[p].uid \in DOMAIN job.docs,
           \A p \in DOMAIN parts \cap DOMAIN origin :
               p \in DOMAIN origin' /\ origin'[p] = origin[p],
           StandsFor(c, n, P)'
    PROVE  Inv'
<1>1. /\ here = todo[1] /\ 1 \in DOMAIN todo
      /\ P \in Seq(Nat) /\ n \in NodesIn(job) /\ P \notin DOMAIN parts
      /\ \/ /\ todo = <<RootEntry>> /\ DOMAIN parts = {}
            /\ P = <<>> /\ n = InlineNode(Received(job.root))
         \/ \E q \in DOMAIN parts : \E k \in DOMAIN NodesOf(parts[q]) :
               P = Append(q, k) /\ n = NodesOf(parts[q])[k].node
  BY HereFacts
<1>2. /\ job \in Jobs /\ todo \in Seq(Entries(job)) /\ ~Ended /\ result = Stop("none")
      /\ job' = job /\ version \in Nat
  BY DEF Inv, StoreInv, TreeInv, PhaseInv, Ended
<1>3. StoreInv'
  BY DEF Inv, StoreInv
<1>4. RootEntry' = RootEntry
  BY DEF RootEntry
<1>5. CASE End("not implemented")
  <2>1. /\ phase' = "refused" /\ result' = Stop("not implemented")
        /\ todo' = todo /\ parts' = parts
    BY <1>5 DEF End
  <2>2. TreeInv'
    BY <1>2, <2>1, TreeUnchanged DEF Inv
  <2>3. FringeInv'
    <3>1. /\ phase' \notin {"dereference", "find", "transpile"}
          /\ parts' = parts /\ todo' = todo
      BY <2>1
    <3>2. \A p \in DOMAIN parts : \A k \in DOMAIN NodesOf(parts[p]) :
             \/ Append(p, k) \in DOMAIN parts
             \/ \E a \in DOMAIN todo : todo[a].path = Append(p, k)
      BY DEF Inv, FringeInv
    <3>3. \A p \in DOMAIN parts' : \A k \in DOMAIN NodesOf(parts'[p]) :
             \/ Append(p, k) \in DOMAIN parts'
             \/ \E a \in DOMAIN todo' : todo'[a].path = Append(p, k)
      BY <3>1, <3>2
    <3> QED BY <3>1, <3>3 DEF FringeInv
  <2>4. ResolvedInv'
    <3>1. ASSUME NEW d, NEW m, NEW p \in DOMAIN parts, StandsFor(d, m, p)
          PROVE  StandsFor(d, m, p)'
      BY <3>1 DEF StandsFor, Unversioned
    <3> QED BY <2>1, <3>1, <1>2 DEF Inv, ResolvedInv
  <2>5. FindInv'
    BY <2>1 DEF FindInv
  <2>6. PhaseInv'
    BY <1>2, <2>1 DEF PhaseInv, Ended, Stop
  <2> QED BY <1>3, <2>2, <2>3, <2>4, <2>5, <2>6 DEF Inv
<1>6. CASE /\ c.impl.kind \in {"graph", "map", "brick"}
           /\ parts' = Put(parts, here.path, c)
           /\ todo' = Below(here.path, c) \o Tail(todo)
           /\ phase' = "dereference"
           /\ UNCHANGED result
  <2>1. /\ DOMAIN parts' = DOMAIN parts \cup {P}
        /\ parts'[P] = c
        /\ \A p \in DOMAIN parts : p # P /\ parts'[p] = parts[p]
    <3>1. parts' = Put(parts, P, c)
      BY <1>6
    <3>2. /\ DOMAIN Put(parts, P, c) = DOMAIN parts \cup {P}
          /\ Put(parts, P, c)[P] = c
          /\ \A p \in DOMAIN parts : p # P => Put(parts, P, c)[p] = parts[p]
      BY DEF Put
    <3>3. \A p \in DOMAIN parts : p # P
      BY <1>1
    <3> QED BY <3>1, <3>2, <3>3, Zenon
  <2> DEFINE N == Len(NodesOf(c))
  <2>2. /\ N \in Nat /\ DOMAIN NodesOf(c) = 1 .. N
        /\ todo' \in Seq(Entries(job))
        /\ \A k \in DOMAIN NodesOf(c) :
              /\ k \in DOMAIN todo'
              /\ todo'[k].path = Append(P, k) /\ todo'[k].node = NodesOf(c)[k].node
        /\ \A a \in DOMAIN todo : a # 1 => \E b \in DOMAIN todo' : todo'[b] = todo[a]
        /\ \A b \in DOMAIN todo' :
              \/ b \in DOMAIN NodesOf(c)
              \/ /\ b > N /\ b - N + 1 \in DOMAIN todo /\ b - N + 1 # 1
                 /\ todo'[b] = todo[b - N + 1]
    <3>1. todo' = Below(P, c) \o Tail(todo)
      BY <1>6
    <3>2. N \in Nat /\ DOMAIN NodesOf(c) = 1 .. N
      BY <1>2, NodesTyped
    <3>3. P \in Seq(Nat) /\ job \in Jobs /\ todo \in Seq(Entries(job))
      BY <1>1, <1>2
    <3>4. todo' \in Seq(Entries(job)) /\ Spliced(todo', P, c, todo)
      BY <3>1, <3>3, TodoAfter
    <3> QED BY <3>2, <3>4, Zenon DEF Spliced
  <2> HIDE DEF N
  <2>3. \A k \in DOMAIN NodesOf(c) :
           /\ Append(P, k) \notin DOMAIN parts'
           /\ Append(P, k) \in Seq(Nat)
           /\ \A q \in DOMAIN parts : \A i \in DOMAIN NodesOf(parts[q]) : Append(q, i) # Append(P, k)
    <3> TAKE k \in DOMAIN NodesOf(c)
    <3>1. k \in Nat
      BY <2>2
    <3>2. Append(P, k) # P /\ Append(P, k) \in Seq(Nat)
      BY <1>1, <3>1, Paths
    <3> QED BY <1>1, <2>1, <3>1, <3>2, NewPaths
  <2>4. ASSUME NEW a \in DOMAIN todo, a # 1
        PROVE  /\ todo[a].path \notin DOMAIN parts'
               /\ \E q \in DOMAIN parts : \E k \in DOMAIN NodesOf(parts[q]) :
                     todo[a].path = Append(q, k) /\ todo[a].node = NodesOf(parts[q])[k].node
    <3>1. todo # <<RootEntry>>
      BY <2>4
    <3>2. todo[a].path # P
      BY <1>1, <2>4 DEF Inv, TreeInv
    <3>3. /\ todo[a].path \notin DOMAIN parts
          /\ \E q \in DOMAIN parts : \E k \in DOMAIN NodesOf(parts[q]) :
                todo[a].path = Append(q, k) /\ todo[a].node = NodesOf(parts[q])[k].node
      BY <3>1, Zenon DEF Inv, TreeInv
    <3> QED BY <2>1, <3>2, <3>3
  <2>5. \A p \in DOMAIN parts' :
           /\ p \in Seq(Nat)
           /\ parts'[p] \in Components(job)
           /\ parts'[p].impl.kind \in {"brick", "graph", "map"}
           /\ p = <<>> => parts'[p] = Received(job.root)
           /\ p # <<>> => \E q \in DOMAIN parts' : \E k \in DOMAIN NodesOf(parts'[q]) :
                             p = Append(q, k)
    <3> TAKE p \in DOMAIN parts'
    <3>1. CASE p \in DOMAIN parts
      <4>1. /\ p \in Seq(Nat)
            /\ parts[p] \in Components(job)
            /\ parts[p].impl.kind \in {"brick", "graph", "map"}
            /\ p = <<>> => parts[p] = Received(job.root)
            /\ p # <<>> => \E q \in DOMAIN parts : \E k \in DOMAIN NodesOf(parts[q]) :
                              p = Append(q, k)
        BY <3>1, Zenon DEF Inv, TreeInv
      <4>2. ASSUME NEW q \in DOMAIN parts, NEW k \in DOMAIN NodesOf(parts[q])
            PROVE  q \in DOMAIN parts' /\ k \in DOMAIN NodesOf(parts'[q])
        BY <2>1, Zenon
      <4> QED BY <3>1, <4>1, <4>2, <2>1, Zenon
    <3>2. CASE p = P
      <4>1. P = <<>> => c = Received(job.root)
        <5>1. \A q \in DOMAIN parts : \A k \in DOMAIN NodesOf(parts[q]) : Append(q, k) # <<>>
          <6> TAKE q \in DOMAIN parts
          <6> TAKE k \in DOMAIN NodesOf(parts[q])
          <6>1. q \in Seq(Nat) /\ parts[q] \in Components(job)
            BY DEF Inv, TreeInv
          <6>2. k \in Nat
            BY <1>2, <6>1, NodesTyped
          <6> QED BY <6>1, <6>2, Paths
        <5>2. P = <<>> => n = InlineNode(Received(job.root))
          BY <1>1, <5>1
        <5>3. n = InlineNode(Received(job.root)) => c = Received(job.root)
          BY DEF StandsFor, InlineNode
        <5> QED BY <5>2, <5>3
      <4>2. P # <<>> => \E q \in DOMAIN parts : \E k \in DOMAIN NodesOf(parts[q]) :
                           P = Append(q, k)
        BY <1>1, Zenon
      <4>3. ASSUME NEW q \in DOMAIN parts, NEW k \in DOMAIN NodesOf(parts[q])
            PROVE  q \in DOMAIN parts' /\ k \in DOMAIN NodesOf(parts'[q])
        BY <2>1, Zenon
      <4>4. P \in Seq(Nat) /\ c \in Components(job) /\ c.impl.kind \in {"brick", "graph", "map"}
        BY <1>1, <1>6
      <4> QED BY <3>2, <4>1, <4>2, <4>3, <4>4, <2>1, Zenon
    <3> QED BY <3>1, <3>2, <2>1
  <2>6. ASSUME NEW b \in DOMAIN todo'
        PROVE  /\ todo'[b].path \notin DOMAIN parts'
               /\ \E q \in DOMAIN parts' : \E k \in DOMAIN NodesOf(parts'[q]) :
                     todo'[b].path = Append(q, k) /\ todo'[b].node = NodesOf(parts'[q])[k].node
    <3>1. CASE b \in DOMAIN NodesOf(c)
      <4>1. /\ todo'[b].path = Append(P, b) /\ todo'[b].node = NodesOf(parts'[P])[b].node
            /\ P \in DOMAIN parts' /\ b \in DOMAIN NodesOf(parts'[P])
        BY <3>1, <2>1, <2>2
      <4> QED BY <3>1, <4>1, <2>3, Zenon
    <3>2. CASE b \notin DOMAIN NodesOf(c)
      <4>1. PICK a \in DOMAIN todo : a # 1 /\ todo'[b] = todo[a]
        BY <3>2, <2>2
      <4>2. PICK q \in DOMAIN parts : \E k \in DOMAIN NodesOf(parts[q]) :
                todo[a].path = Append(q, k) /\ todo[a].node = NodesOf(parts[q])[k].node
        BY <4>1, <2>4
      <4>3. q \in DOMAIN parts' /\ parts'[q] = parts[q]
        BY <2>1
      <4>4. \E k \in DOMAIN NodesOf(parts'[q]) :
               todo[a].path = Append(q, k) /\ todo[a].node = NodesOf(parts'[q])[k].node
        BY <4>2, <4>3, Zenon
      <4>5. todo[a].path \notin DOMAIN parts'
        BY <4>1, <2>4
      <4> QED BY <4>1, <4>3, <4>4, <4>5, Zenon
    <3> QED BY <3>1, <3>2
  <2>7. ASSUME NEW a \in DOMAIN todo', NEW b \in DOMAIN todo', todo'[a].path = todo'[b].path
        PROVE  a = b
    <3>1. ASSUME NEW x \in DOMAIN NodesOf(c), NEW y \in DOMAIN todo', y \notin DOMAIN NodesOf(c)
          PROVE  todo'[x].path # todo'[y].path
      <4>1. PICK z \in DOMAIN todo : z # 1 /\ todo'[y] = todo[z]
        BY <3>1, <2>2
      <4>2. PICK q \in DOMAIN parts : \E k \in DOMAIN NodesOf(parts[q]) : todo[z].path = Append(q, k)
        BY <4>1, <2>4
      <4>3. todo'[x].path = Append(P, x)
        BY <2>2
      <4>4. \A i \in DOMAIN NodesOf(parts[q]) : Append(q, i) # Append(P, x)
        BY <2>3
      <4> QED BY <4>1, <4>2, <4>3, <4>4
    <3>2. CASE a \in DOMAIN NodesOf(c) /\ b \in DOMAIN NodesOf(c)
      <4>1. Append(P, a) = Append(P, b) /\ a \in Nat /\ b \in Nat
        BY <3>2, <2>2, <2>7
      <4> QED BY <4>1, <1>1, Paths
    <3>3. CASE a \notin DOMAIN NodesOf(c) /\ b \notin DOMAIN NodesOf(c)
      <4>1. /\ a - N + 1 \in DOMAIN todo /\ b - N + 1 \in DOMAIN todo
            /\ todo'[a] = todo[a - N + 1] /\ todo'[b] = todo[b - N + 1]
        BY <3>3, <2>2
      <4>2. a - N + 1 = b - N + 1
        BY <4>1, <2>7 DEF Inv, TreeInv
      <4>3. a \in Nat /\ b \in Nat /\ N \in Nat
        BY <2>2, LenProperties
      <4> QED BY <4>2, <4>3
    <3> QED BY <3>1, <3>2, <3>3, <2>7
  <2>8. TreeInv'
    BY <1>2, <2>2, <2>5, <2>6, <2>7, Zenon DEF TreeInv
  <2>9. FringeInv'
    <3>1. ASSUME NEW p \in DOMAIN parts', NEW k \in DOMAIN NodesOf(parts'[p])
          PROVE  \/ Append(p, k) \in DOMAIN parts'
                 \/ \E a \in DOMAIN todo' : todo'[a].path = Append(p, k)
      <4>1. CASE p = P
        BY <4>1, <2>1, <2>2
      <4>2. CASE p \in DOMAIN parts
        <5>1. parts'[p] = parts[p] /\ k \in DOMAIN NodesOf(parts[p])
          BY <4>2, <2>1
        <5>2. \/ Append(p, k) \in DOMAIN parts
              \/ \E a \in DOMAIN todo : todo[a].path = Append(p, k)
          BY <4>2, <5>1, Zenon DEF Inv, FringeInv
        <5>3. ASSUME NEW a \in DOMAIN todo, todo[a].path = Append(p, k)
              PROVE  \/ Append(p, k) \in DOMAIN parts'
                     \/ \E b \in DOMAIN todo' : todo'[b].path = Append(p, k)
          <6>1. CASE a = 1
            BY <6>1, <5>3, <1>1, <2>1
          <6>2. CASE a # 1
            <7>1. PICK b \in DOMAIN todo' : todo'[b] = todo[a]
              BY <6>2, <2>2
            <7> QED BY <7>1, <5>3
          <6> QED BY <6>1, <6>2
        <5> QED BY <5>2, <5>3, <2>1
      <4> QED BY <4>1, <4>2, <2>1
    <3>2. job.entry = "server" => <<>> \in DOMAIN parts'
      <4>1. todo = <<RootEntry>> => P = <<>>
        BY <1>1 DEF RootEntry
      <4>2. job.entry = "server" => todo = <<RootEntry>> \/ <<>> \in DOMAIN parts
        BY Zenon DEF Inv, FringeInv
      <4> QED BY <4>1, <4>2, <2>1
    <3> QED BY <1>2, <3>1, <3>2, Zenon DEF FringeInv
  <2>10. ResolvedInv'
    <3>1. ASSUME NEW p \in DOMAIN parts', NEW k \in DOMAIN NodesOf(parts'[p]),
                 Append(p, k) \in DOMAIN parts',
                 NEW d, d = parts'[Append(p, k)],
                 NEW m, m = NodesOf(parts'[p])[k].node
          PROVE  StandsFor(d, m, Append(p, k))'
      <4>1. p \in DOMAIN parts
        BY <3>1, <2>1, <2>3
      <4>2. parts'[p] = parts[p] /\ k \in DOMAIN NodesOf(parts[p]) /\ m = NodesOf(parts[p])[k].node
        BY <3>1, <4>1, <2>1
      <4>3. CASE Append(p, k) \in DOMAIN parts
        <5>1. d = parts[Append(p, k)]
          BY <3>1, <4>3, <2>1
        <5>2. StandsFor(d, m, Append(p, k))
          BY <4>1, <4>2, <4>3, <5>1, Zenon DEF Inv, ResolvedInv
        <5> QED BY <5>2, <4>3 DEF StandsFor, Unversioned
      <4>4. CASE Append(p, k) = P
        <5>1. d = c
          BY <3>1, <4>4, <2>1
        <5>2. PICK q \in DOMAIN parts : \E i \in DOMAIN NodesOf(parts[q]) :
                  P = Append(q, i) /\ n = NodesOf(parts[q])[i].node
          BY <1>1, <4>1
        <5>3. PICK i \in DOMAIN NodesOf(parts[q]) : P = Append(q, i) /\ n = NodesOf(parts[q])[i].node
          BY <5>2
        <5>4. /\ p \in Seq(Nat) /\ parts[p] \in Components(job)
              /\ q \in Seq(Nat) /\ parts[q] \in Components(job)
          BY <4>1, <5>2 DEF Inv, TreeInv
        <5>5. k \in Nat /\ i \in Nat
          BY <1>2, <4>2, <5>3, <5>4, NodesTyped
        <5>6. p = q /\ k = i
          BY <4>4, <5>3, <5>4, <5>5, Paths
        <5>7. m = n
          BY <5>6, <5>3, <4>2
        <5> QED BY <4>4, <5>1, <5>7
      <4> QED BY <3>1, <4>3, <4>4, <2>1
    <3> QED BY <3>1, <1>2, Zenon DEF ResolvedInv
  <2>11. FindInv'
    BY <1>6 DEF FindInv
  <2>12. PhaseInv'
    BY <1>2, <1>6 DEF PhaseInv, Ended
  <2> QED BY <1>3, <2>8, <2>9, <2>10, <2>11, <2>12 DEF Inv
<1> QED BY <1>5, <1>6 DEF Traverse

-----------------------------------------------------------------------------
(* The steps of the handler *)

\* A job has just arrived.
LEMMA InitInv == Init => Inv
<1> SUFFICES ASSUME Init
             PROVE  Inv
  OBVIOUS
<1>1. /\ job \in Jobs /\ DOMAIN job.stored = DOMAIN job.docs
      /\ MaxDeletes \in Nat
      /\ \A u \in DOMAIN job.docs : job.stored[u] \in 0 .. Len(job.docs[u])
  BY JobsAssumption DEF Init
<1>2. StoreInv
  <2>1. ASSUME NEW u \in DOMAIN job.docs
        PROVE  /\ store[u] = [v \in 1 .. job.stored[u] |-> v]
               /\ used[u] = job.stored[u]
               /\ fresh[u] = {job.stored[u]} \ {0}
    BY DEF Init
  <2>2. ASSUME NEW u \in DOMAIN job.docs
        PROVE  /\ used[u] \in 0 .. Len(job.docs[u])
               /\ fresh[u] \subseteq 1 .. used[u]
               /\ \A v \in DOMAIN store[u] : v \in 1 .. used[u] /\ store[u][v] \in 1 .. used[u]
               /\ \A v \in DOMAIN store[u] :
                     (\A w \in DOMAIN store[u] : w <= v) => store[u][v] \in fresh[u]
               /\ job.stored[u] # 0 => DOMAIN store[u] # {}
    <3> DEFINE N == job.stored[u]
    <3>1. N \in Nat /\ N <= Len(job.docs[u])
      BY <1>1
    <3> HIDE DEF N
    <3>2. store[u] = [v \in 1 .. N |-> v] /\ used[u] = N /\ fresh[u] = {N} \ {0}
      BY <2>1 DEF N
    <3>3. DOMAIN store[u] = 1 .. N /\ \A v \in 1 .. N : store[u][v] = v
      BY <3>2
    <3>4. \A v \in 1 .. N : (\A w \in 1 .. N : w <= v) => v = N /\ v # 0
      BY <3>1
    <3>5. used[u] \in 0 .. Len(job.docs[u])
      BY <3>2, <1>1 DEF N
    <3>6. N # 0 => N \in 1 .. N
      BY <3>1
    <3> QED BY <3>1, <3>2, <3>3, <3>4, <3>5, <3>6 DEF N
  <2>3. /\ DOMAIN store = DOMAIN job.docs /\ DOMAIN used = DOMAIN job.docs
        /\ DOMAIN fresh = DOMAIN job.docs /\ deletes = 0
    BY <1>1 DEF Init
  <2>4. deletes \in 0 .. MaxDeletes
    BY <1>1, <2>3
  <2> QED BY <1>1, <2>2, <2>3, <2>4 DEF StoreInv
<1>3. todo = <<>> /\ DOMAIN parts = {} /\ DOMAIN origin = {} /\ phase = "sent" /\ version = 0
  BY DEF Init
<1>4. TreeInv
  <2>1. DOMAIN todo = {} /\ todo \in Seq(Entries(job))
    BY <1>3
  <2> QED BY <1>3, <2>1 DEF TreeInv
<1>5. FringeInv /\ ResolvedInv /\ FindInv
  BY <1>3 DEF FringeInv, ResolvedInv, FindInv
<1>6. PhaseInv
  BY <1>3 DEF Init, PhaseInv, Ended, Stop
<1> QED BY <1>2, <1>4, <1>5, <1>6 DEF Inv

\* The request is decoded: the root is all there is to do.
LEMMA ReceiveStep ==
    ASSUME Inv, Receive
    PROVE  Inv'
<1>1. /\ phase = "sent" /\ todo = <<>> /\ DOMAIN parts = {}
      /\ job \in Jobs /\ result = Stop("none") /\ version \in Nat
  BY DEF Inv, StoreInv, PhaseInv, Receive, Ended
<1>2. UNCHANGED <<job, store, used, deletes, parts, version, result, origin, fresh>>
  BY DEF Receive
<1>3. StoreInv'
  BY <1>2 DEF Inv, StoreInv
<1>4. ResolvedInv'
  BY <1>1, <1>2 DEF Inv, ResolvedInv
<1>5. CASE job.entry = "server"
  <2>1. todo' = <<RootEntry>> /\ phase' = "dereference"
    BY <1>5 DEF Receive, RootEntry
  <2>2. RootEntry \in Entries(job) /\ RootEntry' = RootEntry /\ RootEntry.path = <<>>
    <3>1. InlineNode(Received(job.root)) \in NodesIn(job)
      BY <1>1, ComponentsAssumption, NodesTyped
    <3>2. <<>> \in Seq(Nat)
      OBVIOUS
    <3> QED BY <3>1, <3>2, <1>2 DEF RootEntry, Entries
  <2>3. /\ todo' \in Seq(Entries(job)) /\ DOMAIN todo' = {1} /\ todo'[1] = RootEntry
    BY <2>1, <2>2
  <2>4. TreeInv'
    BY <1>1, <1>2, <2>1, <2>2, <2>3 DEF TreeInv
  <2>5. FringeInv' /\ FindInv'
    BY <1>1, <1>2, <2>1, <2>2 DEF FringeInv, FindInv
  <2>6. PhaseInv'
    BY <1>1, <1>2, <2>1 DEF PhaseInv, Ended
  <2> QED BY <1>3, <1>4, <2>4, <2>5, <2>6 DEF Inv
<1>6. CASE job.entry # "server"
  <2>1. todo' = todo /\ phase' = "transpile"
    BY <1>6 DEF Receive
  <2>2. TreeInv'
    BY <1>2, <2>1, TreeUnchanged DEF Inv
  <2>3. FringeInv' /\ FindInv'
    BY <1>1, <1>2, <1>6, <2>1 DEF FringeInv, FindInv
  <2>4. PhaseInv'
    BY <1>1, <1>2, <2>1 DEF PhaseInv, Ended
  <2> QED BY <1>3, <1>4, <2>2, <2>3, <2>4 DEF Inv
<1> QED BY <1>5, <1>6

\* A node that holds its component.
LEMMA DrefInlineStep ==
    ASSUME Inv, DrefInline
    PROVE  Inv'
<1>1. /\ phase = "dereference" /\ todo # <<>> /\ here.node.form = "inline"
      /\ Traverse(here.node.cmp)
      /\ UNCHANGED <<job, store, used, deletes, version, origin, fresh>>
  BY DEF DrefInline, Visiting
<1>2. here.node.cmp \in Components(job)
  BY <1>1, HereFacts, NodeFacts DEF Inv, StoreInv
<1>3. \A p \in DOMAIN origin' : origin'[p].uid \in DOMAIN job.docs
  BY <1>1 DEF Inv, ResolvedInv
<1>4. PICK c, n, P : c = here.node.cmp /\ n = here.node /\ P = here.path
  OBVIOUS
<1>5. StandsFor(c, n, P)'
  BY <1>1, <1>4 DEF StandsFor
<1> QED BY <1>1, <1>2, <1>3, <1>4, <1>5, TraverseStep

\* The first query of GetComponent.
LEMMA getCRefVersionStep ==
    ASSUME Inv, getCRefVersion
    PROVE  Inv'
<1> DEFINE n == here.node
           u == here.node.uid
           L == GetLatestVersion(store, u)
<1>1. /\ phase = "dereference" /\ todo # <<>> /\ n.form \in {"reference", "version"}
      /\ version' = IF Unversioned(n) THEN L ELSE n.version
      /\ phase' = "find"
      /\ UNCHANGED <<job, store, used, deletes, todo, parts, result, origin, fresh>>
  BY DEF getCRefVersion, Visiting
<1>2. here' = here
  BY <1>1 DEF here
<1>3. StoreInv'
  BY <1>1 DEF Inv, StoreInv
<1>4. TreeInv'
  BY <1>1, TreeUnchanged DEF Inv
<1>5. FringeInv'
  <2>1. RootEntry' = RootEntry
    BY <1>1 DEF RootEntry
  <2> QED BY <1>1, <2>1 DEF Inv, FringeInv
<1>6. ResolvedInv'
  BY <1>1 DEF Inv, ResolvedInv, StandsFor
<1>7. u \notin DOMAIN store => L = 0
  BY DEF GetLatestVersion
<1>8. ASSUME u \in DOMAIN store
      PROVE  /\ L \in Nat
             /\ \A v \in DOMAIN store[u] : L \in {0, v} => store[u][v] \in fresh[u]
             /\ (deletes = 0 /\ job.stored[u] # 0) => L \in DOMAIN store[u]
  <2>1. /\ used[u] \in Nat
        /\ \A v \in DOMAIN store[u] : v \in 1 .. used[u]
        /\ \A v \in DOMAIN store[u] :
              (\A w \in DOMAIN store[u] : w <= v) => store[u][v] \in fresh[u]
        /\ (deletes = 0 /\ job.stored[u] # 0) => DOMAIN store[u] # {}
    BY <1>8 DEF Inv, StoreInv
  <2>2. /\ DOMAIN store[u] = {} => L = 0
        /\ DOMAIN store[u] # {} => L \in DOMAIN store[u] /\ \A w \in DOMAIN store[u] : w <= L
    BY <1>8, <2>1, LatestVersion
  <2> HIDE DEF L, u
  <2> QED BY <2>1, <2>2
<1>9. ~Unversioned(n) => n.version \in Nat
  BY <1>1, HereFacts, NodeFacts DEF Inv, StoreInv, Unversioned
<1> HIDE DEF L
<1>10. version' \in Nat
  BY <1>1, <1>7, <1>8, <1>9
<1>11. FindInv'
  BY <1>1, <1>2, <1>8, <1>10 DEF FindInv, Unversioned
<1>12. PhaseInv'
  BY <1>1, <1>10 DEF Inv, PhaseInv, Ended
<1> QED BY <1>3, <1>4, <1>5, <1>6, <1>11, <1>12 DEF Inv

\* The second query of GetComponent.
LEMMA GetComponentStep ==
    ASSUME Inv, GetComponent
    PROVE  Inv'
<1> DEFINE u == here.node.uid
<1>1. /\ phase = "find"
      /\ UNCHANGED <<job, store, used, deletes, version, fresh>>
      /\ \/ Found(u) = {} /\ End("not found") /\ UNCHANGED origin
         \/ \E v \in Found(u) : Fetch(u, v)
  BY DEF GetComponent
<1>2. PICK n, P : n = here.node /\ P = here.path
  OBVIOUS
<1>3. /\ todo # <<>> /\ version \in Nat /\ DOMAIN store = DOMAIN job.docs /\ job \in Jobs
      /\ n.form \in {"reference", "version"} /\ u = n.uid
      /\ ~Unversioned(n) => version = n.version
      /\ (Unversioned(n) /\ u \in DOMAIN store) =>
            /\ \A v \in DOMAIN store[u] : version \in {0, v} => store[u][v] \in fresh[u]
            /\ (deletes = 0 /\ job.stored[u] # 0) => version \in DOMAIN store[u]
  BY <1>1, <1>2 DEF Inv, FindInv, StoreInv
<1>4. deletes \in Nat
  BY JobsAssumption DEF Inv, StoreInv
<1> HIDE DEF u
<1>5. CASE Found(u) = {} /\ End("not found") /\ UNCHANGED origin
  <2>1. /\ phase' = "refused" /\ result' = Stop("not found") /\ Found(u) = {}
        /\ UNCHANGED <<job, store, used, deletes, todo, parts, version, origin, fresh>>
    BY <1>1, <1>5 DEF End
  <2>2. here' = here
    BY <2>1 DEF here
  <2>3. StoreInv'
    BY <2>1 DEF Inv, StoreInv
  <2>4. TreeInv'
    BY <2>1, TreeUnchanged DEF Inv
  <2>5. FringeInv'
    <3>1. /\ phase' \notin {"dereference", "find", "transpile"}
          /\ parts' = parts /\ todo' = todo
      BY <2>1
    <3>2. \A p \in DOMAIN parts : \A k \in DOMAIN NodesOf(parts[p]) :
             \/ Append(p, k) \in DOMAIN parts
             \/ \E a \in DOMAIN todo : todo[a].path = Append(p, k)
      BY DEF Inv, FringeInv
    <3>3. \A p \in DOMAIN parts' : \A k \in DOMAIN NodesOf(parts'[p]) :
             \/ Append(p, k) \in DOMAIN parts'
             \/ \E a \in DOMAIN todo' : todo'[a].path = Append(p, k)
      BY <3>1, <3>2
    <3> QED BY <3>1, <3>3 DEF FringeInv
  <2>6. ResolvedInv'
    BY <2>1, ResolvedUnchanged DEF Inv
  <2>7. FindInv'
    BY <2>1 DEF FindInv
  <2>8. \/ u \notin DOMAIN job.docs
        \/ IF Unversioned(n) THEN job.stored[u] = 0 \/ deletes > 0
           ELSE n.version \notin DOMAIN store[u]
    <3> SUFFICES ASSUME u \in DOMAIN job.docs
                 PROVE  IF Unversioned(n) THEN job.stored[u] = 0 \/ deletes > 0
                        ELSE n.version \notin DOMAIN store[u]
      OBVIOUS
    <3>1. u \in DOMAIN store
      BY <1>3
    <3>2. version \notin DOMAIN store[u]
      <4>1. ASSUME version \in DOMAIN store[u]
            PROVE  version \in Found(u)
        BY <3>1, <4>1 DEF Found
      <4> QED BY <2>1, <4>1
    <3>3. CASE Unversioned(n)
      <4>1. deletes # 0 \/ job.stored[u] = 0
        BY <1>3, <3>1, <3>2, <3>3
      <4> QED BY <1>4, <3>3, <4>1
    <3>4. CASE ~Unversioned(n)
      BY <1>3, <3>2, <3>4
    <3> QED BY <3>3, <3>4
  <2>9. PhaseInv'
    <3>1. /\ result'.out = "not found" /\ here'.node = n /\ n.uid = u
          /\ Unversioned(n)' = Unversioned(n)
      BY <1>2, <1>3, <2>1, <2>2 DEF Stop, Unversioned
    <3> QED BY <1>3, <2>1, <2>8, <3>1 DEF PhaseInv, Ended, Unversioned
  <2> QED BY <2>3, <2>4, <2>5, <2>6, <2>7, <2>9 DEF Inv
<1>6. ASSUME NEW v \in Found(u), Fetch(u, v)
      PROVE  Inv'
  <2>1. u \in DOMAIN store /\ v \in DOMAIN store[u] /\ version \in {0, v}
    BY DEF Found
  <2> DEFINE o == [uid |-> u, version |-> v, content |-> store[u][v]]
  <2>2. PICK c : c = Loaded(job.docs[u][store[u][v]])
    OBVIOUS
  <2>3. origin' = Put(origin, P, o) /\ Traverse(c)
    BY <1>2, <1>6, <2>2 DEF Fetch
  <2>4. c \in Components(job)
    <3>1. store[u][v] \in 1 .. used[u] /\ used[u] \in 0 .. Len(job.docs[u])
      BY <2>1 DEF Inv, StoreInv
    <3>2. store[u][v] \in 1 .. Len(job.docs[u])
      BY <3>1
    <3> QED BY <1>3, <2>1, <2>2, <3>2, ComponentsAssumption
  <2>5. /\ DOMAIN origin' = DOMAIN origin \cup {P} /\ origin'[P] = o
        /\ \A p \in DOMAIN origin : p # P => origin'[p] = origin[p]
    <3> HIDE DEF o
    <3> QED BY <2>3 DEF Put
  <2>6. o.uid = u /\ o.version = v /\ o.content = store[u][v]
    OBVIOUS
  <2> HIDE DEF o
  <2>7. \A p \in DOMAIN origin' : origin'[p].uid \in DOMAIN job.docs
    BY <1>3, <2>1, <2>5, <2>6 DEF Inv, ResolvedInv
  <2>8. \A p \in DOMAIN parts \cap DOMAIN origin : p \in DOMAIN origin' /\ origin'[p] = origin[p]
    BY <1>2, <1>3, <2>5, HereFacts
  <2>9. StandsFor(c, n, P)'
    <3>1. Unversioned(n) => o.content \in fresh[u]
      BY <1>3, <2>1, <2>6
    <3>2. ~Unversioned(n) => o.version = n.version
      BY <1>3, <2>1, <2>6 DEF Unversioned
    <3>3. c = Loaded(job.docs[o.uid][o.content]) /\ o.uid = n.uid
      BY <1>3, <2>2, <2>6
    <3>4. n.form # "inline"
      BY <1>3
    <3> QED BY <1>1, <2>5, <2>6, <3>1, <3>2, <3>3, <3>4 DEF StandsFor, Unversioned
  <2> QED BY <1>1, <1>2, <1>3, <2>3, <2>4, <2>7, <2>8, <2>9, TraverseStep
<1> QED BY <1>1, <1>5, <1>6

\* The other steps leave what was dereferenced alone.
LEMMA FinalStep ==
    ASSUME Inv, Runaway \/ Dereferenced \/ Transpile \/ UNCHANGED vars
    PROVE  Inv'
<1>1. UNCHANGED <<job, store, used, deletes, todo, parts, version, origin, fresh>>
  BY DEF Runaway, Dereferenced, Transpile, vars
<1>2. here' = here /\ RootEntry' = RootEntry
  BY <1>1 DEF here, RootEntry
<1>3. StoreInv'
  BY <1>1 DEF Inv, StoreInv
<1>4. TreeInv'
  BY <1>1, TreeUnchanged DEF Inv
<1>5. ResolvedInv'
  BY <1>1 DEF Inv, ResolvedInv, StandsFor
<1>6. FringeInv'
  <2>1. phase' \in {"dereference", "find", "transpile"} =>
            phase \in {"dereference", "find", "transpile"}
    BY DEF Runaway, Dereferenced, Transpile, vars
  <2> QED BY <1>1, <1>2, <2>1 DEF Inv, FringeInv
<1>7. FindInv'
  <2>1. phase' = "find" => phase = "find"
    BY DEF Runaway, Dereferenced, Transpile, vars
  <2> QED BY <1>1, <1>2, <2>1 DEF Inv, FindInv, Unversioned
<1>8. PhaseInv'
  <2>1. CASE Runaway
    BY <1>1, <2>1 DEF Runaway, Inv, PhaseInv, Ended
  <2>2. CASE Dereferenced
    BY <1>1, <2>2 DEF Dereferenced, Inv, PhaseInv, Ended
  <2>3. CASE Transpile
    BY <1>1, <2>3 DEF Transpile, Inv, PhaseInv, Ended
  <2>4. CASE UNCHANGED vars
    BY <1>1, <1>2, <2>4 DEF vars, Inv, PhaseInv, Ended, Unversioned
  <2> QED BY <2>1, <2>2, <2>3, <2>4
<1> QED BY <1>3, <1>4, <1>5, <1>6, <1>7, <1>8 DEF Inv

\* The invariant is inductive.
LEMMA NextInv == Inv /\ [Next]_vars => Inv'
<1> SUFFICES ASSUME Inv, [Next]_vars
             PROVE  Inv'
  OBVIOUS
<1>1. \/ Receive \/ DrefInline \/ getCRefVersion \/ GetComponent \/ Users
      \/ Runaway \/ Dereferenced \/ Transpile \/ UNCHANGED vars
  BY DEF Next, Server, Terminated
<1> QED BY <1>1, ReceiveStep, DrefInlineStep, getCRefVersionStep, GetComponentStep, UsersStep,
           FinalStep

-----------------------------------------------------------------------------
(* Theorems *)

\* The type invariant: versions and contents within what users have sent, nodes
\* and components of the known types, an answer only at the end.
THEOREM DereferenceTypeCorrect == Spec => []TypeOK
<1>1. Inv => TypeOK
  <2> SUFFICES ASSUME Inv
               PROVE  TypeOK
    OBVIOUS
  <2>1. \A k \in DOMAIN todo : todo[k].node.form \in NodeForms
    <3> TAKE k \in DOMAIN todo
    <3>1. job \in Jobs /\ todo \in Seq(Entries(job))
      BY DEF Inv, StoreInv, TreeInv
    <3>2. todo[k] \in Entries(job)
      BY <3>1
    <3>3. todo[k].node \in NodesIn(job)
      BY <3>2 DEF Entries
    <3> QED BY <3>1, <3>3, NodeFacts
  <2>2. /\ DOMAIN store = DOMAIN job.docs
        /\ \A u \in DOMAIN store : /\ used[u] \in 0 .. Len(job.docs[u])
                                  /\ \A v \in DOMAIN store[u] : /\ v \in 1 .. used[u]
                                                               /\ store[u][v] \in 1 .. used[u]
                                  /\ fresh[u] \subseteq 1 .. used[u]
        /\ deletes \in 0 .. MaxDeletes
    BY DEF Inv, StoreInv
  <2>3. \A path \in DOMAIN parts : parts[path].impl.kind \in {"brick", "graph", "map"}
    BY Zenon DEF Inv, TreeInv
  <2>4. PhaseInv
    BY DEF Inv
  <2> QED BY <2>1, <2>2, <2>3, <2>4 DEF TypeOK, PhaseInv
<1> QED BY <1>1, InitInv, NextInv, PTL DEF Spec

\* What is translated is the job with the component it names at every node of
\* every component, however the two queries of GetComponent interleave with the
\* requests of other users, and a component is not found only for a reason
\* (DereferenceComponent, GetComponent).
THEOREM WholeJobResolved == Spec => []ReferencesResolved
<1>1. Inv => ReferencesResolved
  <2> SUFFICES ASSUME Inv
               PROVE  ReferencesResolved
    OBVIOUS
  <2>1. ASSUME NEW path \in DOMAIN parts, NEW k \in DOMAIN NodesOf(parts[path])
        PROVE  /\ phase = "transpile" => Append(path, k) \in DOMAIN parts
               /\ Append(path, k) \in DOMAIN parts =>
                     StandsFor(parts[Append(path, k)], NodesOf(parts[path])[k].node,
                               Append(path, k))
    <3>1. phase = "transpile" => DOMAIN todo = {}
      BY DEF Inv, PhaseInv
    <3>2. \/ Append(path, k) \in DOMAIN parts
          \/ \E a \in DOMAIN todo : todo[a].path = Append(path, k)
      BY Zenon DEF Inv, FringeInv
    <3>3. Append(path, k) \in DOMAIN parts =>
              StandsFor(parts[Append(path, k)], NodesOf(parts[path])[k].node, Append(path, k))
      BY Zenon DEF Inv, ResolvedInv
    <3> QED BY <3>1, <3>2, <3>3
  <2>2. (phase = "transpile" /\ job.entry = "server") =>
            <<>> \in DOMAIN parts /\ parts[<<>>] = Received(job.root)
    <3>1. phase = "transpile" => todo = <<>>
      BY DEF Inv, PhaseInv
    <3>2. <<>> # <<RootEntry>>
      OBVIOUS
    <3>3. (phase = "transpile" /\ job.entry = "server") => <<>> \in DOMAIN parts
      BY <3>1, <3>2, Zenon DEF Inv, FringeInv
    <3>4. <<>> \in DOMAIN parts => parts[<<>>] = Received(job.root)
      BY Zenon DEF Inv, TreeInv
    <3> QED BY <3>3, <3>4
  <2>3. PhaseInv
    BY DEF Inv
  <2> QED BY <2>1, <2>2, <2>3 DEF ReferencesResolved, PhaseInv
<1> QED BY <1>1, InitInv, NextInv, PTL DEF Spec

\* A node is dereferenced once: what stands at a path never changes again, however
\* the documents it came from change while the rest of the job is dereferenced
\* (traverseComponent puts a component in the place of a node and goes on below it).
DereferencedOnce ==
    [][\A p \in DOMAIN parts : p \in DOMAIN parts' /\ parts'[p] = parts[p]]_vars

\* No step of the handler or of another user replaces a component that has been
\* dereferenced already.
THEOREM EachNodeOnce == Spec => DereferencedOnce
<1>1. ASSUME Inv, [Next]_vars
      PROVE  [\A p \in DOMAIN parts : p \in DOMAIN parts' /\ parts'[p] = parts[p]]_vars
  <2> SUFFICES ASSUME Next, NEW p \in DOMAIN parts
               PROVE  p \in DOMAIN parts' /\ parts'[p] = parts[p]
    BY <1>1
  <2>1. ASSUME NEW c, Traverse(c), todo # <<>>
        PROVE  p \in DOMAIN parts' /\ parts'[p] = parts[p]
    <3>1. here.path # p
      BY <1>1, <2>1, HereFacts
    <3>2. parts' = parts \/ parts' = Put(parts, here.path, c)
      BY <2>1 DEF Traverse, End
    <3> QED BY <3>1, <3>2 DEF Put
  <2>2. CASE DrefInline
    BY <2>1, <2>2 DEF DrefInline, Visiting
  <2>3. CASE GetComponent
    <3>1. todo # <<>>
      BY <1>1, <2>3 DEF GetComponent, Inv, FindInv
    <3> QED BY <2>1, <2>3, <3>1 DEF GetComponent, Fetch, End
  <2>4. CASE Receive \/ getCRefVersion \/ Runaway \/ Dereferenced \/ Transpile
    BY <2>4 DEF Receive, getCRefVersion, Runaway, Dereferenced, Transpile
  <2>5. CASE Users
    BY <2>5 DEF Users, PutVersion, PatchVersion, DeleteVersion, Writes
  <2>6. CASE Terminated
    BY <2>6 DEF Terminated, vars
  <2> QED BY <2>2, <2>3, <2>4, <2>5, <2>6 DEF Next, Server
<1> QED BY <1>1, InitInv, NextInv, PTL DEF Spec, DereferencedOnce
=============================================================================
