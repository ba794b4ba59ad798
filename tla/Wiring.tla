------------------------------- MODULE Wiring -------------------------------
(***************************************************************************)
(* What the wiring of a component means, stated without an algorithm.  A   *)
(* component is a tree: the node n of the component at path p is at path   *)
(* p \o <<n>>.  Ports of the components in the tree are joined by wires    *)
(* (mappings, edges, the volume results of bricks), and what a port        *)
(* carries comes from the inputs of the root that it is reached from.      *)
(***************************************************************************)
EXTENDS Documents

In(path, p)  == [path |-> path, dir |-> "in", port |-> p]
Out(path, p) == [path |-> path, dir |-> "out", port |-> p]

\* Every component of the tree with its path.
RECURSIVE Occurrences(_, _)
Occurrences(path, c) ==
    {[path |-> path, cmp |-> c]}
    \cup UNION {Occurrences(Append(path, n.id), n.node.cmp) :
                   n \in {x \in ToSet(NodesOf(c)) : x.node.form = "inline"}}

Wire(a, b) == [source |-> a, target |-> b]

GraphWires(path, g) ==
    {Wire(In(path, m.source.port), In(Append(path, m.target.node), m.target.port)) :
        m \in ToSet(g.inMap)}
    \cup {Wire(Out(Append(path, e.source.node), e.source.port),
               In(Append(path, e.target.node), e.target.port)) : e \in ToSet(g.edges)}
    \cup {Wire(Out(Append(path, m.source.node), m.source.port), Out(path, m.target.port)) :
        m \in ToSet(g.outMap)}

\* Maps and conditionals: the mappings concern every node.
MappedWires(path, c) ==
    {Wire(In(path, m.source.port), In(Append(path, n.id), m.target.port)) :
        m \in ToSet(c.impl.inMap), n \in ToSet(NodesOf(c))}
    \cup {Wire(Out(Append(path, n.id), m.source.port), Out(path, m.target.port)) :
        m \in ToSet(c.impl.outMap), n \in ToSet(NodesOf(c))}

\* A volume leaves a brick where it entered.
BrickWires(path, b) ==
    {Wire(In(path, r.src.val), Out(path, r.port)) :
        r \in {x \in ToSet(b.results) : x.src.type = "volume"}}

WiresAt(o) ==
    CASE o.cmp.impl.kind = "graph" -> GraphWires(o.path, o.cmp.impl)
      [] o.cmp.impl.kind = "brick" -> BrickWires(o.path, o.cmp.impl)
      [] o.cmp.impl.kind \in {"map", "conditional"} -> MappedWires(o.path, o.cmp)
      [] OTHER -> {}

Wires(occ) == UNION {WiresAt(o) : o \in occ}

\* The ports that lead to those of the set, the set included.
RECURSIVE Upstream(_, _)
Upstream(wires, ports) ==
    LET more == ports \cup {w.source : w \in {x \in wires : x.target \in ports}}
    IN  IF more = ports THEN ports ELSE Upstream(wires, more)

\* The inputs of the root a port is reached from.
Origins(wires, port) ==
    {q.port : q \in {x \in Upstream(wires, {port}) : x.path = <<>> /\ x.dir = "in"}}

Cyclic(wires) == \E w \in wires : w.target \in Upstream(wires, {w.source})

\* At most one wire enters a port.
Unambiguous(wires) ==
    \A w, x \in wires : w.target = x.target => w.source = x.source

\* In no graph does a node depend on itself.
NoTaskCycle(occ) ==
    \A o \in occ : o.cmp.impl.kind = "graph" =>
        ~Cyclic({Wire(e.source.node, e.target.node) : e \in ToSet(o.cmp.impl.edges)})

UniqueUids(occ) == \A o, x \in occ : o.cmp.uid = x.cmp.uid => o = x

Declared(occ, port) ==
    \E o \in occ : /\ o.path = port.path
                   /\ port.port \in DOMAIN (IF port.dir = "in" THEN o.cmp.in ELSE o.cmp.out)

TypeOfPort(occ, port) ==
    LET o == CHOOSE x \in occ : x.path = port.path
    IN  IF port.dir = "in" THEN o.cmp.in[port.port] ELSE o.cmp.out[port.port]

\* Parameters and arrays of parameters are passed alike.
Class(t) == IF t = "parameter_array" THEN "parameter" ELSE t

\* Wires join ports that exist and carry the same thing.
WellTyped(occ, wires) ==
    \A w \in wires :
        /\ Declared(occ, w.source) /\ Declared(occ, w.target)
        /\ Class(TypeOfPort(occ, w.source)) = Class(TypeOfPort(occ, w.target))

\* A tree whose wiring leaves no doubt what is meant.
ClearlyWired(occ, wires) ==
    /\ \A o \in occ : \A n \in ToSet(NodesOf(o.cmp)) : n.node.form = "inline"
    /\ Unambiguous(wires)
    /\ WellTyped(occ, wires)
    /\ NoTaskCycle(occ)

=============================================================================
