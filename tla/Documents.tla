------------------------------ MODULE Documents ------------------------------
(***************************************************************************)
(* The documents of models/models.go as values in memory: components,      *)
(* their implementations (brick, any, graph, map, conditional), and the    *)
(* nodes that hold a component inline or refer to one in the database.     *)
(* Names, media types, user data, containers and metadata other than the   *)
(* uid are not told apart.                                                 *)
(***************************************************************************)
EXTENDS Naturals, SequencesExt

\* F of every element, in order.
Each(s, F(_)) == FoldLeft(LAMBDA done, x : Append(done, F(x)), <<>>, s)

\* The three types a node may have.
InlineNode(c)       == [form |-> "inline", cmp |-> c]
ReferenceNode(u)    == [form |-> "reference", uid |-> u]
VersionNode(u, v)   == [form |-> "version", uid |-> u, version |-> v]

\* Conditional.NodeFalse may be missing.
NoNode == [form |-> "none"]

\* Sources of arguments and results, operands of expressions: tagged by type.
Source(t, x) == [type |-> t, val |-> x]

\* Component: inputs and outputs map a port to its type (port names are unique
\* in a component).
Component(u, in, out, impl) == [uid |-> u, in |-> in, out |-> out, impl |-> impl]

Brick(args, results) == [kind |-> "brick", args |-> args, results |-> results]

Argument(src, type) == [src |-> src, type |-> type]

Result(src, port) == [src |-> src, port |-> port]

\* PortAddress and Edge: node "" is the component itself.
Address(n, p) == [node |-> n, port |-> p]
Edge(n, p, m, q) == [source |-> Address(n, p), target |-> Address(m, q)]

Node(id, n) == [id |-> id, node |-> n]

Graph(nodes, edges, inMap, outMap) ==
    [kind |-> "graph", nodes |-> nodes, edges |-> edges,
     inMap |-> inMap, outMap |-> outMap]

Map(n, inMap, outMap) ==
    [kind |-> "map", node |-> n, inMap |-> inMap, outMap |-> outMap]

Conditional(left, right, t, f, inMap, outMap) ==
    [kind |-> "conditional", left |-> left, right |-> right,
     nodeTrue |-> t, nodeFalse |-> f, inMap |-> inMap, outMap |-> outMap]

AnyKind == [kind |-> "any"]

\* The nodes of a component, with the names their tasks get.
NodesOf(c) ==
    CASE c.impl.kind = "graph" -> c.impl.nodes
      [] c.impl.kind = "map"   -> <<Node("mapnode", c.impl.node)>>
      [] c.impl.kind = "conditional" ->
           <<Node("nodeTrue", c.impl.nodeTrue)>>
           \o (IF c.impl.nodeFalse = NoNode THEN <<>>
               ELSE <<Node("nodeFalse", c.impl.nodeFalse)>>)
      [] OTHER -> <<>>

-----------------------------------------------------------------------------
(* How a function ends: with a value, or otherwise *)

Ok(x) == [out |-> "ok", val |-> x]
Stop(o) == [out |-> o]

=============================================================================
