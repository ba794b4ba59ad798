---------------------------- MODULE MCJobCompile ----------------------------
(* A catalogue of jobs for JobCompile: every wiring of a few shapes. *)
EXTENDS JobCompile

Ports(S, t) == [p \in S |-> t]

\* Arguments of a brick that mount, or read, the ports.
ArgsOf(ports, t) == [k \in DOMAIN ports |-> Argument(Source("port", ports[k]), t)]

\* A list of <<target, source>>, where a source in node "" is an input of the
\* graph, as mappings and edges; Unset leaves the target open.
Mappings(pairs) ==
    LET s == SelectSeq(pairs, LAMBDA x : x[2].node = "" /\ x[2] # Unset)
    IN  [k \in DOMAIN s |-> [source |-> s[k][2], target |-> s[k][1]]]
Edges(pairs) ==
    LET s == SelectSeq(pairs, LAMBDA x : x[2].node # "")
    IN  [k \in DOMAIN s |-> [source |-> s[k][2], target |-> s[k][1]]]
WiredGraph(nodes, pairs, outs) ==
    Graph(nodes, Edges(pairs), Mappings(pairs), Mappings(outs) \o Edges(outs))

Root(p) == Address("", p)

Given(t, type, v) == [target |-> t, type |-> type, val |-> v]

\* A job without references.
Inline(entry, root, values) ==
    [entry |-> entry, root |-> root, values |-> values, docs |-> <<>>, stored |-> <<>>]

-----------------------------------------------------------------------------
(* Volumes: two bricks and a graph of two bricks, fed by two volumes and by
   each other, circles included. *)

VolumeBrick(u, in, mounts, outs) ==
    Component(u, Ports(in, "volume"), Ports({outs[k][1] : k \in DOMAIN outs}, "volume"),
              Brick(ArgsOf(mounts, "volume"),
                    [k \in DOMAIN outs |-> Result(Source("volume", outs[k][2]), outs[k][1])]))

InnerGraph(ex, out) ==
    Component("g", Ports({"p", "q"}, "volume"), Ports({"r"}, "volume"),
        WiredGraph(<<Node("d", InlineNode(VolumeBrick("d", {"x"}, <<"x">>, <<<<"o", "x">>>>))),
                     Node("e", InlineNode(VolumeBrick("e", {"x", "y"}, <<"y">>, <<<<"o", "x">>>>)))>>,
                   <<<<Address("d", "x"), Root("p")>>, <<Address("e", "x"), ex>>, <<Address("e", "y"), Root("p")>>>>,
                   <<<<Root("r"), out>>>>))

VolumeRoot(ax, ay, bp, bq, cx, ex, out) ==
    Component("root", Ports({"v", "w"}, "volume"), <<>>,
        WiredGraph(<<Node("a", InlineNode(VolumeBrick("a", {"x", "y"}, <<"y">>, <<<<"o", "x">>>>))),
                     Node("b", InlineNode(InnerGraph(ex, out))),
                     Node("c", InlineNode(Component("c", Ports({"x"}, "volume"), <<>>,
                        Map(InlineNode(VolumeBrick("m", {"z"}, <<"z">>, <<>>)),
                            <<Edge("", "x", "", "z")>>, <<>>))))>>,
                   <<<<Address("a", "x"), ax>>, <<Address("a", "y"), ay>>, <<Address("b", "p"), bp>>,
                     <<Address("b", "q"), bq>>, <<Address("c", "x"), cx>>>>, <<>>))

V == Root("v")
W == Root("w")
VolumeJobs ==
    {Inline("server", VolumeRoot(ax, ay, bp, bq, cx, ex, out), vals) :
        ax \in {V, W, Address("b", "r")}, ay \in {W, Address("b", "r")},
        bp \in {V, Address("a", "o")}, bq \in {Unset, W, Address("a", "o")},
        cx \in {V, Address("a", "o"), Address("b", "r")},
        ex \in {Root("q"), Address("d", "o")}, out \in {Address("d", "o"), Address("e", "o")},
        vals \in {<<Given("v", "string", "disk1"), Given("w", "string", "disk2")>>}}
    \cup {Inline("server", VolumeRoot(V, W, V, Unset, cx, Address("d", "o"), Address("e", "o")), vals) :
        cx \in {W, Address("b", "r")},
        vals \in {<<Given("v", "string", "disk1")>>, <<Given("v", "strings", "disk1")>>,
                  <<Given("w", "string", "none"), Given("v", "string", "disk1")>>}}

-----------------------------------------------------------------------------
(* Secrets: crossed and renamed on their way down. *)

SecretBrick(u, ports, other) ==
    Component(u, [p \in ports \cup other |-> IF p \in ports THEN "env_secret" ELSE "parameter"],
              <<>>, Brick(<<Argument(Source("text", "run"), "parameter")>>, <<>>))

SecretRoot(as, at, bt, cs, mu) ==
    Component("root", Ports({"s", "t"}, "env_secret"), <<>>,
        WiredGraph(<<Node("a", InlineNode(SecretBrick("a", {"s", "t"}, {}))),
                     Node("b", InlineNode(Component("b", Ports({"t"}, "env_secret"), <<>>,
                        WiredGraph(<<Node("c", InlineNode(SecretBrick("c", {"s"}, {"t"})))>>,
                                   <<<<Address("c", "s"), cs>>>>, <<>>)))),
                     Node("m", InlineNode(Component("m", Ports({"t"}, "env_secret"), <<>>,
                        Map(InlineNode(SecretBrick("n", {"s", "u"}, {})),
                            <<Edge("", "t", "n", "u"), Edge("", "t", "n", "s")>>, <<>>))))>>,
                   <<<<Address("a", "s"), as>>, <<Address("a", "t"), at>>, <<Address("b", "t"), bt>>,
                     <<Address("m", "t"), mu>>>>, <<>>))

S == Root("s")
T == Root("t")
SecretJobs ==
    {Inline("server", SecretRoot(as, at, bt, cs, mu), vals) :
        as \in {S, T}, at \in {S, T, Unset}, bt \in {S, T}, cs \in {T, Unset}, mu \in {S, T},
        vals \in {<<Given("s", "string", "key1"), Given("t", "string", "key2")>>,
                  <<Given("s", "string", "key1")>>}}

-----------------------------------------------------------------------------
(* Parameters, artifacts and arrays: every combination of types on a mapping
   and an edge, the second node of every kind. *)

DataTypes == {"parameter", "artifact", "parameter_array"}

DataBrick(u, in, t, o) ==
    Component(u, [p \in {in} |-> t], [p \in {"o"} |-> o],
              Brick(<<Argument(Source("port", in), IF t = "artifact" THEN t ELSE "parameter")>>,
                    <<Result(Source("file", "out"), "o")>>))

Wrapped(kind, t) ==
    LET b(u) == InlineNode(DataBrick(u, "i", t, t))
        im   == <<Edge("", "y", "n", "i")>>
        om   == <<Edge("n", "o", "", "o")>>
        cond == Conditional(Source("data", "y"), Source("text", "1"),
                            b("n"), b("k"), im, om)
    IN  CASE kind = "brick" -> DataBrick("b", "y", t, t)
          [] kind = "graph" -> Component("b", [p \in {"y"} |-> t], [p \in {"o"} |-> t],
                                         Graph(<<Node("n", b("n"))>>, <<>>, im, om))
          [] kind = "map"   -> Component("b", [p \in {"y"} |-> t], [p \in {"o"} |-> t],
                                         Map(b("n"), im, om))
          [] kind = "conditional" -> Component("b", [p \in {"y"} |-> t], [p \in {"o"} |-> t], cond)

DataRoot(from, at, ao, kind, bt) ==
    Component("root", [p |-> "parameter", f |-> "artifact", l |-> "parameter_array"],
              [o \in {"o"} |-> "parameter"],
        WiredGraph(<<Node("a", InlineNode(DataBrick("a", "x", at, ao))),
                     Node("b", InlineNode(Wrapped(kind, bt)))>>,
                   <<<<Address("a", "x"), Root(from)>>, <<Address("b", "y"), Address("a", "o")>>>>,
                   <<<<Root("o"), Address("b", "o")>>>>))

DataValues == {<<Given("p", "string", "1"), Given("l", "strings", "2")>>}

DataJobs ==
    {Inline(entry, DataRoot(from, at, ao, kind, bt), vals) :
        entry \in {"server", "tool"}, from \in {"p", "f", "l"}, at \in DataTypes,
        ao \in {"parameter", "artifact"}, kind \in {"brick", "graph", "map", "conditional"},
        bt \in DataTypes \cup {"volume", "env_secret"}, vals \in DataValues}
    \cup {Inline("tool", DataRoot("p", "parameter", "parameter", "brick", "parameter"), vals) :
        vals \in {<<>>, <<Given("p", "strings", "1")>>, <<Given("l", "string", "1")>>}}

\* The branches of a conditional have different ports; a node is not inline.
OddJobs ==
    {Inline("tool", Component("root", Ports({"y"}, "parameter"), Ports({"o"}, "parameter"),
        Conditional(Source("data", "y"), Source("text", "1"),
                    InlineNode(DataBrick("t", "i", "parameter", "parameter")), f,
                    <<Edge("", "y", "", "i")>>, <<Edge("", "o", "", "o")>>)), <<>>) :
        f \in {NoNode, InlineNode(DataBrick("f", "i", "parameter", "parameter")),
               InlineNode(DataBrick("f", "j", "parameter", "parameter")), ReferenceNode("A")}}
    \cup {Inline("tool", Component(u, <<>>, <<>>, i), <<>>) :
        u \in {"root", ""},
        i \in {AnyKind, Map(ReferenceNode("A"), <<>>, <<>>), Brick(<<>>, <<>>),
               Graph(<<Node("n", VersionNode("A", 1))>>, <<>>, <<>>, <<>>)}}

-----------------------------------------------------------------------------
(* References, while the components they name change. *)

PlainBrick(u, r) ==
    Component(u, <<>>, [p \in {"o"} |-> "parameter"],
              Brick(<<Argument(Source("text", r), "parameter")>>, <<Result(Source("file", r), "o")>>))

NodesGraph(u, nodes) ==
    Component(u, <<>>, <<>>,
              Graph([k \in DOMAIN nodes |-> Node("n" \o ToString(k), nodes[k])], <<>>, <<>>, <<>>))

MapOf(u, n) == Component(u, <<>>, <<>>, Map(n, <<>>, <<>>))

\* A branch on references, stored inside a graph.
Branches(u, t, f) ==
    NodesGraph(u, <<ReferenceNode("B"),
        InlineNode(Component("k", <<>>, <<>>,
            Conditional(Source("text", "1"), Source("text", "1"), t, f, <<>>, <<>>)))>>)

Referring(nodes, a, b, na, nb) ==
    [entry |-> "server", root |-> NodesGraph("root", nodes), values |-> <<>>,
     docs |-> [A |-> a, B |-> b], stored |-> [A |-> na, B |-> nb]]

A1 == PlainBrick("A", "1")
B1 == PlainBrick("B", "1")
B2 == PlainBrick("B", "2")
AonB(n) == NodesGraph("A", <<n>>)

ReferenceJobs ==
    {Referring(nodes, <<A1, AonB(n), A1>>, <<B1, B2>>, na, 1) :
        nodes \in {<<ReferenceNode("A"), VersionNode("A", 1)>>,
                   <<VersionNode("A", 0), VersionNode("B", 2)>>,
                   <<InlineNode(MapOf("map", ReferenceNode("A"))), ReferenceNode("C")>>},
        n \in {ReferenceNode("B"), VersionNode("B", 1)}, na \in {1, 2}}
    \cup {Referring(<<ReferenceNode("A")>>, <<a>>, <<B1>>, 1, 1) :
        a \in {Branches("A", VersionNode("B", 1), VersionNode("B", 1)),
               Branches("A", ReferenceNode("B"), NoNode),
               Branches("A", VersionNode("B", 2), VersionNode("B", 0)),
               Component("A", <<>>, <<>>, AnyKind),
               MapOf("A", InlineNode(MapOf("inner", VersionNode("B", 1))))}}
    \* B is not there yet
    \cup {Referring(<<VersionNode("A", 0), n>>, <<A1>>, <<B1, B2>>, 1, 0) :
        n \in {ReferenceNode("B"), VersionNode("B", 1)}}
    \* B comes to refer to A, which refers to B
    \cup {Referring(<<ReferenceNode("A")>>, <<AonB(ReferenceNode("B"))>>,
                    <<B1, NodesGraph("B", <<ReferenceNode("A")>>)>>, 1, 1)}

MCJobs == VolumeJobs \cup SecretJobs \cup DataJobs \cup OddJobs \cup ReferenceJobs

-----------------------------------------------------------------------------
(* A brick that passes its volume on, in the database instead of in the graph. *)

StoredVolumeJobs ==
    {[entry |-> "server",
      root |-> Component("root", Ports({"v"}, "volume"), <<>>,
         WiredGraph(<<Node("a", ReferenceNode("A")),
                      Node("c", InlineNode(VolumeBrick("c", {"x"}, <<"x">>, <<>>)))>>,
                    <<<<Address("a", "x"), V>>, <<Address("c", "x"), Address("a", "o")>>>>, <<>>)),
      values |-> <<Given("v", "string", "disk1")>>,
      docs |-> [A |-> <<VolumeBrick("A", {"x"}, <<"x">>, <<<<"o", "x">>>>)>>],
      stored |-> [A |-> 1]]}

-----------------------------------------------------------------------------
(* The components that a job is made of. *)

Inside(c) == {o.cmp : o \in Occurrences(<<>>, c)}
ComponentsOf(j) ==
    Inside(AsReceived(j.root))
    \cup UNION {UNION {Inside(AsLoaded(c)) : c \in ToSet(j.docs[u])} : u \in DOMAIN j.docs}
=============================================================================
