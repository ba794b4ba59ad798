------------------------------ MODULE Transpiler ------------------------------
(***************************************************************************)
(* transpiler/: from a job whose components are all inline to an Argo      *)
(* workflow.  Every component becomes a template named by its uid; a graph *)
(* is a DAG with one task per node; volumes and secrets, which Argo does   *)
(* not pass along, are followed through the wiring to the containers that  *)
(* use them.                                                               *)
(*                                                                         *)
(* Each function of the code is an operator.  What it gives is a value,    *)
(* or the way it ended: "error" is a Go error, "panic" a dereferenced nil, *)
(* "overflow" a recursion without end.  Of several, the first in the order *)
(* of execution counts.  A reference "{{inputs.parameters.p}}" is the      *)
(* address of port p of the component itself, "{{tasks.n.outputs...p}}"    *)
(* that of port p of node n.                                               *)
(***************************************************************************)
EXTENDS Documents

CONSTANT VolumeConfigs    \* the strings that encode a volume: its name

\* if err != nil { return err }, and what follows it.
Then(r, Rest(_)) == IF r.out = "ok" THEN Rest(r.val) ELSE r

\* The other way if the first one fails.
OrElse(r, s) == IF r.out = "error" THEN s ELSE r

\* A loop over steps that each give a sequence, until one of them stops.
InOrder(steps) ==
    FoldLeft(LAMBDA done, r : Then(done, LAMBDA x : Then(r, LAMBDA y : Ok(x \o y))),
             Ok(<<>>), steps)

Element(s, k) == IF k = 0 THEN Stop("error") ELSE Ok(s[k])
First(s, Test(_)) == Element(s, SelectInSeq(s, Test))
Last1(s, Test(_)) == Element(s, SelectLastInSeq(s, Test))

checkInputType(in, p) == IF p \in DOMAIN in THEN in[p] ELSE ""

ParameterTypes == {"parameter", "parameter_array"}

\* The inputs and outputs that Argo passes along.
ArgoTypes == {"artifact"} \cup ParameterTypes

Unset == Address("", "")

-----------------------------------------------------------------------------
(* Volumes: helpers.go *)

\* Mutant: the node of the target is not compared.
FirstEdgeToPort(target, edges) == First(edges, LAMBDA e : e.target.port = target.port)

\* The first edge into the address.
getConnectedSourceEdge(target, edges) == First(edges, LAMBDA e : e.target = target)

\* The component of a node, which has to be there and inline.
ComponentOf(n) == IF n.node.form = "inline" THEN Ok(n.node.cmp) ELSE Stop("error")
getNode(id, nodes) == Then(First(nodes, LAMBDA n : n.id = id), ComponentOf)

\* Brick.bridgeVolume: the first volume result of that name.
BridgeBrick(b, out) ==
    Then(First(b.results, LAMBDA r : r.port = out /\ r.src.type = "volume"),
         LAMBDA r : Ok(r.src.val))

RECURSIVE bridgeVolume(_, _)

\* The loop of Graph.bridgeVolume, from output port out of node n.  When the
\* counter runs out the error it returns is nil and the port is "".
RECURSIVE WalkUp(_, _, _, _)
WalkUp(g, n, out, counter) ==
    IF counter = 0 THEN Ok("")
    ELSE Then(getNode(n, g.nodes), LAMBDA c :
         Then(bridgeVolume(c, out), LAMBDA p :
         OrElse(Then(getConnectedSourceEdge(Address(n, p), g.inMap), LAMBDA m :
                     Ok(m.source.port)),
                Then(getConnectedSourceEdge(Address(n, p), g.edges), LAMBDA e :
                     WalkUp(g, e.source.node, e.source.port, counter - 1)))))

\* Mutant: one step too few.
BridgeGraphShort(g, out) ==
    Then(getConnectedSourceEdge(Address("", out), g.outMap), LAMBDA e :
         WalkUp(g, e.source.node, e.source.port, Len(g.nodes) - 1))

BridgeGraph(g, out) ==
    Then(getConnectedSourceEdge(Address("", out), g.outMap), LAMBDA e :
         WalkUp(g, e.source.node, e.source.port, Len(g.nodes)))

\* The input whose volume comes out of the output.
bridgeVolume(c, out) ==
    IF checkInputType(c.out, out) # "volume" THEN Stop("error")
    ELSE CASE c.impl.kind = "brick" -> BridgeBrick(c.impl, out)
           [] c.impl.kind = "graph" -> BridgeGraph(c.impl, out)
           [] OTHER                 -> Stop("error")

\* Up through the edges of graph g until an address is in scope.  A claim that
\* comes back (seen) recurses for ever.
RECURSIVE resolve(_, _, _, _)

\* Mutant: goes on with the same node instead of the upstream one.
ResolveSameNode(g, claim, scope, seen) ==
    IF claim \in DOMAIN scope THEN Ok(scope[claim])
    ELSE IF claim \in seen THEN Stop("overflow")
    ELSE Then(getConnectedSourceEdge(claim, g.edges), LAMBDA e :
         Then(getNode(e.source.node, g.nodes), LAMBDA c :
         Then(bridgeVolume(c, e.source.port), LAMBDA p :
              resolve(g, Address(claim.node, p), scope, seen \cup {claim}))))

resolve(g, claim, scope, seen) ==
    IF claim \in DOMAIN scope THEN Ok(scope[claim])
    ELSE IF claim \in seen THEN Stop("overflow")
    ELSE Then(getConnectedSourceEdge(claim, g.edges), LAMBDA e :
         Then(getNode(e.source.node, g.nodes), LAMBDA c :
         Then(bridgeVolume(c, e.source.port), LAMBDA p :
              resolve(g, Address(e.source.node, p), scope, seen \cup {claim}))))

\* The volumes that were found; a port without one is logged and left out.
Resolved(found) ==
    IF \E p \in DOMAIN found : found[p].out = "overflow" THEN Stop("overflow")
    ELSE Ok([p \in {q \in DOMAIN found : found[q].out = "ok"} |-> found[p].val])

getConnectedVolumeMap(g, n, c, scope) ==
    Resolved([p \in {q \in DOMAIN c.in : c.in[q] = "volume"} |->
                 resolve(g, Address(n, p), scope, {})])

\* TraverseComponent: the input mappings that pass on one of the volumes.
VolumeMappings(c, volumes) ==
    SelectSeq(c.impl.inMap, LAMBDA m : /\ checkInputType(c.in, m.source.port) = "volume"
                                       /\ m.source.port \in DOMAIN volumes)

\* Graph: by address.  Of several mappings to one target the last wins.
Scope(ms, volumes) ==
    [a \in {ms[k].target : k \in DOMAIN ms} |->
        volumes[Last1(ms, LAMBDA m : m.target = a).val.source.port]]
ScopeVolumes(c, volumes) == Scope(VolumeMappings(c, volumes), volumes)

\* Map and conditional: by port alone.
ByPort(ms, values) ==
    [p \in {ms[k].target.port : k \in DOMAIN ms} |->
        values[Last1(ms, LAMBDA m : m.target.port = p).val.source.port]]
MappedVolumes(c, volumes) == ByPort(VolumeMappings(c, volumes), volumes)

-----------------------------------------------------------------------------
(* Secrets *)

\* Mutant: a secret in scope is not replaced by a mapped one of the same name.
ScopeFirst(secrets, mapped) ==
    [p \in DOMAIN secrets \cup DOMAIN mapped |->
        IF p \in DOMAIN secrets THEN secrets[p] ELSE mapped[p]]

\* All the secrets of the component under their own names, those that are mapped
\* under the name of the target port as well.
WithMapped(secrets, mapped) ==
    [p \in DOMAIN secrets \cup DOMAIN mapped |->
        IF p \in DOMAIN mapped THEN mapped[p] ELSE secrets[p]]

SecretMappings(in, inMap) ==
    SelectSeq(inMap, LAMBDA m : checkInputType(in, m.source.port) = "env_secret")

getNodeSecretMap(n, secrets, in, inMap) ==
    WithMapped(secrets, ByPort(SelectSeq(SecretMappings(in, inMap),
                                         LAMBDA m : m.target.node = n), secrets))

MappedSecrets(c, secrets) ==
    WithMapped(secrets, ByPort(SecretMappings(c.in, c.impl.inMap), secrets))

-----------------------------------------------------------------------------
(* Templates *)

\* Tasks and outputs of a container, mounts and environment of a DAG: none.
Template(c, tasks, mounts, args, env, outputs) ==
    [name |-> c.uid, tasks |-> tasks, mounts |-> mounts, args |-> args, env |-> env,
     inputs |-> {p \in DOMAIN c.in : c.in[p] \in ArgoTypes}, outputs |-> outputs]

\* The outputs Argo knows of, each with what assigns it.
Outputs(c, assigned) ==
    [p \in {q \in DOMAIN c.out : c.out[q] \in ArgoTypes} |-> assigned[p]]

\* A container has as arguments texts and inputs; volumes are mounted instead.
ContainerArg(a) ==
    IF a.src.type = "text" THEN Ok(<<a.src>>)
    ELSE IF a.src.type = "file" \/ a.type \notin {"artifact", "parameter", "volume"}
         THEN Stop("error")
    ELSE Ok(IF a.type = "volume" THEN <<>> ELSE <<Source(a.type, a.src.val)>>)
getContainerArgs(args) == InOrder(Each(args, ContainerArg))

getContainerVolumes(args, volumes) ==
    InOrder(Each(args, LAMBDA a :
        IF a.src.type # "port" \/ a.type # "volume" THEN Ok(<<>>)
        ELSE IF a.src.val \notin DOMAIN volumes THEN Stop("error")
        ELSE Ok(<<[path |-> a.src.val, volume |-> volumes[a.src.val]]>>)))

\* The file that the last result for output p names.
ResultFile(results, p) ==
    OrElse(Then(Last1(results, LAMBDA r : r.port = p /\ r.src.type = "file"),
                LAMBDA r : Ok(Address("", r.src.val))), Ok(Unset)).val

\* The environment keeps the secrets named like an input, whatever its type.  A
\* brick has a container, as its schema requires.
AddBrick(c, secrets, volumes) ==
    Then(getContainerVolumes(c.impl.args, volumes), LAMBDA mounts :
    Then(getContainerArgs(c.impl.args), LAMBDA args :
         Ok(<<Template(c, <<>>, mounts, args,
                       [p \in DOMAIN secrets \cap DOMAIN c.in |-> secrets[p]],
                       Outputs(c, [p \in DOMAIN c.out |-> ResultFile(c.impl.results, p)]))>>)))

\* One argument of a task; item: its value is "{{item}}" of a loop over from.
TaskArgument(type, port, from, item) ==
    [type |-> type, port |-> port, from |-> from, item |-> item]

\* expressionToString: an operand is a text or an input of the conditional.
Condition(branch, left, right) == [branch |-> branch, left |-> left, right |-> right]

\* No "when": the task always runs.
Always == Condition("", Source("text", ""), Source("text", ""))

\* withParam is a variable of the function: the last loop wins.
WithParam(args) ==
    OrElse(Then(Last1(args, LAMBDA a : a.item), LAMBDA a : Ok(a.from)), Ok(Unset)).val

Task(name, child, deps, args, when) ==
    [name |-> name, template |-> child.uid, deps |-> deps, args |-> args,
     withParam |-> WithParam(args), when |-> when]

\* An input mapping, in AddGraph, AddMap and AddConditional: from an input of
\* type st to one of type tt.  Only inputs Argo knows of are mapped; a parameter
\* that is mapped from an artifact reads a parameter that is nil.
MappedAs(m, st, tt) ==
    LET Passed(type, item) ==
            Ok(<<TaskArgument(type, m.target.port, Address("", m.source.port), item)>>)
    IN  CASE st \notin ArgoTypes -> Ok(<<>>)
          [] st \in ArgoTypes /\ tt = "artifact" -> Passed("artifact", FALSE)
          [] st = "artifact" /\ tt = "parameter" -> Stop("panic")
          [] st \in ParameterTypes /\ tt = "parameter" ->
                Passed("parameter", st = "parameter_array")
          [] st \in ArgoTypes /\ tt = "parameter_array" -> Passed("parameter", FALSE)
          [] OTHER -> Stop("error")

MappedArgument(in, child, m) ==
    MappedAs(m, checkInputType(in, m.source.port), checkInputType(child.in, m.target.port))

\* An edge, in AddGraph, to an input of type tt.  An array is looped over by a
\* brick; for the kinds that are not expected an error is made and thrown away.
EdgeAs(e, tt, kind) ==
    CASE tt \in {"artifact", "parameter"} ->
            Ok(<<TaskArgument(tt, e.target.port, e.source, FALSE)>>)
      [] tt = "parameter_array" ->
            Ok(IF kind \notin {"graph", "map", "brick"} THEN <<>>
               ELSE <<TaskArgument("parameter", e.target.port, e.source, kind = "brick")>>)
      [] tt = "volume" -> Ok(<<>>)
      [] OTHER -> Stop("error")

EdgeArgument(child, e) ==
    EdgeAs(e, checkInputType(child.in, e.target.port), child.impl.kind)

\* Mutant: the nodes that depend on n.
Dependents(edges, n) ==
    Each(SelectSeq(edges, LAMBDA e : e.source.node = n), LAMBDA e : e.target.node)

getDependencies(edges, n) ==
    Each(SelectSeq(edges, LAMBDA e : e.target.node = n), LAMBDA e : e.source.node)

\* The source that the last output mapping to port p names, in node n if given.
MappedOutput(outMap, p, n) ==
    OrElse(Then(Last1(outMap, LAMBDA m : m.target.port = p), LAMBDA m :
                Ok(Address(IF n = "" THEN m.source.node ELSE n, m.source.port))),
           Ok(Unset)).val

DAG(c, tasks, n) ==
    Template(c, tasks, <<>>, <<>>, <<>>,
             Outputs(c, [p \in DOMAIN c.out |-> MappedOutput(c.impl.outMap, p, n)]))

\* One node of a graph: arguments from the mappings, then from the edges.
GraphTask(c, node) ==
    Then(ComponentOf(node), LAMBDA child :
    Then(InOrder(Each(SelectSeq(c.impl.inMap, LAMBDA m : m.target.node = node.id),
                      LAMBDA m : MappedArgument(c.in, child, m))
                 \o Each(SelectSeq(c.impl.edges, LAMBDA e : e.target.node = node.id),
                         LAMBDA e : EdgeArgument(child, e))), LAMBDA args :
         Ok(<<Task(node.id, child, getDependencies(c.impl.edges, node.id), args, Always)>>)))

AddGraph(c) ==
    Then(InOrder(Each(c.impl.nodes, LAMBDA node : GraphTask(c, node))), LAMBDA tasks :
         Ok(<<DAG(c, tasks, "")>>))

\* Maps and conditionals: the arguments of their only node, or of both.
MappedArguments(c, child) ==
    InOrder(Each(c.impl.inMap, LAMBDA m : MappedArgument(c.in, child, m)))

AddMap(c) ==
    Then(ComponentOf(c.impl), LAMBDA child :
    Then(MappedArguments(c, child), LAMBDA args :
         Ok(<<DAG(c, <<Task("mapnode", child, <<>>, args, Always)>>, "mapnode")>>)))

\* The same ports with the same types.
SamePorts(t, f) == t.in = f.in /\ t.out = f.out

Branch(c, name, branch, child, args) ==
    Task(name, child, <<>>, args, Condition(branch, c.impl.left, c.impl.right))

\* The false node: none, or a component with the ports of the true one.
FalseBranch(c, t, args) ==
    IF c.impl.nodeFalse = NoNode THEN Ok(<<>>)
    ELSE Then(ComponentOf(Node("", c.impl.nodeFalse)), LAMBDA f :
              IF SamePorts(t, f) THEN Ok(<<Branch(c, "nodeFalse", "else", f, args)>>)
              ELSE Stop("error"))

\* Both branches get the same arguments.  An output is taken from the branch
\* that ran; its source is written as an address of nodeTrue.  The false node is
\* looked at before the mappings are.
AddConditional(c) ==
    Then(ComponentOf(Node("", c.impl.nodeTrue)), LAMBDA t :
    Then(FalseBranch(c, t, <<>>), LAMBDA checked :
    Then(MappedArguments(c, t), LAMBDA args :
         Ok(<<DAG(c, <<Branch(c, "nodeTrue", "if", t, args)>> \o FalseBranch(c, t, args).val,
                  "nodeTrue")>>))))

-----------------------------------------------------------------------------
(* The traversal *)

\* The loop over the inputs: a secret has to be at hand, a type to be known.
InputsError(c, secrets) ==
    \E p \in DOMAIN c.in :
        \/ c.in[p] \notin ArgoTypes \cup {"env_secret", "volume"}
        \/ c.in[p] = "env_secret" /\ p \notin DOMAIN secrets

RECURSIVE TraverseComponent(_, _, _)

\* One node of a graph, in its scope.
TraverseNode(c, n, secrets, volumes) ==
    Then(getConnectedVolumeMap(c.impl, n.id, n.node.cmp, ScopeVolumes(c, volumes)),
         LAMBDA vols :
         TraverseComponent(n.node.cmp, getNodeSecretMap(n.id, secrets, c.in, c.impl.inMap), vols))

\* The nodes of a component that is not a graph.
InnerNodes(i) ==
    CASE i.kind = "map" -> <<i.node>>
      [] i.kind = "conditional" ->
           <<i.nodeTrue>> \o (IF i.nodeFalse = NoNode THEN <<>> ELSE <<i.nodeFalse>>)
      [] OTHER -> <<>>

\* The components below c, in order.
TraverseBelow(c, secrets, volumes) ==
    InOrder(IF c.impl.kind = "graph"
            THEN Each(c.impl.nodes, LAMBDA n : TraverseNode(c, n, secrets, volumes))
            ELSE Each(InnerNodes(c.impl), LAMBDA n :
                      TraverseComponent(n.cmp, MappedSecrets(c, secrets),
                                        MappedVolumes(c, volumes))))

AddTemplate(c, secrets, volumes) ==
    CASE c.impl.kind = "brick" -> AddBrick(c, secrets, volumes)
      [] c.impl.kind = "graph" -> AddGraph(c)
      [] c.impl.kind = "map"   -> AddMap(c)
      [] c.impl.kind = "conditional" -> AddConditional(c)
      [] OTHER -> Stop("error")

TraverseComponent(c, secrets, volumes) ==
    IF c.uid = "" \/ InputsError(c, secrets) THEN Stop("error")
    ELSE Then(AddTemplate(c, secrets, volumes), LAMBDA own :
         Then(TraverseBelow(c, secrets, volumes), LAMBDA below : Ok(own \o below)))

\* Only the first template of a name is kept.
RemoveDuplicatedTemplates(ts) ==
    LET first == {k \in DOMAIN ts : \A j \in 1 .. k - 1 : ts[j].name # ts[k].name}
    IN  {ts[k] : k \in first}

-----------------------------------------------------------------------------
(* GetArgoWorkflow *)

\* The values of the job for one input, in order.
ValuesFor(values, p) == SelectSeq(values, LAMBDA v : v.target = p)

\* Every secret input has a value, and each value is a string.
SecretsError(in, values) ==
    \E p \in DOMAIN in :
        /\ in[p] = "env_secret"
        /\ \/ ValuesFor(values, p) = <<>>
           \/ \E k \in DOMAIN ValuesFor(values, p) : ValuesFor(values, p)[k].type # "string"

\* The values for inputs of a type, the last one for each.
JobValues(in, values, type) ==
    [p \in {q \in DOMAIN in : in[q] = type /\ \E k \in DOMAIN values : values[k].target = q} |->
        Last1(values, LAMBDA v : v.target = p).val.val]

\* volumeFromConfig
VolumesError(in, values) ==
    \E k \in DOMAIN values :
        /\ checkInputType(in, values[k].target) = "volume"
        /\ values[k].type # "string" \/ values[k].val \notin VolumeConfigs

\* The parameters of the Argo workflow: strings, and arrays made into one.
Parameter(in, v) ==
    CASE checkInputType(in, v.target) \notin ParameterTypes -> Ok(<<>>)
      [] <<checkInputType(in, v.target), v.type>> \in
             {<<"parameter", "string">>, <<"parameter_array", "strings">>} ->
            Ok(<<[port |-> v.target, val |-> v.val]>>)
      [] OTHER -> Stop("error")

\* ParseComponentTree
Workflow(c, templates, params, volumes) ==
    [entrypoint |-> c.uid, templates |-> RemoveDuplicatedTemplates(templates),
     params |-> params, volumes |-> {volumes[p] : p \in DOMAIN volumes}]

GetArgoWorkflow(c, values) ==
    IF SecretsError(c.in, values) \/ VolumesError(c.in, values) THEN Stop("error")
    ELSE Then(TraverseComponent(c, JobValues(c.in, values, "env_secret"),
                                JobValues(c.in, values, "volume")), LAMBDA templates :
         Then(InOrder(Each(values, LAMBDA v : Parameter(c.in, v))), LAMBDA params :
              Ok(Workflow(c, templates, params, JobValues(c.in, values, "volume")))))

=============================================================================
