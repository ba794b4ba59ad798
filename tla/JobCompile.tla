----------------------------- MODULE JobCompile -----------------------------
(***************************************************************************)
(* One job from its arrival to the Argo workflow: Dereference with the     *)
(* code's conversions (Codec) and the code's translation (Transpiler), and *)
(* what the translation has to do with the wiring of the job (Wiring).     *)
(***************************************************************************)
EXTENDS Dereference, Codec, Transpiler, Wiring

\* Received: what arrives in the body of a request; Loaded: what FindOne returns.
AsReceived(c) == UnmarshalComponent("json", MarshalComponent(c))
AsLoaded(c) == UnmarshalComponent("bson", MarshalComponent(AsReceived(c)))

\* The component at this path of ps with every reference replaced.
RECURSIVE Assembled(_, _)
Assembled(ps, path) ==
    LET c == ps[path]
        Sub(k) == InlineNode(Assembled(ps, Append(path, k)))
    IN  CASE c.impl.kind = "graph" ->
               [c EXCEPT !.impl.nodes = [k \in DOMAIN @ |-> Node(@[k].id, Sub(k))]]
          [] c.impl.kind = "map" -> [c EXCEPT !.impl.node = Sub(1)]
          [] OTHER -> c

Tree(j, ps) == IF j.entry = "server" THEN Assembled(ps, <<>>) ELSE AsReceived(j.root)

\* Translate: JobsSubmitHandler, main of cmd/transpile.
ToArgo(j, ps) == GetArgoWorkflow(Tree(j, ps), j.values)

-----------------------------------------------------------------------------
(* Properties *)

Translated == phase = "done"
Compiled   == phase = "done" /\ result.out = "ok"

\* The components of the tree that was translated, and the values of the job.
Translation == Occurrences(<<>>, Tree(job, parts))
Supplied(type) == JobValues(job.root.in, job.values, type)

Bricks(occ) == {o \in occ : o.cmp.impl.kind = "brick"}
Mounted(o) == {a.src.val : a \in {x \in ToSet(o.cmp.impl.args) :
                                     x.type = "volume" /\ x.src.type = "port"}}
VolumesAt(wires, o, p) ==
    {Supplied("volume")[q] : q \in Origins(wires, In(o.path, p)) \cap DOMAIN Supplied("volume")}

TemplateOf(uid) == CHOOSE t \in result.val.templates : t.name = uid

\* The mounts of the template of brick o are the volumes its ports are wired to.
MountsWired(wires, o) ==
    ToSet(TemplateOf(o.cmp.uid).mounts) =
        UNION {{[path |-> p, volume |-> v] : v \in VolumesAt(wires, o, p)} : p \in Mounted(o)}

\* The containers of a compiled job mount what its wiring says: at every volume
\* argument of every brick the volume of the job that the wires lead to, through
\* mappings, edges and the volume results of other bricks, at any depth (resolve
\* and bridgeVolume walk up hop by hop, TraverseComponent passes scopes down).
\* Uids have to be unique: RemoveDuplicatedTemplates keeps one template of a uid.
MountsFollowWires ==
    Compiled =>
        LET occ   == Translation
            wires == Wires(occ)
        IN  (ClearlyWired(occ, wires) /\ UniqueUids(occ)) =>
                \A o \in Bricks(occ) : MountsWired(wires, o)

\* Nothing but volumes, and none comes out of a map (bridgeVolume has no case for it).
OnlyVolumes(occ) ==
    /\ \A o \in occ : /\ o.cmp.uid # "" /\ o.cmp.impl.kind \in {"brick", "graph", "map"}
                      /\ \A p \in DOMAIN o.cmp.in : o.cmp.in[p] = "volume"
                      /\ \A p \in DOMAIN o.cmp.out : o.cmp.out[p] = "volume"
                      /\ o.cmp.impl.kind = "map" => DOMAIN o.cmp.out = {}
    /\ \A v \in ToSet(job.values) : v.type = "string" /\ v.val \in VolumeConfigs

\* No connected volume is overlooked: a job of volumes is refused only if some
\* mounted port is not connected to a volume of the job (getConnectedVolumeMap
\* logs and skips a port that resolve fails on, getContainerVolumes refuses it).
ConnectedVolumesFound ==
    Translated =>
        LET occ   == Translation
            wires == Wires(occ)
        IN  (OnlyVolumes(occ) /\ ClearlyWired(occ, wires)) =>
                (result.out = "ok" <=>
                     \A o \in Bricks(occ) : \A p \in Mounted(o) : VolumesAt(wires, o, p) # {})

\* A secret input that the mappings connect to a secret of the job gets that one,
\* although getNodeSecretMap and its like also hand down, under their own names,
\* the secrets of all enclosing components.
SecretsFollowWires ==
    Compiled =>
        LET occ   == Translation
            wires == Wires(occ)
        IN  (ClearlyWired(occ, wires) /\ UniqueUids(occ)) =>
                \A o \in Bricks(occ) :
                \A p \in {q \in DOMAIN o.cmp.in : o.cmp.in[q] = "env_secret"} :
                    LET from == Origins(wires, In(o.path, p))
                        env  == TemplateOf(o.cmp.uid).env
                    IN  from # {} => /\ p \in DOMAIN env
                                     /\ env[p] \in {Supplied("env_secret")[q] : q \in from}

\* AddGraph makes and drops an error for an array that enters a conditional or
\* an any-component: such a node gets no argument.
ArrayDropped(occ, wires) ==
    \E o \in occ, w \in wires :
        /\ o.cmp.impl.kind \in {"conditional", "any"}
        /\ w.target.path = o.path /\ w.target.dir = "in"
        /\ o.cmp.in[w.target.port] = "parameter_array"

\* One task of template t: it runs the template of component c, and passes to
\* each input that a wire enters exactly one argument, to the others none.
TaskComplete(t, x, c, path, wires) ==
    LET tasks == {y \in ToSet(t.tasks) : y.name = x.name}
        child == TemplateOf(c.uid)
    IN  /\ tasks = {x} /\ x.template = c.uid
        /\ \A a \in ToSet(x.args) : a.port \in child.inputs
        /\ \A p \in child.inputs :
              Cardinality({k \in DOMAIN x.args : x.args[k].port = p})
              = IF \E w \in wires : w.target = In(path, p) THEN 1 ELSE 0

\* The address is an output of a task of template t.
Made(t, a) ==
    \E x \in ToSet(t.tasks) : x.name = a.node /\ a.port \in DOMAIN TemplateOf(x.template).outputs

\* The Argo workflow of a well-typed job is closed and complete: every node has
\* its task; a task runs a template that is there, with one argument for each
\* input that a wire enters, taken from an input of its own DAG or from an output
\* of a task it depends on; every output of a DAG comes from one of its tasks.
ManifestClosed ==
    Compiled =>
        LET occ   == Translation
            wires == Wires(occ)
        IN  (ClearlyWired(occ, wires) /\ UniqueUids(occ) /\ ~ArrayDropped(occ, wires)) =>
                \A o \in occ \ Bricks(occ) :
                    LET t == TemplateOf(o.cmp.uid)
                    IN  /\ \A n \in ToSet(NodesOf(o.cmp)) : \E x \in ToSet(t.tasks) :
                              /\ x.name = n.id
                              /\ TaskComplete(t, x, n.node.cmp, Append(o.path, n.id), wires)
                        /\ \A x \in ToSet(t.tasks) : \A a \in ToSet(x.args) :
                              IF a.from.node = "" THEN a.from.port \in t.inputs
                              ELSE Made(t, a.from) /\ a.from.node \in ToSet(x.deps)
                        /\ \A p \in DOMAIN t.outputs :
                              t.outputs[p] = Unset \/ Made(t, t.outputs[p])

\* A nil pointer is only dereferenced for wires between ports of different types
\* (AddGraph, AddMap, AddConditional), resolve only recurses without end when the
\* volumes are wired in a circle.
CrashesOnlyOnBadWiring ==
    Translated => /\ result.out = "panic" => ~WellTyped(Translation, Wires(Translation))
                  /\ result.out = "overflow" => Cyclic(Wires(Translation))

\* Has the component a brick with a volume result?
PassesVolumes(c) ==
    \E o \in Occurrences(<<>>, c) :
        o.cmp.impl.kind = "brick" /\ \E r \in ToSet(o.cmp.impl.results) : r.src.type = "volume"

\* A conditional whose second node, a reference without a version, would be read
\* with the version of the first.
SharesVersion(c) ==
    \E o \in Occurrences(<<>>, c) :
        /\ o.cmp.impl.kind = "conditional"
        /\ o.cmp.impl.nodeTrue.form = "version"
        /\ o.cmp.impl.nodeFalse.form = "version" /\ o.cmp.impl.nodeFalse.version = 0

Sent(path) == job.docs[origin[path].uid][origin[path].content]

\* A component comes back from the database as it was sent: the untyped fields
\* are read back with the types they had, through JSON and BSON.
LoadedAsSent ==
    \A path \in DOMAIN origin \cap DOMAIN parts :
        (~PassesVolumes(Sent(path)) /\ ~SharesVersion(Sent(path))) =>
            parts[path] = Sent(path)

\* The same of every component, as Test_JobRoundtrip (models_test.go) means to
\* show for a job with volume results.
RoundTripWhole == \A path \in DOMAIN origin \cap DOMAIN parts : parts[path] = Sent(path)

\* The uids that component c names at some depth.
RECURSIVE References(_)
References(c) ==
    UNION {IF n.node.form = "inline" THEN References(n.node.cmp)
           ELSE IF n.node.form = "none" THEN {} ELSE {n.node.uid} : n \in ToSet(NodesOf(c))}

ReferencesCyclic ==
    Cyclic(UNION {UNION {{Wire(u, r) : r \in References(c)} : c \in ToSet(job.docs[u])} :
                     u \in DOMAIN job.docs})

\* Every job is answered, unless components refer to each other in a circle
\* (traverseComponent follows references as deep as they go).
CompileEnds == (phase = "sent" /\ ~ReferencesCyclic) ~> (phase \in {"done", "refused"})

=============================================================================
