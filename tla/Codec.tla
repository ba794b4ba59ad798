-------------------------------- MODULE Codec --------------------------------
(***************************************************************************)
(* How the documents are written and read.  The fields that Go declares as *)
(* interface{} (Node.Node, Map.Node, Conditional.NodeTrue and .NodeFalse,  *)
(* Argument.Source, Result.Source, Expression.Left and .Right) carry no    *)
(* type on the wire: the Unmarshal functions try one type after the other  *)
(* and take the first that fits.  JSON is the wire format of the API, BSON *)
(* that of MongoDB.                                                        *)
(*                                                                         *)
(* A wire value is a string, or an object given as a function of its       *)
(* fields.                                                                 *)
(***************************************************************************)
EXTENDS Documents

\* The zero CRefVersion, what `var crefver CRefVersion` starts from.
ZeroRef == VersionNode("", 0)

\* What a failed Unmarshal gives.
Failed == [form |-> "failed"]

-----------------------------------------------------------------------------
(* Marshalling: the struct tags, the same for both formats *)

Text(s) == [string |-> s]
Object(f) == [object |-> f]
IsText(w) == "string" \in DOMAIN w
Has(w, field) == "object" \in DOMAIN w /\ field \in DOMAIN w.object

\* A source is a string or an object with one field named by its type.
MarshalSource(s) ==
    IF s.type = "text" THEN Text(s.val)
    ELSE Object([f \in {s.type} |-> Text(s.val)])

\* `omitempty` leaves a zero version out.
MarshalCRefVersion(n) ==
    Object([f \in {"uid"} \cup (IF n.version = 0 THEN {} ELSE {"version"}) |->
               IF f = "uid" THEN n.uid ELSE n.version])

MarshalBrick(i) ==
    [type |-> "brick",
     args |-> Each(i.args, LAMBDA a : [a EXCEPT !.src = MarshalSource(@)]),
     results |-> Each(i.results, LAMBDA r : [r EXCEPT !.src = MarshalSource(@)])]

RECURSIVE MarshalComponent(_)

MarshalNode(n) ==
    CASE n.form = "inline"    -> MarshalComponent(n.cmp)
      [] n.form = "reference" -> Text(n.uid)
      [] n.form = "version"   -> MarshalCRefVersion(n)
      [] n.form = "none"      -> NoNode

MarshalImplementation(i) ==
    CASE i.kind = "brick" -> MarshalBrick(i)
      [] i.kind = "any"   -> [type |-> "any"]
      [] i.kind = "graph" ->
           [type |-> "graph", edges |-> i.edges, inMap |-> i.inMap, outMap |-> i.outMap,
            nodes |-> Each(i.nodes, LAMBDA n : [n EXCEPT !.node = MarshalNode(@)])]
      [] i.kind = "map" ->
           [type |-> "map", inMap |-> i.inMap, outMap |-> i.outMap,
            node |-> MarshalNode(i.node)]
      [] i.kind = "conditional" ->
           [type |-> "conditional", inMap |-> i.inMap, outMap |-> i.outMap,
            left |-> MarshalSource(i.left), right |-> MarshalSource(i.right),
            nodeTrue |-> MarshalNode(i.nodeTrue),
            nodeFalse |-> MarshalNode(i.nodeFalse)]

MarshalComponent(c) ==
    Object([uid |-> c.uid, in |-> c.in, out |-> c.out,
            implementation |-> MarshalImplementation(c.impl)])

-----------------------------------------------------------------------------
(* Unmarshalling: one attempt after the other *)

\* The first attempt that did not fail.
FirstOf(attempts) ==
    IF \A k \in DOMAIN attempts : attempts[k] = Failed THEN Failed
    ELSE LET k == CHOOSE k \in DOMAIN attempts :
                     /\ attempts[k] # Failed
                     /\ \A j \in DOMAIN attempts : j < k => attempts[j] = Failed
         IN  attempts[k]

\* Expression.UnmarshalJSON/BSON: a string, otherwise a Data.
UnmarshalOperand(w) ==
    IF IsText(w) THEN Source("text", w.string)
    ELSE Source("data", w.object["data"].string)

\* Argument.UnmarshalJSON/BSON: a string, then a port, then a file.
UnmarshalArgumentSource(w) ==
    FirstOf(<<IF IsText(w) THEN Source("text", w.string) ELSE Failed,
              IF Has(w, "port") THEN Source("port", w.object["port"].string) ELSE Failed,
              IF Has(w, "file") THEN Source("file", w.object["file"].string) ELSE Failed>>)

\* Result.UnmarshalJSON: a string, then a volume, then a file; the file is
\* taken from any object.
UnmarshalResultJSON(w) ==
    FirstOf(<<IF IsText(w) THEN Source("text", w.string) ELSE Failed,
              IF Has(w, "volume") THEN Source("volume", w.object["volume"].string) ELSE Failed,
              Source("file", IF Has(w, "file") THEN w.object["file"].string ELSE "")>>)

\* Result.UnmarshalBSON: a string, then a file from any object.
UnmarshalResultBSON(w) ==
    FirstOf(<<IF IsText(w) THEN Source("text", w.string) ELSE Failed,
              Source("file", IF Has(w, "file") THEN w.object["file"].string ELSE "")>>)

UnmarshalResultSource(codec, w) ==
    IF codec = "json" THEN UnmarshalResultJSON(w) ELSE UnmarshalResultBSON(w)

\* ComponentReference.UnmarshalJSON, .UnmarshalBSONValue: a string.
UnmarshalReference(w) == IF IsText(w) THEN ReferenceNode(w.string) ELSE Failed

\* An object into a CRefVersion: a field that is missing keeps the value the
\* variable had.
UnmarshalCRefVersion(w, var) ==
    IF IsText(w) THEN Failed
    ELSE VersionNode(IF Has(w, "uid") THEN w.object["uid"] ELSE var.uid,
                     IF Has(w, "version") THEN w.object["version"] ELSE var.version)

RECURSIVE UnmarshalComponent(_, _)

AsNode(c) == IF c = Failed THEN Failed ELSE InlineNode(c)

\* Mutant: a reference with a version is tried before a component.
VersionFirst(codec, w, var) ==
    FirstOf(<<UnmarshalReference(w), UnmarshalCRefVersion(w, var),
              AsNode(UnmarshalComponent(codec, w))>>)

\* Node, Map and Conditional: a reference, then a component, then a reference
\* with a version (into var).
UnmarshalNode(codec, w, var) ==
    FirstOf(<<UnmarshalReference(w), AsNode(UnmarshalComponent(codec, w)),
              UnmarshalCRefVersion(w, var)>>)

\* Conditional.UnmarshalJSON/BSON: both nodes are read into one `crefver`, so
\* that the second finds there what the first, t, has left.
UnmarshalFalse(codec, w, t) ==
    IF w = NoNode THEN NoNode
    ELSE UnmarshalNode(codec, w, IF t.form = "version" THEN t ELSE ZeroRef)

ConditionalWith(codec, i, t) ==
    Conditional(UnmarshalOperand(i.left), UnmarshalOperand(i.right),
                t, UnmarshalFalse(codec, i.nodeFalse, t), i.inMap, i.outMap)

UnmarshalConditional(codec, i) ==
    ConditionalWith(codec, i, UnmarshalNode(codec, i.nodeTrue, ZeroRef))

\* The field `type` of the implementation selects the Go type.
UnmarshalImplementation(codec, i) ==
    CASE i.type = "brick" ->
           Brick(Each(i.args, LAMBDA a : [a EXCEPT !.src = UnmarshalArgumentSource(@)]),
                 Each(i.results, LAMBDA r :
                         [r EXCEPT !.src = UnmarshalResultSource(codec, @)]))
      [] i.type = "any" -> AnyKind
      [] i.type = "graph" ->
           Graph(Each(i.nodes, LAMBDA n :
                         [n EXCEPT !.node = UnmarshalNode(codec, @, ZeroRef)]),
                 i.edges, i.inMap, i.outMap)
      [] i.type = "map" ->
           Map(UnmarshalNode(codec, i.node, ZeroRef), i.inMap, i.outMap)
      [] i.type = "conditional" -> UnmarshalConditional(codec, i)

\* Component.UnmarshalJSON/BSON: without an implementation it fails.
UnmarshalComponent(codec, w) ==
    IF ~Has(w, "implementation") THEN Failed
    ELSE Component(w.object["uid"], w.object["in"], w.object["out"],
                   UnmarshalImplementation(codec, w.object["implementation"]))

=============================================================================
