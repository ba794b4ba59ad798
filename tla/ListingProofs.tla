---------------------------- MODULE ListingProofs ----------------------------
(***************************************************************************)
(* Theorems about Listing, for every collection, every query with any      *)
(* filters, sorts and limit, every list of workspaces and any number of    *)
(* changes.                                                                *)
(***************************************************************************)
EXTENDS Listing, FunctionTheorems, FiniteSetTheorems, SequenceTheorems, TLAPS

Page == [items : Seq(Document), total : Nat, granted : SUBSET Names]

\* A request for a page is on its way, or is to come.
Walking == {"next", "authorize", "list"}

-----------------------------------------------------------------------------
(* The query *)

LEMMA LimitType == ASSUME walk \in Walks PROVE Limit \in Int
  <1>1. walk.limits \in Seq(Int)
    BY WalkAssumption
  <1> QED BY <1>1, EmptySeq, ElementOfSeq DEF Limit, parsePaginationOrDefault

\* The condition that parse_filter_query makes of a part.
Condition(p) == [key |-> p.field, op |-> mongo_operator(p.op), value |-> p.value]

\* A condition with an operator that MongoDB knows means what the part says.
LEMMA ConditionMeans ==
  ASSUME NEW p, p.op \in Operators, mongo_operator(p.op) \in KnownOperators, NEW d
  PROVE  Applies(Condition(p), d) <=> Means(p, d)
  <1>1. /\ Condition(p).key = p.field /\ Condition(p).value = p.value
        /\ Condition(p).op = mongo_operator(p.op)
    BY DEF Condition
  <1> DEFINE c == Condition(p)
  <1> HIDE DEF c
  <1>2. /\ c.key = p.field /\ c.value = p.value /\ c.op = mongo_operator(p.op)
    BY <1>1 DEF c
  <1>3. CASE p.op = "==" /\ c.op = "$eq"
    BY <1>2, <1>3 DEF Applies, Means, c
  <1>4. CASE p.op = ">=" /\ c.op = "$gte"
    BY <1>2, <1>4 DEF Applies, Means, c
  <1>5. CASE p.op = "<=" /\ c.op = "$lte"
    BY <1>2, <1>5 DEF Applies, Means, c
  <1>6. CASE p.op = ">" /\ c.op = "$gt"
    BY <1>2, <1>6 DEF Applies, Means, c
  <1>7. CASE p.op = "<" /\ c.op = "$lt"
    BY <1>2, <1>7 DEF Applies, Means, c
  <1>8. CASE p.op = "search" /\ c.op = "$regex"
    BY <1>2, <1>8 DEF Applies, Means, c
  <1>9. \/ p.op = "==" /\ c.op = "$eq"
        \/ p.op = ">=" /\ c.op = "$gte"
        \/ p.op = "<=" /\ c.op = "$lte"
        \/ p.op = ">" /\ c.op = "$gt"
        \/ p.op = "<" /\ c.op = "$lt"
        \/ p.op = "search" /\ c.op = "$regex"
    <2>1. /\ p.op = "==" => mongo_operator(p.op) = "$eq"
          /\ p.op = ">=" => mongo_operator(p.op) = "$gte"
          /\ p.op = "<=" => mongo_operator(p.op) = "$lte"
          /\ p.op = ">" => mongo_operator(p.op) = "$gt"
          /\ p.op = "<" => mongo_operator(p.op) = "$lt"
          /\ p.op = "search" => mongo_operator(p.op) = "$regex"
          /\ p.op = "!=" => mongo_operator(p.op) = "$neq"
      BY Zenon DEF mongo_operator
    <2> QED BY <1>2, <2>1 DEF KnownOperators, Operators
  <1> QED BY <1>3, <1>4, <1>5, <1>6, <1>7, <1>8, <1>9

\* join_queries keeps every part of every parameter.
LEMMA ConditionsOfParts ==
  /\ \A c \in Conditions : \E i \in DOMAIN Filters : \E j \in DOMAIN Filters[i] :
        c = Condition(Filters[i][j])
  /\ \A i \in DOMAIN Filters : \A j \in DOMAIN Filters[i] :
        Condition(Filters[i][j]) \in Conditions
  <1> DEFINE F == Filters
             Q == filter_queries(F)
  <1>1. /\ DOMAIN Q = DOMAIN F
        /\ \A i \in DOMAIN F : /\ DOMAIN Q[i] = DOMAIN F[i]
                               /\ \A j \in DOMAIN F[i] : Q[i][j] = Condition(F[i][j])
    BY DEF filter_queries, parse_filter_query, Each, Condition
  <1>2. Conditions = UNION {{Q[k][j] : j \in DOMAIN Q[k]} : k \in DOMAIN Q}
    BY DEF Conditions, join_queries, ToSet
  <1> HIDE DEF F, Q
  <1>3. /\ \A c \in Conditions : \E i \in DOMAIN F : \E j \in DOMAIN F[i] :
              c = Condition(F[i][j])
        /\ \A i \in DOMAIN F : \A j \in DOMAIN F[i] : Condition(F[i][j]) \in Conditions
    BY <1>1, <1>2
  <1> QED BY <1>3 DEF F

LEMMA FilterOps ==
  ASSUME walk \in Walks, ~FilterError(Filters),
         NEW i \in DOMAIN Filters, NEW j \in DOMAIN Filters[i]
  PROVE  Filters[i][j].op \in Operators
  <1>1. Filters[i][j].op # ""
    BY DEF FilterError
  <1>2. CASE walk.kind \in VersionLists
    <2>1. Filters = <<>>
      BY <1>2 DEF Filters, VersionLists
    <2> QED BY <2>1
  <1>3. CASE walk.kind = "volume"
    BY <1>3 DEF Filters, VersionLists, Operators
  <1>4. CASE walk.kind \notin VersionLists /\ walk.kind # "volume"
    <2>1. Filters = walk.filters
      BY <1>4 DEF Filters
    <2> QED BY <1>1, <2>1, WalkAssumption
  <1> QED BY <1>2, <1>3, <1>4

LEMMA SortTypes ==
  ASSUME walk \in Walks
  PROVE  Sorts \in Seq(Seq(SortPart))
  <1>1. walk.sorts \in Seq(Seq(SortPart))
    BY WalkAssumption
  <1> QED BY <1>1, EmptySeq DEF Sorts

-----------------------------------------------------------------------------
(* The pipeline *)

\* What is matched is what was asked for.
LEMMA MatchingFits ==
  ASSUME walk \in Walks, ~QueryError, NEW d
  PROVE  (\A c \in Conditions : Applies(c, d)) <=>
           \A i \in DOMAIN Filters : \A j \in DOMAIN Filters[i] : Means(Filters[i][j], d)
  <1>1. ASSUME NEW i \in DOMAIN Filters, NEW j \in DOMAIN Filters[i]
        PROVE  Applies(Condition(Filters[i][j]), d) <=> Means(Filters[i][j], d)
    <2> DEFINE p == Filters[i][j]
    <2>1. p.op \in Operators
      BY FilterOps DEF QueryError
    <2>2. Condition(p) \in Conditions
      BY ConditionsOfParts
    <2>3. Condition(p).op \in KnownOperators
      BY <2>2 DEF QueryError, AggregateError
    <2>4. mongo_operator(p.op) \in KnownOperators
      BY <2>3 DEF Condition
    <2> HIDE DEF p
    <2>5. Applies(Condition(p), d) <=> Means(p, d)
      BY <2>1, <2>4, ConditionMeans
    <2> QED BY <2>5 DEF p
  <1>2. ASSUME \A c \in Conditions : Applies(c, d),
               NEW i \in DOMAIN Filters, NEW j \in DOMAIN Filters[i]
        PROVE  Means(Filters[i][j], d)
    <2>1. Condition(Filters[i][j]) \in Conditions
      BY ConditionsOfParts
    <2> QED BY <1>1, <1>2, <2>1
  <1>3. ASSUME \A i \in DOMAIN Filters : \A j \in DOMAIN Filters[i] : Means(Filters[i][j], d),
               NEW c \in Conditions
        PROVE  Applies(c, d)
    <2>1. PICK i \in DOMAIN Filters : \E j \in DOMAIN Filters[i] :
            c = Condition(Filters[i][j])
      BY ConditionsOfParts
    <2>2. PICK j \in DOMAIN Filters[i] : c = Condition(Filters[i][j])
      BY <2>1
    <2> QED BY <1>1, <1>3, <2>2
  <1> QED BY <1>2, <1>3

\* A stage that sorts gives every document once.
LEMMA SortedShape ==
  ASSUME NEW D \in SUBSET Document, IsFiniteSet(D), NEW keys, NEW s \in Sorted(D, keys)
  PROVE  /\ s \in Seq(Document) /\ ToSet(s) = D
         /\ Len(s) = Cardinality(D) /\ DOMAIN s = 1 .. Len(s)
         /\ \A j, k \in 1 .. Len(s) : s[j] = s[k] => j = k
         /\ \A j, k \in 1 .. Len(s) : j < k => ~Before(keys, s[k], s[j])
  <1> DEFINE n == Cardinality(D)
  <1>1. n \in Nat
    BY FS_CardinalityType
  <1>2. ToSet(s) = D /\ \A j, k \in DOMAIN s : j < k => ~Before(keys, s[k], s[j])
    BY DEF Sorted
  <1>3. PICK p \in Permutations(D) : s = [k \in 1 .. n |-> p[SetToSeq(D)[k]]]
    BY DEF Sorted, Orders
  <1>4. DOMAIN s = 1 .. n /\ s = [k \in DOMAIN s |-> s[k]]
    BY <1>3
  <1>5. \A k \in 1 .. n : s[k] \in D
    BY <1>2, <1>4 DEF ToSet
  <1>6. s \in [1 .. n -> D]
    BY <1>4, <1>5
  <1> HIDE DEF n
  <1>7. s \in Seq(Document) /\ Len(s) = n
    BY <1>1, <1>6
  <1>8. s \in Surjection(1 .. n, D)
    BY <1>2, <1>4, <1>6 DEF Surjection, ToSet
  <1>9. IsFiniteSet(1 .. n) /\ Cardinality(1 .. n) = n
    BY <1>1, FS_Interval
  <1>10. s \in Injection(1 .. n, D)
    BY <1>8, <1>9, FS_SurjSameCardinalityImpliesInj DEF n
  <1>11. \A j, k \in 1 .. n : s[j] = s[k] => j = k
    BY <1>10, Fun_InjectionProperties
  <1> QED BY <1>2, <1>4, <1>7, <1>11 DEF n

\* The facets: a page is a piece of the sorted documents, as long as the limit
\* unless they end.
LEMMA ItemsShape ==
  ASSUME walk \in Walks, Limit >= 0, offset \in Nat, NEW s \in Seq(Document)
  PROVE  /\ Items(s) \in Seq(Document)
         /\ Len(Items(s)) <= Limit
         /\ offset + Limit <= Len(s) => Len(Items(s)) = Limit
         /\ \A k \in 1 .. Len(Items(s)) :
              offset + k <= Len(s) /\ Items(s)[k] = s[offset + k]
         /\ \A k \in 1 .. Len(s) : offset < k /\ k <= offset + Limit =>
              k - offset \in 1 .. Len(Items(s)) /\ Items(s)[k - offset] = s[k]
  <1> DEFINE a == offset + Limit
             b == Len(s)
             m == IF a <= b THEN a ELSE b
  <1>1. a \in Nat /\ b \in Nat /\ Limit \in Nat /\ m \in Nat
    BY LimitType
  <1>2. Min({a, b}) = m
    <2>1. \E x \in {a, b} : \A y \in {a, b} : x <= y
      BY <1>1
    <2>2. Min({a, b}) \in {a, b} /\ \A y \in {a, b} : Min({a, b}) <= y
      <3> HIDE DEF a, b
      <3> QED BY <2>1 DEF Min
    <2> HIDE DEF a, b
    <2> QED BY <1>1, <2>2
  <1>3. Items(s) = SubSeq(s, offset + 1, m)
    BY <1>2 DEF Items
  <1>4. \A i \in offset + 1 .. m : s[i] \in Document
    BY <1>1
  <1> DEFINE t == SubSeq(s, offset + 1, m)
  <1>5. /\ t \in Seq(Document)
        /\ Len(t) = IF offset + 1 <= m THEN m - (offset + 1) + 1 ELSE 0
        /\ \A i \in 1 .. m - (offset + 1) + 1 : t[i] = s[(offset + 1) + i - 1]
    <2>1. offset + 1 \in Int /\ m \in Int
      BY <1>1
    <2> HIDE DEF m
    <2> QED BY <2>1, <1>4, SubSeqProperties
  <1> HIDE DEF t
  <1>6. t = Items(s)
    BY <1>3 DEF t
  <1>7. /\ Len(t) <= Limit
        /\ offset + Limit <= Len(s) => Len(t) = Limit
    BY <1>1, <1>5
  <1>8. ASSUME NEW k \in 1 .. Len(t)
        PROVE  offset + k <= Len(s) /\ t[k] = s[offset + k]
    <2>1. k \in 1 .. m - (offset + 1) + 1 /\ (offset + 1) + k - 1 = offset + k
      BY <1>1, <1>5
    <2> QED BY <1>1, <1>5, <2>1
  <1>9. ASSUME NEW k \in 1 .. Len(s), offset < k, k <= offset + Limit
        PROVE  k - offset \in 1 .. Len(t) /\ t[k - offset] = s[k]
    <2>1. k <= m
      BY <1>1, <1>9
    <2>2. k - offset \in 1 .. m - (offset + 1) + 1 /\ k - offset \in 1 .. Len(t)
          /\ (offset + 1) + (k - offset) - 1 = k
      <3> HIDE DEF m
      <3> QED BY <1>1, <1>5, <1>9, <2>1
    <2> QED BY <1>5, <2>2
  <1> QED BY <1>5, <1>6, <1>7, <1>8, <1>9

\* An answer is a page of the documents that were asked for, in the order that
\* was asked for.
Pageful(answer, s) ==
    /\ answer = Answer(Items(s), Len(s))
    /\ ToSet(s) = Wanted(coll, ctx)
    /\ \A j, k \in 1 .. Len(s) : s[j] = s[k] => j = k
    /\ \A j, k \in 1 .. Len(s) : j < k => ~Before(sort_queries(Sorts), s[k], s[j])

LEMMA AggregateShape ==
  ASSUME TypeOK, NEW answer \in Aggregate(Wanted(coll, ctx))
  PROVE  \E s \in Seq(Document) : Pageful(answer, s)
  <1> DEFINE D == Wanted(coll, ctx)
             keys == sort_queries(Sorts)
  <1>1. D \subseteq coll /\ coll \in SUBSET Document /\ IsFiniteSet(coll)
    BY DEF Wanted, TypeOK
  <1>2. D \in SUBSET Document /\ IsFiniteSet(D)
    BY <1>1, FS_Subset
  <1>3. PICK s \in Sorted(D, keys) : answer = Answer(Items(s), Len(s))
    BY DEF Aggregate
  <1> HIDE DEF D, keys
  <1>4. /\ s \in Seq(Document) /\ ToSet(s) = D
        /\ \A j, k \in 1 .. Len(s) : s[j] = s[k] => j = k
        /\ \A j, k \in 1 .. Len(s) : j < k => ~Before(keys, s[k], s[j])
    BY <1>2, SortedShape
  <1> QED BY <1>3, <1>4 DEF Pageful, D, keys

\* Without access to any workspace: the empty list.
LEMMA NothingShape ==
  ASSUME TypeOK, ~PaginationError, Granted(ctx) = {}
  PROVE  \E s \in Seq(Document) : Pageful(Answer(<<>>, 0), s)
  <1>1. <<>> \in Seq(Document) /\ Len(<<>>) = 0
    BY EmptySeq
  <1>2. walk \in Walks /\ Limit \in Int /\ Limit >= 0 /\ offset \in Nat
    BY LimitType DEF TypeOK, PaginationError
  <1>3. /\ Items(<<>>) \in Seq(Document)
        /\ \A k \in 1 .. Len(Items(<<>>)) : offset + k <= Len(<<>>)
    BY <1>1, <1>2, ItemsShape
  <1>4. Len(Items(<<>>)) \in Nat
    BY <1>3, LenProperties
  <1>5. Len(Items(<<>>)) = 0
    <2>1. ASSUME Len(Items(<<>>)) # 0 PROVE FALSE
      <3>1. 1 \in 1 .. Len(Items(<<>>))
        BY <1>4, <2>1
      <3>2. offset + 1 <= 0
        BY <1>1, <1>3, <3>1
      <3> QED BY <1>2, <3>2
    <2> QED BY <2>1
  <1>6. Items(<<>>) = <<>>
    BY <1>3, <1>5, EmptySeq
  <1>7. ToSet(<<>>) = {} /\ Wanted(coll, ctx) = {}
    BY DEF ToSet, Wanted, Fits
  <1>8. Pageful(Answer(<<>>, 0), <<>>)
    BY <1>1, <1>6, <1>7 DEF Pageful
  <1> QED BY <1>1, <1>8

\* The $match stages of the six lists.
LEMMA MatchStages ==
  ASSUME TypeOK, ~QueryError
  PROVE  /\ walk.kind = "component" => Matching(coll) = Wanted(coll, ctx)
         /\ walk.kind = "component versions" => OfUid(coll) = Wanted(coll, ctx)
         /\ walk.kind \in {"workflow", "job", "volume"} =>
              Matching(createWorkspaceFilter(coll, Granted(ctx))) = Wanted(coll, ctx)
         /\ walk.kind = "workflow versions" =>
              OfUid(createWorkspaceFilter(coll, Granted(ctx))) = Wanted(coll, ctx)
  <1> DEFINE M(d) == \A c \in Conditions : Applies(c, d)
             F(d) == \A i \in DOMAIN Filters : \A j \in DOMAIN Filters[i] : Means(Filters[i][j], d)
             W(d) == d.workspace \in Granted(ctx)
             U(d) == d.uid = walk.uid
  <1>1. \A d \in coll : M(d) <=> F(d)
    BY MatchingFits DEF TypeOK
  <1>2. walk.kind \in {"component", "component versions"} => \A d \in coll : W(d)
    BY DEF TypeOK, Document, Granted
  <1>3. walk.kind \in VersionLists => \A d \in coll : F(d)
    <2>1. walk.kind \in VersionLists => Filters = <<>>
      BY DEF Filters, VersionLists
    <2> QED BY <2>1
  <1>4. Wanted(coll, ctx) = {d \in coll : W(d) /\ (walk.kind \in VersionLists => U(d)) /\ F(d)}
    BY DEF Wanted, Fits
  <1>5. Matching(coll) = {d \in coll : M(d)} /\ OfUid(coll) = {d \in coll : U(d)}
    BY DEF Matching, OfUid
  <1>6. /\ Matching(createWorkspaceFilter(coll, Granted(ctx))) = {d \in coll : W(d) /\ M(d)}
        /\ OfUid(createWorkspaceFilter(coll, Granted(ctx))) = {d \in coll : W(d) /\ U(d)}
    BY DEF Matching, OfUid, createWorkspaceFilter
  <1> HIDE DEF M, F, W, U
  <1> QED BY <1>1, <1>2, <1>3, <1>4, <1>5, <1>6 DEF VersionLists

LEMMA AnswerShape ==
  ASSUME TypeOK, ~PaginationError, NEW answer \in Answers(coll, Granted(ctx)),
         answer # Error
  PROVE  \E s \in Seq(Document) : Pageful(answer, s)
  <1> DEFINE names == Granted(ctx)
  <1>1. walk.kind \in Kinds
    BY WalkAssumption DEF TypeOK
  <1>2. /\ walk.kind = "component" => Answers(coll, names) = ListComponentsMetadata(coll)
        /\ walk.kind = "component versions" =>
             Answers(coll, names) = ListComponentVersionsMetadata(coll)
        /\ walk.kind = "workflow" => Answers(coll, names) = ListWorkflowsMetadata(coll, names)
        /\ walk.kind = "workflow versions" =>
             Answers(coll, names) = ListWorkflowVersionsMetadata(coll, names)
        /\ walk.kind = "job" => Answers(coll, names) = ListJobsMetadata(coll, names)
        /\ walk.kind = "volume" => Answers(coll, names) = ListVolumes(coll, names)
    BY Zenon DEF Answers
  <1>3. \/ answer = Answer(<<>>, 0) /\ names = {}
        \/ ~QueryError /\ answer \in Aggregate(Wanted(coll, ctx))
    <2>1. CASE walk.kind = "component"
      BY <1>2, <2>1, MatchStages DEF ListComponentsMetadata
    <2>2. CASE walk.kind = "component versions"
      BY <1>2, <2>2, MatchStages DEF ListComponentVersionsMetadata
    <2>3. CASE walk.kind = "workflow"
      BY <1>2, <2>3, MatchStages DEF ListWorkflowsMetadata
    <2>4. CASE walk.kind = "workflow versions"
      BY <1>2, <2>4, MatchStages DEF ListWorkflowVersionsMetadata
    <2>5. CASE walk.kind = "job"
      BY <1>2, <2>5, MatchStages DEF ListJobsMetadata
    <2>6. CASE walk.kind = "volume"
      BY <1>2, <2>6, MatchStages DEF ListVolumes
    <2> QED BY <1>1, <2>1, <2>2, <2>3, <2>4, <2>5, <2>6 DEF Kinds
  <1> QED BY <1>3, AggregateShape, NothingShape

-----------------------------------------------------------------------------
(***************************************************************************)
(* Writes.  A timestamp is given once, so a document that has left the     *)
(* collection never comes back; a write that is not committed yet is of a  *)
(* new document, with an id of its own, or of one it is to replace.        *)
(***************************************************************************)
Seen == coll \cup first \cup Shown

StampInv ==
    /\ \A d \in Seen : d.timestamp \in 1 .. clock /\ d.id \in 1 .. clock
    /\ \A w \in pending : w.new.timestamp \in 1 .. clock /\ w.new.id \in 1 .. clock
    /\ \A d, e \in Seen : d.timestamp = e.timestamp => d = e
    /\ \A w \in pending : \A d \in Seen : w.new.timestamp # d.timestamp
    /\ \A w, x \in pending : w.new.timestamp = x.new.timestamp => w = x

Replaces(w, o) == w.old = {o} /\ o.id = w.new.id /\ o.timestamp < w.new.timestamp

IdInv ==
    /\ \A w \in pending : w.old = {} \/ \E o \in w.old : Replaces(w, o)
    /\ \A w \in pending : w.old = {} => \A d \in coll : d.id # w.new.id
    /\ \A w, x \in pending : w.old = {} /\ w.new.id = x.new.id => w = x

WriteInv == TypeOK /\ StampInv /\ IdInv

LEMMA WriteInit == Init => WriteInv
  <1> SUFFICES ASSUME Init PROVE WriteInv
    OBVIOUS
  <1> DEFINE known == FirstDocs \cup {w.new : w \in FirstWrites}
             count == Cardinality(FirstDocs \cup FirstWrites)
  <1>1. /\ IsFiniteSet(FirstDocs) /\ IsFiniteSet(FirstWrites)
        /\ FirstDocs \subseteq Document
        /\ FirstWrites \subseteq [old : {{}}, new : Document]
        /\ \A w \in FirstWrites : w.new \notin FirstDocs
        /\ \A d \in known : d.id \in 1 .. count /\ d.timestamp \in 1 .. count
        /\ \A d, e \in known : d.id = e.id \/ d.timestamp = e.timestamp => d = e
    BY FirstAssumption
  <1>2. count \in Nat
    BY <1>1, FS_Union, FS_CardinalityType
  <1>3. Shown = {} /\ Seen = FirstDocs
    BY DEF Init, Shown, Seen
  <1> HIDE DEF known, count
  <1>4. clock = count /\ coll = FirstDocs /\ pending = FirstWrites
    BY DEF Init, count
  <1>5. /\ \A d \in FirstDocs : d \in known
        /\ \A w \in FirstWrites : w.new \in known /\ w.old = {} /\ w.new \in Document
    BY <1>1 DEF known
  <1>6. \A w, x \in FirstWrites : w.new = x.new => w = x
    <2>1. \A w \in [old : {{}}, new : Document] : w = [old |-> {}, new |-> w.new]
      OBVIOUS
    <2>2. \A w \in FirstWrites : w = [old |-> {}, new |-> w.new]
      BY <1>1, <2>1
    <2> QED BY <2>2, Zenon
  <1>7. StampInv
    BY <1>1, <1>3, <1>4, <1>5, <1>6 DEF StampInv
  <1>8. IdInv
    BY <1>1, <1>4, <1>5, <1>6 DEF IdInv
  <1>9. TypeOK
    <2>1. \A d, e \in coll : d.id = e.id => d = e
      BY <1>1, <1>4, <1>5
    <2>2. pending \in SUBSET [old : SUBSET Document, new : Document]
      BY <1>1, <1>4
    <2>3. \A w \in pending : w.new.timestamp \in 1 .. clock /\ Cardinality(w.old) <= 1
      BY <1>1, <1>4, <1>5, FS_EmptySet
    <2>4. DOMAIN ctx = Names /\ list \in Lists /\ changes \in 0 .. MaxChanges
      BY ListsAssumption DEF Init, Names
    <2>5. pages \in Seq([items : Seq(Document), total : Nat, granted : SUBSET Names])
      BY EmptySeq DEF Init
    <2> QED BY <1>1, <1>2, <1>4, <2>1, <2>2, <2>3, <2>4, <2>5 DEF Init, TypeOK
  <1> QED BY <1>7, <1>8, <1>9 DEF WriteInv

\* Steps that neither write nor show anything.
LEMMA WriteQuiet ==
  ASSUME WriteInv, UNCHANGED <<walk, coll, pending, clock, pages, first, lost, late, offset>>,
         pc' \in {"next", "authorize", "list", "done", "refused"},
         list' \in Lists, DOMAIN ctx' = Names, changes' \in 0 .. MaxChanges
  PROVE  WriteInv'
  <1>1. Seen' = Seen
    BY DEF Seen, Shown
  <1> QED BY <1>1 DEF WriteInv, TypeOK, StampInv, IdInv, Replaces

LEMMA BeginQuiet ==
  ASSUME TypeOK, Begin \/ PathAuthorization \/ Refuse \/ ListChanges \/ UNCHANGED vars
  PROVE  /\ UNCHANGED <<walk, coll, pending, clock, pages, first, lost, late, offset>>
         /\ pc' \in {"next", "authorize", "list", "done", "refused"}
         /\ list' \in Lists /\ DOMAIN ctx' = Names /\ changes' \in 0 .. MaxChanges
  <1>1. CASE Begin
    <2>1. DOMAIN ctx' = DOMAIN list
      BY <1>1 DEF Begin, Visible
    <2> QED BY <1>1, <2>1, ListsAssumption DEF Begin, others, TypeOK
  <1>2. CASE PathAuthorization
    BY <1>2 DEF PathAuthorization, Refuse, others, TypeOK
  <1>3. CASE Refuse
    BY <1>3 DEF Refuse, others, TypeOK
  <1>4. CASE ListChanges
    BY <1>4, ListsAssumption DEF ListChanges, Change, TypeOK
  <1>5. CASE UNCHANGED vars
    BY <1>5 DEF vars, others, TypeOK
  <1> QED BY <1>1, <1>2, <1>3, <1>4, <1>5

\* The page that the client gets.
PageOf(answer) == [items |-> answer.items, total |-> answer.total, granted |-> Granted(ctx)]

LEMMA GotShape ==
  ASSUME TypeOK, ListHandler
  PROVE  \/ Refuse
         \/ \E answer : \E s \in Seq(Document) :
              /\ pc = "list" /\ Limit \in Nat
              /\ Pageful(answer, s) /\ Got(answer)
              /\ answer.items = Items(s) /\ answer.total = Len(s)
              /\ PageOf(answer) \in Page
              /\ PageOf(answer).items = Items(s) /\ PageOf(answer).granted = Granted(ctx)
  <1>1. CASE PaginationError
    BY <1>1 DEF ListHandler
  <1>2. CASE ~PaginationError
    <2>1. PICK answer \in Answers(coll, Granted(ctx)) :
            IF answer = Error THEN Refuse ELSE Got(answer)
      BY <1>2 DEF ListHandler
    <2>2. CASE answer = Error
      BY <2>1, <2>2
    <2>3. CASE answer # Error
      <3>1. PICK s \in Seq(Document) : Pageful(answer, s)
        BY <1>2, <2>3, AnswerShape
      <3>2. answer.items = Items(s) /\ answer.total = Len(s)
        BY <3>1 DEF Pageful, Answer
      <3>3. walk \in Walks /\ Limit \in Nat /\ offset \in Nat
        BY <1>2, LimitType DEF TypeOK, PaginationError
      <3>4. Items(s) \in Seq(Document) /\ Len(s) \in Nat
        BY <3>3, ItemsShape
      <3>5. Granted(ctx) \in SUBSET Names
        BY DEF Granted, TypeOK
      <3>6. /\ PageOf(answer) \in Page
            /\ PageOf(answer).items = Items(s) /\ PageOf(answer).granted = Granted(ctx)
        BY <3>2, <3>4, <3>5 DEF PageOf, Page
      <3> QED BY <2>1, <2>3, <3>1, <3>2, <3>3, <3>6 DEF ListHandler
    <2> QED BY <2>2, <2>3
  <1> QED BY <1>1, <1>2

\* A page more.
LEMMA PagesAppend ==
  ASSUME TypeOK, NEW p \in Page, pages' = Append(pages, p)
  PROVE  /\ pages' \in Seq(Page) /\ Len(pages') = Len(pages) + 1 /\ Len(pages) \in Nat
         /\ DOMAIN pages = 1 .. Len(pages) /\ DOMAIN pages' = 1 .. Len(pages')
         /\ \A k \in 1 .. Len(pages) : pages'[k] = pages[k]
         /\ pages'[Len(pages) + 1] = p
         /\ Shown' = Shown \cup ToSet(p.items)
  <1>1. pages \in Seq(Page)
    BY DEF TypeOK, Page
  <1>2. /\ pages' \in Seq(Page) /\ Len(pages') = Len(pages) + 1 /\ Len(pages) \in Nat
        /\ DOMAIN pages = 1 .. Len(pages) /\ DOMAIN pages' = 1 .. Len(pages')
        /\ \A k \in 1 .. Len(pages) : pages'[k] = pages[k]
        /\ pages'[Len(pages) + 1] = p
    BY <1>1
  <1>3. /\ Shown = UNION {ToSet(pages[k].items) : k \in 1 .. Len(pages)}
        /\ Shown' = UNION {ToSet(pages'[k].items) : k \in 1 .. Len(pages) + 1}
    BY <1>2 DEF Shown
  <1>4. \A x : x \in Shown' <=> \/ \E k \in 1 .. Len(pages) : x \in ToSet(pages[k].items)
                                \/ x \in ToSet(p.items)
    BY <1>2, <1>3
  <1>5. \A x : x \in Shown <=> \E k \in 1 .. Len(pages) : x \in ToSet(pages[k].items)
    BY <1>3
  <1>6. Shown' = Shown \cup ToSet(p.items)
    BY <1>4, <1>5
  <1> QED BY <1>2, <1>6

LEMMA WriteGot ==
  ASSUME WriteInv, ListHandler
  PROVE  WriteInv'
  <1>0. TypeOK
    BY DEF WriteInv
  <1>1. CASE Refuse
    BY <1>0, <1>1, BeginQuiet, WriteQuiet
  <1>2. ASSUME NEW answer, NEW s \in Seq(Document),
               Limit \in Nat, Pageful(answer, s), Got(answer),
               answer.items = Items(s), PageOf(answer) \in Page,
               PageOf(answer).items = Items(s)
        PROVE  WriteInv'
    <2>1. pages' = Append(pages, PageOf(answer))
      BY <1>2 DEF Got, PageOf
    <2>2. pages' \in Seq(Page) /\ Shown' = Shown \cup ToSet(Items(s))
      BY <1>0, <1>2, <2>1, PagesAppend
    <2>3. UNCHANGED <<walk, ctx, coll, pending, clock, list, changes, lost, late>>
      BY <1>2 DEF Got, others
    <2>4. ToSet(Items(s)) \subseteq coll
      <3>1. ToSet(s) \subseteq coll
        BY <1>2 DEF Pageful, Wanted
      <3>2. ToSet(Items(s)) \subseteq ToSet(s)
        <4>1. walk \in Walks /\ offset \in Nat /\ Limit >= 0
          BY <1>0, <1>2 DEF TypeOK
        <4>2. /\ Items(s) \in Seq(Document)
              /\ \A k \in 1 .. Len(Items(s)) :
                   offset + k <= Len(s) /\ Items(s)[k] = s[offset + k]
          BY <4>1, ItemsShape
        <4>3. \A k \in 1 .. Len(Items(s)) : offset + k \in DOMAIN s
          BY <4>1, <4>2, LenProperties
        <4>4. DOMAIN Items(s) = 1 .. Len(Items(s))
          BY <4>2, LenProperties
        <4> QED BY <4>2, <4>3, <4>4 DEF ToSet
      <3> QED BY <3>1, <3>2
    <2>5. first' \subseteq coll \cup first
      BY <1>2 DEF Got, Wanted
    <2>6. Seen' \subseteq Seen
      BY <2>2, <2>3, <2>4, <2>5 DEF Seen
    <2>7. first' \in SUBSET Document
      BY <1>0, <2>5 DEF TypeOK
    <2>8. offset' \in Nat /\ pc' \in {"next", "done"}
      BY <1>0, <1>2 DEF Got, TypeOK
    <2>9. TypeOK'
      BY <1>0, <2>2, <2>3, <2>7, <2>8 DEF TypeOK, Page
    <2>10. StampInv'
      BY <2>3, <2>6 DEF WriteInv, StampInv
    <2>11. IdInv'
      BY <2>3 DEF WriteInv, IdInv, Replaces
    <2> QED BY <2>9, <2>10, <2>11 DEF WriteInv
  <1> QED BY <1>0, <1>1, <1>2, GotShape

LEMMA StampedType ==
  ASSUME NEW d \in Document, NEW a \in Nat, NEW t \in Nat
  PROVE  LET n == [d EXCEPT !.author = a, !.timestamp = t]
         IN  n \in Document /\ n.timestamp = t /\ n.id = d.id
  <1> DEFINE U == {x.uid : x \in FirstDocs}
             D == [id : Nat, uid : U, version : Nat, workspace : Names,
                   author : Nat, timestamp : Nat]
             n == [d EXCEPT !.author = a, !.timestamp = t]
  <1>1. D = Document
    BY DEF Document
  <1> HIDE DEF U
  <1>2. n \in D /\ n.timestamp = t /\ n.id = d.id
    BY <1>1
  <1> QED BY <1>1, <1>2

\* A timestamp is given.
LEMMA StampShape ==
  ASSUME TypeOK, NEW a \in Authors,
         \/ \E p \in {<<d.uid, d.workspace>> : d \in FirstDocs} : StampNew(p[1], p[2], a)
         \/ \E d \in coll : StampPatch(d, a)
  PROVE  \E w \in [old : SUBSET Document, new : Document] :
           /\ pending' = pending \cup {w}
           /\ w.new.timestamp = clock + 1
           /\ \/ w.old = {} /\ w.new.id = clock + 1
              \/ \E o \in coll : w.old = {o} /\ w.new.id = o.id
  <1>0. a \in Nat /\ clock \in Nat /\ coll \in SUBSET Document
    BY ListsAssumption DEF TypeOK
  <1> DEFINE N(d) == [d EXCEPT !.author = a, !.timestamp = clock + 1]
  <1>1. \A d \in Document : /\ N(d) \in Document /\ N(d).timestamp = clock + 1
                            /\ N(d).id = d.id
    <2>1. clock + 1 \in Nat
      BY <1>0
    <2> QED BY <1>0, <2>1, StampedType
  <1>2. ASSUME NEW d \in Document, NEW old \in SUBSET Document, Stamp(old, d, a)
        PROVE  \E w \in [old : SUBSET Document, new : Document] :
                 /\ pending' = pending \cup {w} /\ w.old = old
                 /\ w.new.timestamp = clock + 1 /\ w.new.id = d.id
    <2>1. pending' = pending \cup {[old |-> old, new |-> N(d)]}
      BY <1>2 DEF Stamp
    <2>2. N(d) \in Document /\ N(d).timestamp = clock + 1 /\ N(d).id = d.id
      BY <1>1
    <2> HIDE DEF N
    <2>3. [old |-> old, new |-> N(d)] \in [old : SUBSET Document, new : Document]
      BY <2>2
    <2> QED BY <2>1, <2>2, <2>3
  <1>3. ASSUME NEW p \in {<<d.uid, d.workspace>> : d \in FirstDocs}, StampNew(p[1], p[2], a)
        PROVE  \E w \in [old : SUBSET Document, new : Document] :
                 /\ pending' = pending \cup {w}
                 /\ w.new.timestamp = clock + 1 /\ w.old = {} /\ w.new.id = clock + 1
    <2> DEFINE d == [id |-> clock + 1, uid |-> p[1], version |-> clock + 1, workspace |-> p[2],
                     author |-> a, timestamp |-> clock + 1]
    <2>1. PICK e \in FirstDocs : p = <<e.uid, e.workspace>>
      BY <1>3
    <2>2. e \in Document
      BY FirstAssumption
    <2>3. d \in Document /\ d.id = clock + 1
      BY <1>0, <2>1, <2>2 DEF Document
    <2>4. Stamp({}, d, a)
      BY <1>3 DEF StampNew
    <2> HIDE DEF d
    <2> QED BY <1>2, <2>3, <2>4
  <1>4. ASSUME NEW d \in coll, StampPatch(d, a)
        PROVE  \E w \in [old : SUBSET Document, new : Document] :
                 /\ pending' = pending \cup {w}
                 /\ w.new.timestamp = clock + 1 /\ w.old = {d} /\ w.new.id = d.id
    BY <1>0, <1>2, <1>4 DEF StampPatch
  <1> QED BY <1>3, <1>4

LEMMA WriteStamp ==
  ASSUME WriteInv, NEW a \in Authors,
         \/ \E p \in {<<d.uid, d.workspace>> : d \in FirstDocs} : StampNew(p[1], p[2], a)
         \/ \E d \in coll : StampPatch(d, a)
  PROVE  WriteInv'
  <1>0. TypeOK
    BY DEF WriteInv
  <1>1. PICK w \in [old : SUBSET Document, new : Document] :
           /\ pending' = pending \cup {w}
           /\ w.new.timestamp = clock + 1
           /\ \/ w.old = {} /\ w.new.id = clock + 1
              \/ \E o \in coll : w.old = {o} /\ w.new.id = o.id
    BY <1>0, StampShape
  <1>2. /\ clock' = clock + 1 /\ changes' = changes + 1 /\ changes < MaxChanges
        /\ UNCHANGED <<walk, pc, ctx, offset, pages, first, coll, list, lost, late>>
    BY DEF StampNew, StampPatch, Stamp, Change
  <1>3. Seen' = Seen /\ clock \in Nat /\ clock' \in Nat
    BY <1>0, <1>2 DEF Seen, Shown, TypeOK
  <1>4. StampInv'
    <2>1. \A d \in Seen : d.timestamp # clock + 1
      BY <1>3 DEF WriteInv, StampInv
    <2>2. \A x \in pending : x.new.timestamp # clock + 1
      BY <1>3 DEF WriteInv, StampInv
    <2>3. w.new.timestamp \in 1 .. clock' /\ w.new.id \in 1 .. clock'
      <3>1. \A o \in coll : o.id \in 1 .. clock
        BY DEF WriteInv, StampInv, Seen
      <3> QED BY <1>1, <1>2, <1>3, <3>1
    <2>4. \A x \in pending' : x.new.timestamp \in 1 .. clock' /\ x.new.id \in 1 .. clock'
      BY <1>1, <1>2, <1>3, <2>3 DEF WriteInv, StampInv
    <2>5. \A d \in Seen' : d.timestamp \in 1 .. clock' /\ d.id \in 1 .. clock'
      BY <1>2, <1>3 DEF WriteInv, StampInv
    <2> QED BY <1>1, <1>3, <2>1, <2>2, <2>4, <2>5 DEF WriteInv, StampInv
  <1>5. IdInv'
    <2>1. w.old = {} \/ \E o \in w.old : Replaces(w, o)
      <3>1. \A o \in coll : o \in Document /\ o.timestamp \in 1 .. clock
        BY <1>0 DEF WriteInv, StampInv, Seen, TypeOK
      <3> QED BY <1>1, <1>3, <3>1 DEF Replaces
    <2>2. w.old = {} => \A d \in coll : d.id # w.new.id
      <3>1. \A d \in coll : d.id \in 1 .. clock
        BY DEF WriteInv, StampInv, Seen
      <3> QED BY <1>1, <1>3, <3>1
    <2>3. \A x \in pending : (w.old = {} \/ x.old = {}) => w.new.id # x.new.id
      <3>1. \A x \in pending : x.new.id \in 1 .. clock
        BY DEF WriteInv, StampInv
      <3>2. \A x \in pending : x.old = {} => \A d \in coll : d.id # x.new.id
        BY DEF WriteInv, IdInv
      <3> QED BY <1>1, <1>3, <3>1, <3>2
    <2> QED BY <1>1, <1>2, <2>1, <2>2, <2>3 DEF WriteInv, IdInv, Replaces
  <1>6. TypeOK'
    <2>1. Cardinality(w.old) <= 1
      <3>1. CASE w.old = {}
        BY <3>1, FS_EmptySet
      <3>2. CASE \E o \in coll : w.old = {o}
        <4>1. PICK o \in coll : w.old = {o}
          BY <3>2
        <4>2. Cardinality({o}) = 1
          BY FS_Singleton
        <4> QED BY <4>1, <4>2
      <3> QED BY <1>1, <3>1, <3>2
    <2>2. \A x \in pending' : x.new.timestamp \in 1 .. clock' /\ Cardinality(x.old) <= 1
      BY <1>0, <1>1, <1>2, <1>3, <2>1 DEF TypeOK
    <2>3. changes' \in 0 .. MaxChanges
      BY <1>0, <1>2, ListsAssumption DEF TypeOK
    <2> QED BY <1>0, <1>1, <1>2, <1>3, <2>2, <2>3 DEF TypeOK
  <1> QED BY <1>4, <1>5, <1>6 DEF WriteInv

LEMMA WriteCommit ==
  ASSUME WriteInv, NEW w \in pending, Commit(w)
  PROVE  WriteInv'
  <1>0. TypeOK
    BY DEF WriteInv
  <1>1. /\ coll' = (coll \ w.old) \cup {w.new} /\ pending' = pending \ {w}
        /\ w.old \subseteq coll
        /\ UNCHANGED <<walk, pc, ctx, offset, pages, first, clock, list, changes>>
        /\ lost' \in BOOLEAN /\ late' \in BOOLEAN
    <2>1. lost' \in BOOLEAN /\ late' \in BOOLEAN
      BY Zenon DEF Commit, Becomes
    <2> QED BY <2>1 DEF Commit, Becomes
  <1>2. Shown' = Shown /\ Seen' \subseteq Seen \cup {w.new}
    BY <1>1 DEF Seen, Shown
  <1>3. w.new \in Document
    BY <1>0 DEF TypeOK
  <1>4. StampInv'
    <2>1. /\ \A d \in Seen \cup {w.new} : d.timestamp \in 1 .. clock /\ d.id \in 1 .. clock
          /\ \A d, e \in Seen \cup {w.new} : d.timestamp = e.timestamp => d = e
          /\ \A x \in pending \ {w} : \A d \in Seen \cup {w.new} :
               x.new.timestamp # d.timestamp
      BY DEF WriteInv, StampInv
    <2> QED BY <1>1, <1>2, <2>1 DEF WriteInv, StampInv
  <1>5. w.old = {} \/ \E o \in coll : Replaces(w, o)
    BY <1>1 DEF WriteInv, IdInv, Replaces
  <1>6. \A d \in coll' : d = w.new \/ (d \in coll /\ d.id # w.new.id)
    <2>1. CASE w.old = {}
      BY <1>1, <2>1 DEF WriteInv, IdInv
    <2>2. ASSUME NEW o \in coll, Replaces(w, o)
          PROVE  \A d \in coll' : d = w.new \/ (d \in coll /\ d.id # w.new.id)
      BY <1>0, <1>1, <2>2 DEF TypeOK, Replaces
    <2> QED BY <1>5, <2>1, <2>2
  <1>7. TypeOK'
    <2>1. coll' \in SUBSET Document
      BY <1>0, <1>1, <1>3 DEF TypeOK
    <2>2. IsFiniteSet(coll')
      <3>1. IsFiniteSet(coll \ w.old)
        BY <1>0, FS_Subset DEF TypeOK
      <3> QED BY <1>1, <3>1, FS_AddElement
    <2>3. \A d, e \in coll' : d.id = e.id => d = e
      BY <1>0, <1>6 DEF TypeOK
    <2> QED BY <1>0, <1>1, <2>1, <2>2, <2>3 DEF TypeOK
  <1>8. IdInv'
    <2>1. \A x \in pending' : x.old = {} => \A d \in coll' : d.id # x.new.id
      <3> SUFFICES ASSUME NEW x \in pending', x.old = {}, NEW d \in coll'
                   PROVE  d.id # x.new.id
        OBVIOUS
      <3>1. x \in pending /\ x # w
        BY <1>1
      <3>2. x.new.id # w.new.id
        BY <3>1 DEF WriteInv, IdInv
      <3>3. \A e \in coll : e.id # x.new.id
        BY <3>1 DEF WriteInv, IdInv
      <3> QED BY <1>6, <3>2, <3>3
    <2> QED BY <1>1, <2>1 DEF WriteInv, IdInv, Replaces
  <1> QED BY <1>4, <1>7, <1>8 DEF WriteInv

LEMMA WriteDelete ==
  ASSUME WriteInv, NEW x \in coll, Delete(x)
  PROVE  WriteInv'
  <1>0. TypeOK
    BY DEF WriteInv
  <1>1. /\ coll' = coll \ {x}
        /\ UNCHANGED <<walk, pc, ctx, offset, pages, first, pending, clock, list, late>>
        /\ changes < MaxChanges /\ changes' = changes + 1
        /\ lost' \in BOOLEAN
    <2>1. lost' \in BOOLEAN
      BY Zenon DEF Delete, Becomes
    <2> QED BY <2>1 DEF Delete, Becomes, Change
  <1>2. Seen' \subseteq Seen
    BY <1>1 DEF Seen, Shown
  <1>3. StampInv' /\ IdInv'
    BY <1>1, <1>2 DEF WriteInv, StampInv, IdInv, Replaces
  <1>4. TypeOK'
    <2>1. IsFiniteSet(coll')
      BY <1>0, <1>1, FS_Subset DEF TypeOK
    <2>2. changes' \in 0 .. MaxChanges
      BY <1>0, <1>1, ListsAssumption DEF TypeOK
    <2> QED BY <1>0, <1>1, <2>1, <2>2 DEF TypeOK
  <1> QED BY <1>3, <1>4 DEF WriteInv

LEMMA WriteStep == WriteInv /\ [Next]_vars => WriteInv'
  <1> SUFFICES ASSUME WriteInv, [Next]_vars PROVE WriteInv'
    OBVIOUS
  <1>0. TypeOK
    BY DEF WriteInv
  <1>1. CASE Begin \/ PathAuthorization \/ ListChanges \/ UNCHANGED vars
    BY <1>0, <1>1, BeginQuiet, WriteQuiet
  <1>2. CASE Finished
    BY <1>1, <1>2 DEF Finished
  <1> QED BY <1>1, <1>2, WriteGot, WriteStamp, WriteCommit, WriteDelete DEF Next

\* Pages, collection and pending writes keep their types whatever is written,
\* and whatever is asked for; the collection never has two documents with the
\* same id, although a PATCH is stamped before the transaction that replaces its
\* document.
THEOREM ListingTypeCorrect == Spec => []TypeOK
  <1>1. WriteInv => TypeOK
    BY DEF WriteInv
  <1> QED BY <1>1, WriteInit, WriteStep, PTL DEF Spec

-----------------------------------------------------------------------------
(***************************************************************************)
(* What a page shows.  All pages are full while the walk goes on.          *)
(***************************************************************************)
PageInv ==
    \A k \in DOMAIN pages :
        /\ \A d \in ToSet(pages[k].items) : Fits(d, pages[k].granted)
        /\ Len(pages[k].items) <= Limit
        /\ k < Len(pages) \/ pc \in Walking => Len(pages[k].items) = Limit

\* The query is the same for the whole walk.
LEMMA SameQuery ==
  ASSUME walk' = walk
  PROVE  /\ Limit' = Limit /\ Filters' = Filters /\ Sorts' = Sorts
         /\ \A d, names : Fits(d, names)' <=> Fits(d, names)
         /\ \A sign : ByTime(sign)' <=> ByTime(sign)
  <1>1. Limit' = Limit /\ Filters' = Filters /\ Sorts' = Sorts
    BY DEF Limit, Filters, Sorts
  <1> QED BY <1>1 DEF Fits, ByTime

\* Only the list handler shows a page.
LEMMA PagesSame ==
  ASSUME TypeOK, [Next]_vars, ~ListHandler
  PROVE  /\ UNCHANGED <<walk, pages, first, offset>>
         /\ pc' \in Walking => pc \in Walking
  <1>1. CASE Begin \/ PathAuthorization
    BY <1>1 DEF Begin, PathAuthorization, Refuse, Walking
  <1>2. CASE ListChanges \/ \E d \in coll : Delete(d)
    BY <1>2 DEF ListChanges, Delete, Change
  <1>3. CASE \E w \in pending : Commit(w)
    BY <1>3 DEF Commit
  <1>4. CASE \E a \in Authors :
               \/ \E p \in {<<d.uid, d.workspace>> : d \in FirstDocs} : StampNew(p[1], p[2], a)
               \/ \E d \in coll : StampPatch(d, a)
    BY <1>4 DEF StampNew, StampPatch, Stamp, Change
  <1>5. CASE Finished \/ UNCHANGED vars
    BY <1>5 DEF Finished, vars
  <1> QED BY <1>1, <1>2, <1>3, <1>4, <1>5 DEF Next

LEMMA PageStep == TypeOK /\ PageInv /\ [Next]_vars => PageInv'
  <1> SUFFICES ASSUME TypeOK, PageInv, [Next]_vars PROVE PageInv'
    OBVIOUS
  <1>1. ASSUME UNCHANGED <<walk, pages>>, pc' \in Walking => pc \in Walking
        PROVE  PageInv'
    BY <1>1, SameQuery DEF PageInv
  <1>2. CASE ~ListHandler
    BY <1>1, <1>2, PagesSame
  <1>3. CASE Refuse
    BY <1>1, <1>3 DEF Refuse, Walking
  <1>4. ASSUME NEW answer, NEW s \in Seq(Document),
               pc = "list", Limit \in Nat, Pageful(answer, s), Got(answer),
               answer.total = Len(s), PageOf(answer) \in Page,
               PageOf(answer).items = Items(s), PageOf(answer).granted = Granted(ctx)
        PROVE  PageInv'
    <2> DEFINE p == PageOf(answer)
    <2>1. pages' = Append(pages, p) /\ walk' = walk /\ ctx' = ctx
      BY <1>4 DEF Got, PageOf
    <2>2. /\ Len(pages') = Len(pages) + 1 /\ Len(pages) \in Nat
          /\ DOMAIN pages = 1 .. Len(pages) /\ DOMAIN pages' = 1 .. Len(pages')
          /\ \A k \in 1 .. Len(pages) : pages'[k] = pages[k]
          /\ pages'[Len(pages) + 1] = p
      BY <1>4, <2>1, PagesAppend
    <2>3. walk \in Walks /\ offset \in Nat /\ Limit >= 0
      BY <1>4 DEF TypeOK
    <2>4. /\ Items(s) \in Seq(Document)
          /\ Len(Items(s)) <= Limit
          /\ offset + Limit <= Len(s) => Len(Items(s)) = Limit
          /\ \A k \in 1 .. Len(Items(s)) :
               offset + k <= Len(s) /\ Items(s)[k] = s[offset + k]
      BY <2>3, ItemsShape
    <2>5. \A d \in ToSet(Items(s)) : Fits(d, Granted(ctx))
      <3>1. \A d \in ToSet(s) : Fits(d, Granted(ctx))
        BY <1>4 DEF Pageful, Wanted
      <3>2. ASSUME NEW k \in 1 .. Len(Items(s)) PROVE Items(s)[k] \in ToSet(s)
        <4>1. offset + k \in 1 .. Len(s)
          BY <2>3, <2>4
        <4> QED BY <2>4, <4>1 DEF ToSet
      <3>3. DOMAIN Items(s) = 1 .. Len(Items(s))
        BY <2>4
      <3> QED BY <3>1, <3>2, <3>3 DEF ToSet
    <2>6. pc' \in Walking => Len(Items(s)) = Limit
      <3>1. offset + Limit < Len(s) \/ pc' = "done"
        BY <1>4 DEF Got
      <3>2. Len(s) \in Nat
        OBVIOUS
      <3> QED BY <1>4, <2>3, <2>4, <3>1, <3>2 DEF Walking
    <2> HIDE DEF p
    <2>7. p.items = Items(s) /\ p.granted = Granted(ctx)
      BY <1>4 DEF p
    <2>8. ASSUME NEW k \in 1 .. Len(pages')
          PROVE  /\ \A d \in ToSet(pages'[k].items) : Fits(d, pages[k].granted)'
                 /\ Len(pages'[k].items) <= Limit'
                 /\ k < Len(pages') \/ pc' \in Walking => Len(pages'[k].items) = Limit'
      <3>1. CASE k \in 1 .. Len(pages)
        <4>1. /\ \A d \in ToSet(pages[k].items) : Fits(d, pages[k].granted)
              /\ Len(pages[k].items) = Limit
          BY <1>4, <2>2, <3>1 DEF PageInv, Walking
        <4>2. pages'[k] = pages[k]
          BY <2>2, <3>1
        <4>3. \A d \in ToSet(pages'[k].items) : Fits(d, pages[k].granted)'
          BY <2>1, <4>1, <4>2, SameQuery DEF Fits
        <4> QED BY <1>4, <2>1, <4>1, <4>2, <4>3, SameQuery
      <3>2. CASE k = Len(pages) + 1
        <4>1. pages'[k] = p /\ ~(k < Len(pages'))
          BY <2>2, <3>2
        <4>2. \A d \in ToSet(pages'[k].items) : Fits(d, pages[k].granted)'
          BY <2>1, <2>5, <2>7, <4>1, SameQuery DEF Fits
        <4> QED BY <2>1, <2>4, <2>6, <2>7, <4>1, <4>2, SameQuery
      <3> QED BY <2>2, <3>1, <3>2
    <2> QED BY <2>2, <2>8 DEF PageInv
  <1> QED BY <1>2, <1>3, <1>4, GotShape

\* Whatever is written, deleted or granted between the requests of a walk, a page
\* has only documents that the access of the user and every filter let through,
\* for any number of filters in any split into parameters, and only the last page
\* is not full.
THEOREM PagesAsAsked == Spec => []AsAsked
  <1>1. Init => PageInv
    BY DEF Init, PageInv
  <1>2. TypeOK /\ PageInv => AsAsked
    <2> SUFFICES ASSUME TypeOK, PageInv, NEW k \in DOMAIN pages
                 PROVE  /\ \A d \in ToSet(pages[k].items) : Fits(d, pages[k].granted)
                        /\ IF k < Len(pages) THEN Len(pages[k].items) = Limit
                           ELSE Len(pages[k].items) <= Limit
      BY DEF AsAsked
    <2> QED BY DEF PageInv
  <1> QED BY <1>1, <1>2, PageStep, ListingTypeCorrect, PTL DEF Spec

-----------------------------------------------------------------------------
(***************************************************************************)
(* Positions.  Sorted by time, a document stands behind those that are     *)
(* before it in time, or after it, and their number is its position.       *)
(***************************************************************************)

\* The first sort key decides.
LEMMA TimeKey ==
  ASSUME walk \in Walks, NEW sign \in {"+", "-"}, ByTime(sign),
         NEW d \in Document, NEW e \in Document
  PROVE  /\ sign = "+" /\ d.timestamp < e.timestamp => Before(sort_queries(Sorts), d, e)
         /\ sign = "-" /\ e.timestamp < d.timestamp => Before(sort_queries(Sorts), d, e)
  <1> DEFINE S == Sorts
             keys == sort_queries(S)
  <1>1. S \in Seq(Seq(SortPart)) /\ S # <<>> /\ S[1] # <<>>
    BY SortTypes DEF ByTime
  <1>2. 1 \in DOMAIN S /\ DOMAIN S = 1 .. Len(S)
    BY <1>1, EmptySeq, LenProperties
  <1>3. S[1] \in Seq(SortPart)
    BY <1>1, <1>2, ElementOfSeq
  <1>4. 1 \in DOMAIN S[1] /\ DOMAIN S[1] = 1 .. Len(S[1])
    BY <1>1, <1>3, EmptySeq, LenProperties
  <1>5. DOMAIN keys = DOMAIN S /\ keys[1] = parse_sort_query(S[1])
    BY <1>2 DEF sort_queries, Each
  <1>6. /\ DOMAIN keys[1] = DOMAIN S[1]
        /\ keys[1][1] = [key |-> S[1][1].field, order |-> IF S[1][1].sign = "+" THEN ASC ELSE DESC]
    BY <1>4, <1>5 DEF parse_sort_query, Each
  <1>7. /\ keys[1][1].key = "timestamp"
        /\ keys[1][1].order = IF sign = "+" THEN ASC ELSE DESC
    BY <1>6 DEF ByTime
  <1>8. \A x \in Document : Value(x, "timestamp") = x.timestamp
    BY DEF Value, Document
  <1> HIDE DEF S, keys
  <1>9. \A a \in 1 .. 1 : \A b \in DOMAIN keys[a] : ~(a < 1 \/ b < 1)
    BY <1>4, <1>6
  <1>10. 1 \in DOMAIN keys /\ 1 \in DOMAIN keys[1]
    BY <1>2, <1>4, <1>5, <1>6
  <1>11. ASC # DESC
    BY DEF ASC, DESC
  <1>12. ASSUME sign = "+", d.timestamp < e.timestamp
         PROVE  Before(keys, d, e)
    <2>1. IF keys[1][1].order = ASC THEN Value(d, keys[1][1].key) < Value(e, keys[1][1].key)
          ELSE Value(e, keys[1][1].key) < Value(d, keys[1][1].key)
      BY <1>7, <1>8, <1>12
    <2> QED BY <1>9, <1>10, <2>1 DEF Before
  <1>13. ASSUME sign = "-", e.timestamp < d.timestamp
         PROVE  Before(keys, d, e)
    <2>1. IF keys[1][1].order = ASC THEN Value(d, keys[1][1].key) < Value(e, keys[1][1].key)
          ELSE Value(e, keys[1][1].key) < Value(d, keys[1][1].key)
      BY <1>7, <1>8, <1>11, <1>13
    <2> QED BY <1>9, <1>10, <2>1 DEF Before
  <1> QED BY <1>12, <1>13 DEF keys, S

\* As many documents as there are places up to the p-th.
LEMMA CountPlaces ==
  ASSUME NEW s \in Seq(Document), NEW p \in 1 .. Len(s),
         \A j, k \in 1 .. Len(s) : s[j] = s[k] => j = k,
         NEW T, \A x : x \in T <=> \E q \in 1 .. p : x = s[q]
  PROVE  IsFiniteSet(T) /\ Cardinality(T) = p
  <1> DEFINE f == [q \in 1 .. p |-> s[q]]
  <1>1. p \in Nat /\ 1 .. p \subseteq 1 .. Len(s)
    OBVIOUS
  <1>2. f \in [1 .. p -> T]
    OBVIOUS
  <1>3. f \in Injection(1 .. p, T)
    BY <1>1, <1>2 DEF Injection, IsInjective
  <1>4. f \in Surjection(1 .. p, T)
    BY <1>2 DEF Surjection
  <1>5. ExistsBijection(1 .. p, T)
    BY <1>3, <1>4 DEF ExistsBijection, Bijection
  <1>6. Cardinality(T) = p
    BY <1>1, <1>5, FS_CountingElements
  <1>7. IsFiniteSet(T)
    BY <1>1, <1>5, FS_NatBijection
  <1> QED BY <1>6, <1>7

LEMMA PlaceByTime ==
  ASSUME WriteInv, NEW answer, NEW s \in Seq(Document), Pageful(answer, s),
         NEW p \in 1 .. Len(s)
  PROVE  /\ ByTime("+") =>
              Cardinality({e \in Wanted(coll, ctx) : e.timestamp <= s[p].timestamp}) = p
         /\ ByTime("-") =>
              Cardinality({e \in Wanted(coll, ctx) : e.timestamp >= s[p].timestamp}) = p
  <1>0. walk \in Walks
    BY DEF WriteInv, TypeOK
  <1>1. /\ DOMAIN s = 1 .. Len(s) /\ Len(s) \in Nat
        /\ \A q \in 1 .. Len(s) : s[q] \in Document /\ s[q].timestamp \in Nat
    <2>1. \A x \in Document : x.timestamp \in Nat
      BY DEF Document
    <2> QED BY <2>1
  <1>2. \A e : e \in Wanted(coll, ctx) <=> \E q \in 1 .. Len(s) : e = s[q]
    BY <1>1 DEF Pageful, ToSet
  <1>3. \A j, k \in 1 .. Len(s) : s[j].timestamp = s[k].timestamp => j = k
    <2>1. \A j \in 1 .. Len(s) : s[j] \in coll
      BY <1>2 DEF Wanted
    <2>2. \A d, e \in coll : d.timestamp = e.timestamp => d = e
      BY DEF WriteInv, StampInv, Seen
    <2> QED BY <2>1, <2>2 DEF Pageful
  <1>4. ASSUME ByTime("+")
        PROVE  Cardinality({e \in Wanted(coll, ctx) : e.timestamp <= s[p].timestamp}) = p
    <2> DEFINE T == {e \in Wanted(coll, ctx) : e.timestamp <= s[p].timestamp}
    <2>1. \A j, k \in 1 .. Len(s) : j < k => s[j].timestamp < s[k].timestamp
      <3> SUFFICES ASSUME NEW j \in 1 .. Len(s), NEW k \in 1 .. Len(s), j < k
                   PROVE  s[j].timestamp < s[k].timestamp
        OBVIOUS
      <3>1. ~Before(sort_queries(Sorts), s[k], s[j])
        BY DEF Pageful
      <3>2. ~(s[k].timestamp < s[j].timestamp)
        BY <1>0, <1>1, <1>4, <3>1, TimeKey
      <3> QED BY <1>1, <1>3, <3>2
    <2>2. \A q \in 1 .. Len(s) : s[q].timestamp <= s[p].timestamp <=> q <= p
      BY <1>1, <2>1
    <2>3. \A x : x \in T <=> \E q \in 1 .. p : x = s[q]
      BY <1>1, <1>2, <2>2
    <2> HIDE DEF T
    <2>4. Cardinality(T) = p
      BY <2>3, CountPlaces DEF Pageful
    <2> QED BY <2>4 DEF T
  <1>5. ASSUME ByTime("-")
        PROVE  Cardinality({e \in Wanted(coll, ctx) : e.timestamp >= s[p].timestamp}) = p
    <2> DEFINE T == {e \in Wanted(coll, ctx) : e.timestamp >= s[p].timestamp}
    <2>1. \A j, k \in 1 .. Len(s) : j < k => s[j].timestamp > s[k].timestamp
      <3> SUFFICES ASSUME NEW j \in 1 .. Len(s), NEW k \in 1 .. Len(s), j < k
                   PROVE  s[j].timestamp > s[k].timestamp
        OBVIOUS
      <3>1. ~Before(sort_queries(Sorts), s[k], s[j])
        BY DEF Pageful
      <3>2. ~(s[j].timestamp < s[k].timestamp)
        BY <1>0, <1>1, <1>5, <3>1, TimeKey
      <3> QED BY <1>1, <1>3, <3>2
    <2>2. \A q \in 1 .. Len(s) : s[q].timestamp >= s[p].timestamp <=> q <= p
      BY <1>1, <2>1
    <2>3. \A x : x \in T <=> \E q \in 1 .. p : x = s[q]
      BY <1>1, <1>2, <2>2
    <2> HIDE DEF T
    <2>4. Cardinality(T) = p
      BY <2>3, CountPlaces DEF Pageful
    <2> QED BY <2>4 DEF T
  <1> QED BY <1>4, <1>5

-----------------------------------------------------------------------------
(***************************************************************************)
(* Nothing is shown twice.  Sorted by time, oldest first, a document only  *)
(* moves forward while it stays: whatever is shown stands before the       *)
(* offset of the next page, or has left the collection for good.           *)
(***************************************************************************)
Fitting == {e \in coll : Fits(e, pages[1].granted)}
UpTo(d) == {e \in Fitting : e.timestamp <= d.timestamp}

Steady == SameAccess /\ ~late /\ ByTime("+")

RepeatInv ==
    /\ NothingRepeated
    /\ Steady /\ pc \in Walking =>
         \A d \in Shown \cap coll : Cardinality(UpTo(d)) <= offset

\* The documents of a page are those that fit the access of the first page.
LEMMA FittingAtPage ==
  ASSUME TypeOK, NEW p \in Page, p.granted = Granted(ctx), pages' = Append(pages, p),
         UNCHANGED <<walk, ctx, coll>>, SameAccess'
  PROVE  /\ Fitting' = Wanted(coll, ctx)
         /\ pages # <<>> => /\ Fitting = Wanted(coll, ctx)
                            /\ SameAccess /\ pages[1].granted = Granted(ctx)
         /\ pages'[1].granted = Granted(ctx)
  <1>1. pages \in Seq(Page)
    BY DEF TypeOK, Page
  <1>2. /\ Len(pages') = Len(pages) + 1 /\ Len(pages) \in Nat
        /\ DOMAIN pages = 1 .. Len(pages) /\ DOMAIN pages' = 1 .. Len(pages')
        /\ \A k \in 1 .. Len(pages) : pages'[k] = pages[k]
        /\ pages'[Len(pages) + 1] = p
    BY PagesAppend
  <1>3. pages'[Len(pages) + 1].granted = pages'[1].granted
    BY <1>2 DEF SameAccess
  <1>4. pages'[1].granted = Granted(ctx)
    BY <1>2, <1>3
  <1>5. Fitting' = Wanted(coll, ctx)
    BY <1>4, SameQuery DEF Fitting, Wanted, Fits
  <1>6. ASSUME pages # <<>>
        PROVE  Fitting = Wanted(coll, ctx) /\ SameAccess /\ pages[1].granted = Granted(ctx)
    <2>1. 1 \in 1 .. Len(pages)
      BY <1>1, <1>6, EmptySeq
    <2>2. pages[1].granted = Granted(ctx)
      BY <1>2, <1>4, <2>1
    <2>3. SameAccess
      BY <1>2, <2>1 DEF SameAccess
    <2> QED BY <2>2, <2>3 DEF Fitting, Wanted
  <1> QED BY <1>4, <1>5, <1>6

\* Between two pages, no document moves back.
LEMMA NoneMovesBack ==
  ASSUME WriteInv, [Next]_vars, ~ListHandler, ~late', NEW d \in Shown', d \in coll'
  PROVE  ~late /\ d \in Shown /\ d \in coll /\ UpTo(d)' \subseteq UpTo(d)
  <1>0. UNCHANGED <<walk, pages>> /\ TypeOK
    BY PagesSame DEF WriteInv
  <1>1. d \in Shown
    BY <1>0 DEF Shown
  <1>2. ASSUME coll' \subseteq coll, ~late
        PROVE  ~late /\ d \in coll /\ UpTo(d)' \subseteq UpTo(d)
    <2>1. Fitting' \subseteq Fitting
      BY <1>0, <1>2, SameQuery DEF Fitting, Fits
    <2> QED BY <1>2, <2>1 DEF UpTo
  <1>3. CASE Begin \/ PathAuthorization \/ ListChanges \/ Finished \/ UNCHANGED vars
    <2>1. Begin \/ PathAuthorization \/ ListChanges \/ UNCHANGED vars
      BY <1>3 DEF Finished
    <2>2. coll' = coll /\ late' = late
      BY <1>0, <2>1, BeginQuiet
    <2> QED BY <1>1, <1>2, <2>2
  <1>4. CASE \E a \in Authors :
               \/ \E p \in {<<e.uid, e.workspace>> : e \in FirstDocs} : StampNew(p[1], p[2], a)
               \/ \E e \in coll : StampPatch(e, a)
    <2>1. coll' = coll /\ late' = late
      BY <1>4 DEF StampNew, StampPatch, Stamp
    <2> QED BY <1>1, <1>2, <2>1
  <1>5. CASE \E x \in coll : Delete(x)
    <2>1. coll' \subseteq coll /\ late' = late
      BY <1>5 DEF Delete, Becomes
    <2> QED BY <1>1, <1>2, <2>1
  <1>6. ASSUME NEW w \in pending, Commit(w)
        PROVE  ~late /\ d \in coll /\ UpTo(d)' \subseteq UpTo(d)
    <2>1. /\ coll' = (coll \ w.old) \cup {w.new}
          /\ ~late /\ (pages = <<>> \/ ~\E e \in coll : e.timestamp > w.new.timestamp)
      BY <1>6 DEF Commit, Becomes
    <2>2. pages # <<>>
      BY <1>1 DEF Shown
    <2>3. \A e \in coll \cup Shown : e.timestamp # w.new.timestamp
      BY DEF WriteInv, StampInv, Seen
    <2>4. d \in coll
      BY <1>1, <2>1, <2>3
    <2>5. /\ w.new.timestamp \in Nat /\ \A e \in coll : e.timestamp \in Nat
          /\ w.new \in Document
      <3>1. \A e \in Document : e.timestamp \in Nat
        BY DEF Document
      <3>2. w.new \in Document /\ coll \subseteq Document
        BY <1>0 DEF TypeOK
      <3> QED BY <3>1, <3>2
    <2>6. ~(w.new.timestamp <= d.timestamp)
      BY <2>1, <2>2, <2>3, <2>4, <2>5
    <2>7. \A e \in Fitting' : e = w.new \/ e \in Fitting
      BY <1>0, <2>1, SameQuery DEF Fitting, Fits
    <2> QED BY <2>1, <2>4, <2>6, <2>7 DEF UpTo
  <1> QED BY <1>1, <1>3, <1>4, <1>5, <1>6 DEF Next

LEMMA UpToFinite ==
  ASSUME TypeOK, NEW d
  PROVE  IsFiniteSet(UpTo(d)) /\ Cardinality(UpTo(d)) \in Nat
  <1>1. UpTo(d) \subseteq coll /\ IsFiniteSet(coll)
    BY DEF UpTo, Fitting, TypeOK
  <1> QED BY <1>1, FS_Subset, FS_CardinalityType

\* The page that the client gets shows what is behind the offset, and what it was
\* shown before stands before it.
LEMMA RepeatGot ==
  ASSUME WriteInv, RepeatInv, NEW answer, NEW s \in Seq(Document),
         pc = "list", Limit \in Nat, Pageful(answer, s), Got(answer),
         answer.total = Len(s), PageOf(answer) \in Page,
         PageOf(answer).items = Items(s), PageOf(answer).granted = Granted(ctx),
         Steady'
  PROVE  /\ \A a \in DOMAIN Items(s) : Items(s)[a] \notin Shown
         /\ \A a, b \in DOMAIN Items(s) : Items(s)[a] = Items(s)[b] => a = b
         /\ pc' \in Walking => \A d \in Shown' \cap coll' : Cardinality(UpTo(d)') <= offset'
         /\ Steady
  <1> DEFINE p == PageOf(answer)
             W == Wanted(coll, ctx)
  <1>0. /\ TypeOK /\ walk \in Walks /\ offset \in Nat /\ Limit \in Nat /\ Limit >= 0
        /\ coll \in SUBSET Document
    BY DEF WriteInv, TypeOK
  <1>1. /\ pages' = Append(pages, p) /\ UNCHANGED <<walk, ctx, coll, late>>
        /\ pc' \in Walking => offset' = offset + Limit
    BY DEF Got, PageOf, others, Walking
  <1>2. /\ Fitting' = W
        /\ pages # <<>> => Fitting = W /\ SameAccess
    BY <1>0, <1>1, FittingAtPage DEF Steady
  <1>3. ByTime("+") /\ ~late
    BY <1>1, SameQuery DEF Steady
  <1>4. SameAccess
    BY <1>2 DEF SameAccess
  <1>5. Steady
    BY <1>3, <1>4 DEF Steady
  <1>6. /\ DOMAIN s = 1 .. Len(s) /\ Len(s) \in Nat
        /\ \A e : e \in W <=> \E q \in 1 .. Len(s) : e = s[q]
        /\ \A j, k \in 1 .. Len(s) : s[j] = s[k] => j = k
    BY DEF Pageful, ToSet
  <1>7. \A q \in 1 .. Len(s) : Cardinality({e \in W : e.timestamp <= s[q].timestamp}) = q
    BY <1>3, PlaceByTime
  <1>8. /\ Items(s) \in Seq(Document)
        /\ DOMAIN Items(s) = 1 .. Len(Items(s)) /\ Len(Items(s)) \in Nat
        /\ Len(Items(s)) <= Limit
        /\ \A a \in DOMAIN Items(s) :
             offset + a \in 1 .. Len(s) /\ Items(s)[a] = s[offset + a]
    <2>1. /\ Items(s) \in Seq(Document) /\ Len(Items(s)) <= Limit
          /\ \A k \in 1 .. Len(Items(s)) :
               offset + k <= Len(s) /\ Items(s)[k] = s[offset + k]
      BY <1>0, ItemsShape
    <2>2. DOMAIN Items(s) = 1 .. Len(Items(s)) /\ Len(Items(s)) \in Nat
      BY <2>1
    <2> QED BY <1>0, <1>6, <2>1, <2>2
  <1> HIDE DEF p, W
  <1>9. \A a, b \in DOMAIN Items(s) : Items(s)[a] = Items(s)[b] => a = b
    <2> SUFFICES ASSUME NEW a \in DOMAIN Items(s), NEW b \in DOMAIN Items(s),
                        Items(s)[a] = Items(s)[b]
                 PROVE  a = b
      OBVIOUS
    <2>1. offset + a = offset + b
      BY <1>6, <1>8
    <2>2. a \in Nat /\ b \in Nat
      BY <1>8
    <2> QED BY <1>0, <2>1, <2>2
  <1>10. ASSUME NEW d \in Shown, NEW q \in 1 .. Len(s), d = s[q]
         PROVE  q <= offset
    <2>1. d \in coll
      BY <1>6, <1>10 DEF Wanted, W
    <2>2. Cardinality(UpTo(d)) <= offset
      BY <1>5, <2>1 DEF RepeatInv, Walking
    <2>3. Fitting = W
      BY <1>2, <1>10 DEF Shown
    <2>4. UpTo(d) = {e \in W : e.timestamp <= s[q].timestamp}
      BY <1>10, <2>3 DEF UpTo
    <2> QED BY <1>7, <2>2, <2>4
  <1>11. \A a \in DOMAIN Items(s) : Items(s)[a] \notin Shown
    <2> SUFFICES ASSUME NEW a \in DOMAIN Items(s), Items(s)[a] \in Shown
                 PROVE  FALSE
      OBVIOUS
    <2>1. offset + a \in 1 .. Len(s) /\ Items(s)[a] = s[offset + a] /\ a \in 1 .. Len(Items(s))
      BY <1>8
    <2>2. offset + a <= offset
      BY <1>10, <2>1
    <2> QED BY <1>0, <1>8, <2>1, <2>2
  <1>12. ASSUME pc' \in Walking, NEW d \in Shown', d \in coll'
         PROVE  Cardinality(UpTo(d)') <= offset'
    <2>1. UpTo(d)' = {e \in W : e.timestamp <= d.timestamp}
      BY <1>2 DEF UpTo
    <2>2. offset' = offset + Limit /\ d \in coll
      BY <1>1, <1>12
    <2>3. Shown' = Shown \cup ToSet(Items(s))
      BY <1>0, <1>1, PagesAppend DEF p
    <2>4. CASE d \in Shown
      <3>1. Cardinality(UpTo(d)) <= offset
        BY <1>5, <2>2, <2>4 DEF RepeatInv, Walking
      <3>2. Fitting = W
        BY <1>2, <2>4 DEF Shown
      <3>3. UpTo(d)' = UpTo(d)
        BY <2>1, <3>2 DEF UpTo
      <3>4. Cardinality(UpTo(d)) \in Nat
        BY <1>0, UpToFinite
      <3> QED BY <1>0, <2>2, <3>1, <3>3, <3>4
    <2>5. CASE d \in ToSet(Items(s))
      <3>1. PICK a \in DOMAIN Items(s) : d = Items(s)[a]
        BY <2>5 DEF ToSet
      <3>2. offset + a \in 1 .. Len(s) /\ d = s[offset + a]
        BY <1>8, <3>1
      <3>3. Cardinality(UpTo(d)') = offset + a
        BY <1>7, <2>1, <3>2
      <3>4. a \in Nat /\ a <= Limit
        BY <1>0, <1>8
      <3> QED BY <1>0, <2>2, <3>3, <3>4
    <2> QED BY <1>12, <2>3, <2>4, <2>5
  <1> QED BY <1>5, <1>9, <1>11, <1>12

LEMMA RepeatStep == WriteInv /\ RepeatInv /\ [Next]_vars => RepeatInv'
  <1> SUFFICES ASSUME WriteInv, RepeatInv, [Next]_vars PROVE RepeatInv'
    OBVIOUS
  <1>0. TypeOK
    BY DEF WriteInv
  <1>1. CASE ~ListHandler
    <2>1. UNCHANGED <<walk, pages, offset>> /\ (pc' \in Walking => pc \in Walking)
      BY <1>0, <1>1, PagesSame
    <2>2. (SameAccess' <=> SameAccess) /\ (ByTime("+")' <=> ByTime("+"))
      BY <2>1, SameQuery DEF SameAccess
    <2>3. late => late'
      <3>1. CASE Begin \/ PathAuthorization \/ ListChanges \/ Finished \/ UNCHANGED vars
        BY <1>0, <3>1, BeginQuiet DEF Finished
      <3> QED BY <1>1, <3>1 DEF Next, StampNew, StampPatch, Stamp, Commit, Delete
    <2>4. NothingRepeated'
      BY <2>1, <2>2, <2>3 DEF RepeatInv, NothingRepeated
    <2>5. ASSUME Steady', pc' \in Walking, NEW d \in Shown', d \in coll'
          PROVE  Cardinality(UpTo(d)') <= offset'
      <3>1. ~late' /\ Steady /\ pc \in Walking
        BY <2>1, <2>2, <2>3, <2>5 DEF Steady
      <3>2. d \in Shown /\ d \in coll /\ UpTo(d)' \subseteq UpTo(d)
        BY <1>1, <2>5, <3>1, NoneMovesBack
      <3>3. Cardinality(UpTo(d)) <= offset
        BY <3>1, <3>2 DEF RepeatInv
      <3>4. /\ IsFiniteSet(UpTo(d)) /\ Cardinality(UpTo(d)) \in Nat /\ offset \in Nat
        BY <1>0, UpToFinite DEF TypeOK
      <3>5. Cardinality(UpTo(d)') <= Cardinality(UpTo(d)) /\ Cardinality(UpTo(d)') \in Nat
        BY <3>2, <3>4, FS_Subset, FS_CardinalityType
      <3> QED BY <2>1, <3>3, <3>4, <3>5
    <2> QED BY <2>4, <2>5 DEF RepeatInv
  <1>2. CASE Refuse
    <2>1. UNCHANGED <<walk, pages, offset, late>> /\ pc' \notin Walking
      BY <1>2 DEF Refuse, others, Walking
    <2>2. NothingRepeated'
      BY <2>1, SameQuery DEF RepeatInv, NothingRepeated, SameAccess
    <2> QED BY <2>1, <2>2 DEF RepeatInv
  <1>3. ASSUME NEW answer, NEW s \in Seq(Document),
               pc = "list", Limit \in Nat, Pageful(answer, s), Got(answer),
               answer.total = Len(s), PageOf(answer) \in Page,
               PageOf(answer).items = Items(s), PageOf(answer).granted = Granted(ctx)
        PROVE  RepeatInv'
    <2>1. CASE ~Steady'
      BY <2>1 DEF RepeatInv, Steady, NothingRepeated
    <2>2. CASE Steady'
      <3>1. /\ \A a \in DOMAIN Items(s) : Items(s)[a] \notin Shown
            /\ \A a, b \in DOMAIN Items(s) : Items(s)[a] = Items(s)[b] => a = b
            /\ pc' \in Walking => \A d \in Shown' \cap coll' : Cardinality(UpTo(d)') <= offset'
            /\ Steady
        BY <1>3, <2>2, RepeatGot
      <3>2. pages' = Append(pages, PageOf(answer))
        BY <1>3 DEF Got, PageOf
      <3>3. /\ Len(pages') = Len(pages) + 1 /\ Len(pages) \in Nat
            /\ DOMAIN pages = 1 .. Len(pages) /\ DOMAIN pages' = 1 .. Len(pages')
            /\ \A k \in 1 .. Len(pages) : pages'[k] = pages[k]
            /\ pages'[Len(pages) + 1].items = Items(s)
        BY <1>0, <1>3, <3>2, PagesAppend
      <3>4. \A j, k \in DOMAIN pages :
              \A a \in DOMAIN pages[j].items, b \in DOMAIN pages[k].items :
                pages[j].items[a] = pages[k].items[b] => j = k /\ a = b
        BY <3>1 DEF RepeatInv, NothingRepeated, Steady
      <3>5. \A j \in DOMAIN pages : \A a \in DOMAIN pages[j].items :
              pages[j].items[a] \in Shown
        BY DEF Shown, ToSet
      <3> DEFINE New == Len(pages) + 1
      <3>6. \A k \in DOMAIN pages' : k \in DOMAIN pages \/ k = New
        BY <3>3
      <3>7. ASSUME NEW j \in DOMAIN pages', NEW k \in DOMAIN pages',
                   NEW a \in DOMAIN pages'[j].items, NEW b \in DOMAIN pages'[k].items,
                   pages'[j].items[a] = pages'[k].items[b]
            PROVE  j = k /\ a = b
        <4>1. CASE j \in DOMAIN pages /\ k \in DOMAIN pages
          <5>1. pages'[j] = pages[j] /\ pages'[k] = pages[k]
            BY <3>3, <4>1
          <5> QED BY <3>4, <3>7, <4>1, <5>1
        <4>2. CASE j \in DOMAIN pages /\ k = New
          <5>1. pages'[j] = pages[j] /\ pages'[k].items = Items(s)
            BY <3>3, <4>2
          <5> QED BY <3>1, <3>5, <3>7, <4>2, <5>1
        <4>3. CASE j = New /\ k \in DOMAIN pages
          <5>1. pages'[k] = pages[k] /\ pages'[j].items = Items(s)
            BY <3>3, <4>3
          <5> QED BY <3>1, <3>5, <3>7, <4>3, <5>1
        <4>4. CASE j = New /\ k = New
          <5>1. pages'[k].items = Items(s) /\ pages'[j].items = Items(s)
            BY <3>3, <4>4
          <5> QED BY <3>1, <3>7, <4>4, <5>1
        <4> QED BY <3>6, <4>1, <4>2, <4>3, <4>4
      <3>8. NothingRepeated'
        BY <3>7 DEF NothingRepeated
      <3> QED BY <3>1, <3>8 DEF RepeatInv
    <2> QED BY <2>1, <2>2
  <1> QED BY <1>0, <1>1, <1>2, <1>3, GotShape

\* A walk that sorts by time, oldest first, shows no document twice, for any limit,
\* any filters and further sort keys, and any writes, deletions and changes of
\* access between its requests, unless a write was overtaken by one with a later
\* timestamp.
THEOREM PagesDontRepeat == Spec => []NothingRepeated
  <1>1. Init => RepeatInv
    BY DEF Init, RepeatInv, NothingRepeated, Shown
  <1>2. RepeatInv => NothingRepeated
    BY DEF RepeatInv
  <1> QED BY <1>1, <1>2, WriteInit, WriteStep, RepeatStep, PTL DEF Spec

-----------------------------------------------------------------------------
(***************************************************************************)
(* Nothing is missed.  Sorted by time, newest first, a document that is    *)
(* not touched only moves back while none leaves the list: one that was    *)
(* asked for at the first page and is not shown yet stands behind the      *)
(* offset.  The access may change back and forth between two pages, so the *)
(* positions count only while the context is as at the first page.         *)
(***************************************************************************)
From(d) == {e \in Fitting : e.timestamp >= d.timestamp}

Kept == SameAccess /\ ~lost /\ ByTime("-") /\ pages # <<>>

FirstInv ==
    /\ pages = <<>> => offset = 0
    /\ \A d \in first : pages # <<>> /\ Fits(d, pages[1].granted)
    /\ pc = "next" /\ pages # <<>> => Granted(ctx) = pages[Len(pages)].granted

MissInv ==
    Kept =>
        /\ pc = "done" => first \cap coll \subseteq Shown
        /\ pc \in Walking /\ Granted(ctx) = pages[1].granted =>
             \A d \in (first \cap coll) \ Shown : Cardinality(From(d)) > offset

LEMMA FromFinite ==
  ASSUME TypeOK, NEW d
  PROVE  IsFiniteSet(From(d)) /\ Cardinality(From(d)) \in Nat
  <1>1. From(d) \subseteq coll /\ IsFiniteSet(coll)
    BY DEF From, Fitting, TypeOK
  <1> QED BY <1>1, FS_Subset, FS_CardinalityType

\* Only the first request of a page takes a new context.
LEMMA ContextSame ==
  ASSUME TypeOK, [Next]_vars, ~ListHandler
  PROVE  /\ ctx' = ctx \/ (Begin /\ pc = "next" /\ pc' # "next" /\ coll' = coll /\ lost' = lost)
         /\ pc' = "next" => pc = "next"
         /\ pc' = "done" => pc = "done" /\ UNCHANGED <<coll, lost>>
         /\ lost => lost'
  <1>1. CASE Begin
    BY <1>1 DEF Begin, others
  <1>2. CASE PathAuthorization
    BY <1>2 DEF PathAuthorization, Refuse, others
  <1>3. CASE ListChanges
    BY <1>3 DEF ListChanges, Change
  <1>4. CASE \E d \in coll : Delete(d)
    BY <1>4 DEF Delete, Change, Becomes
  <1>5. CASE \E w \in pending : Commit(w)
    BY <1>5 DEF Commit, Becomes
  <1>6. CASE \E a \in Authors :
               \/ \E p \in {<<d.uid, d.workspace>> : d \in FirstDocs} : StampNew(p[1], p[2], a)
               \/ \E d \in coll : StampPatch(d, a)
    <2>1. UNCHANGED <<pc, ctx, coll, lost>>
      BY <1>6 DEF StampNew, StampPatch, Stamp, Change
    <2> QED BY <2>1
  <1>7. CASE Finished \/ UNCHANGED vars
    BY <1>7 DEF Finished, vars, others
  <1> QED BY <1>1, <1>2, <1>3, <1>4, <1>5, <1>6, <1>7 DEF Next

LEMMA FirstStep == TypeOK /\ FirstInv /\ [Next]_vars => FirstInv'
  <1> SUFFICES ASSUME TypeOK, FirstInv, [Next]_vars PROVE FirstInv'
    OBVIOUS
  <1>1. CASE ~ListHandler
    <2>1. UNCHANGED <<walk, pages, first, offset>>
      BY <1>1, PagesSame
    <2>2. pc' = "next" => pc = "next" /\ ctx' = ctx
      BY <1>1, ContextSame
    <2>3. ctx' = ctx => Granted(ctx)' = Granted(ctx)
      BY <2>1 DEF Granted
    <2>4. \A d \in first' : pages' # <<>> /\ Fits(d, pages[1].granted)'
      BY <2>1, SameQuery DEF FirstInv, Fits
    <2> QED BY <2>1, <2>2, <2>3, <2>4 DEF FirstInv
  <1>2. CASE Refuse
    <2>1. UNCHANGED <<walk, pages, first, offset>> /\ pc' # "next"
      BY <1>2 DEF Refuse
    <2>2. \A d \in first' : pages' # <<>> /\ Fits(d, pages[1].granted)'
      BY <2>1, SameQuery DEF FirstInv, Fits
    <2> QED BY <2>1, <2>2 DEF FirstInv
  <1>3. ASSUME NEW answer, Got(answer), PageOf(answer) \in Page,
               PageOf(answer).granted = Granted(ctx)
        PROVE  FirstInv'
    <2> DEFINE p == PageOf(answer)
    <2>1. /\ pages' = Append(pages, p) /\ UNCHANGED <<walk, ctx>>
          /\ first' = IF pages = <<>> THEN Wanted(coll, ctx) ELSE first
      BY <1>3 DEF Got, PageOf
    <2>2. /\ Len(pages') = Len(pages) + 1 /\ Len(pages) \in Nat
          /\ \A k \in 1 .. Len(pages) : pages'[k] = pages[k]
          /\ pages'[Len(pages) + 1] = p
      BY <1>3, <2>1, PagesAppend
    <2> HIDE DEF p
    <2>3. p.granted = Granted(ctx) /\ Granted(ctx)' = Granted(ctx)
      BY <1>3, <2>1 DEF p, Granted
    <2>4. pages' # <<>>
      BY <2>2
    <2>5. \A d \in first' : Fits(d, pages[1].granted)'
      <3>1. CASE pages = <<>>
        <4>1. pages'[1].granted = Granted(ctx) /\ first' = Wanted(coll, ctx)
          BY <2>1, <2>2, <2>3, <3>1
        <4> QED BY <2>1, <4>1, SameQuery DEF Wanted, Fits
      <3>2. CASE pages # <<>>
        <4>1. Len(pages) # 0
          BY <3>2, EmptySeq DEF TypeOK
        <4>2. pages'[1] = pages[1] /\ first' = first
          BY <2>1, <2>2, <3>2, <4>1
        <4> QED BY <2>1, <4>2, SameQuery DEF FirstInv, Fits
      <3> QED BY <3>1, <3>2
    <2>6. pages'[Len(pages')].granted = Granted(ctx)'
      BY <2>2, <2>3
    <2> QED BY <2>4, <2>5, <2>6 DEF FirstInv
  <1> QED BY <1>1, <1>2, <1>3, GotShape

\* What the history variable lost stands for.
LEMMA IdsKept ==
  ASSUME pages # <<>>, ~lost', NEW docs, Becomes(docs), NEW o \in Wanted(coll, ctx)
  PROVE  \E e \in Wanted(docs, ctx) : e.id = o.id
  <1>1. Ids(Wanted(coll, ctx)) \subseteq Ids(Wanted(docs, ctx))
    BY DEF Becomes
  <1> QED BY <1>1 DEF Ids

\* Between two pages, no document that is not touched moves forward.
LEMMA NoneMovesForward ==
  ASSUME WriteInv, [Next]_vars, ~ListHandler, ctx' = ctx, pages # <<>>, ~lost',
         Granted(ctx) = pages[1].granted,
         NEW d \in first, d \in coll'
  PROVE  d \in coll /\ Cardinality(From(d)') >= Cardinality(From(d))
  <1>0. /\ UNCHANGED <<walk, pages>> /\ TypeOK
        /\ Cardinality(From(d)) \in Nat /\ IsFiniteSet(From(d))
    BY PagesSame, FromFinite DEF WriteInv
  <1>1. IsFiniteSet(From(d)') /\ Cardinality(From(d)') \in Nat
    <2>1. IsFiniteSet(coll')
      BY WriteStep DEF WriteInv, TypeOK
    <2>2. From(d)' \subseteq coll'
      BY DEF From, Fitting
    <2> QED BY <2>1, <2>2, FS_Subset, FS_CardinalityType
  <1>2. /\ Fitting' = {e \in coll' : Fits(e, Granted(ctx))}
        /\ Fitting = {e \in coll : Fits(e, Granted(ctx))}
    BY <1>0, SameQuery DEF Fitting, Fits
  <1>3. ASSUME From(d) \subseteq From(d)'
        PROVE  Cardinality(From(d)') >= Cardinality(From(d))
    <2>1. Cardinality(From(d)) <= Cardinality(From(d)')
      BY <1>1, <1>3, FS_Subset
    <2> QED BY <1>0, <1>1, <2>1
  <1>4. ASSUME coll' = coll
        PROVE  d \in coll /\ Cardinality(From(d)') >= Cardinality(From(d))
    <2>1. From(d) \subseteq From(d)'
      BY <1>2, <1>4 DEF From
    <2> QED BY <1>3, <1>4, <2>1
  <1>5. CASE Begin \/ PathAuthorization \/ ListChanges \/ Finished \/ UNCHANGED vars
    <2>1. Begin \/ PathAuthorization \/ ListChanges \/ UNCHANGED vars
      BY <1>5 DEF Finished
    <2>2. coll' = coll
      BY <1>0, <2>1, BeginQuiet
    <2> QED BY <1>4, <2>2
  <1>6. CASE \E a \in Authors :
               \/ \E p \in {<<e.uid, e.workspace>> : e \in FirstDocs} : StampNew(p[1], p[2], a)
               \/ \E e \in coll : StampPatch(e, a)
    <2>1. coll' = coll
      BY <1>6 DEF StampNew, StampPatch, Stamp
    <2> QED BY <1>4, <2>1
  <1>7. ASSUME NEW x \in coll, Delete(x)
        PROVE  d \in coll /\ Cardinality(From(d)') >= Cardinality(From(d))
    <2>1. coll' = coll \ {x} /\ Becomes(coll \ {x})
      BY <1>7 DEF Delete, Becomes
    <2>2. x \notin Fitting
      <3> SUFFICES ASSUME x \in Fitting PROVE FALSE
        OBVIOUS
      <3>1. x \in Wanted(coll, ctx)
        BY <1>2 DEF Wanted
      <3>2. PICK e \in Wanted(coll \ {x}, ctx) : e.id = x.id
        BY <2>1, <3>1, IdsKept
      <3>3. e \in coll /\ e # x
        BY DEF Wanted
      <3> QED BY <1>0, <3>2, <3>3 DEF TypeOK
    <2>3. From(d) \subseteq From(d)'
      BY <1>2, <2>1, <2>2 DEF From
    <2> QED BY <1>3, <2>1, <2>3
  <1>8. ASSUME NEW w \in pending, Commit(w)
        PROVE  d \in coll /\ Cardinality(From(d)') >= Cardinality(From(d))
    <2>1. /\ coll' = (coll \ w.old) \cup {w.new} /\ w.old \subseteq coll
          /\ Becomes((coll \ w.old) \cup {w.new})
      BY <1>8 DEF Commit, Becomes
    <2>2. \A e \in coll \cup first : e # w.new
      BY DEF WriteInv, StampInv, Seen
    <2>3. d \in coll
      BY <2>1, <2>2
    <2>4. CASE w.old \cap From(d) = {}
      <3>1. From(d) \subseteq From(d)'
        BY <1>2, <2>1, <2>4 DEF From
      <3> QED BY <1>3, <2>3, <3>1
    <2>5. ASSUME NEW o \in w.old, o \in From(d)
          PROVE  Cardinality(From(d)') >= Cardinality(From(d))
      <3>1. w.old = {o} /\ o.id = w.new.id /\ o.timestamp < w.new.timestamp
        BY <2>5 DEF WriteInv, IdInv, Replaces
      <3>2. o \in Fitting /\ o.timestamp >= d.timestamp /\ o \in coll
        BY <1>2, <2>5 DEF From
      <3>3. PICK e \in Wanted((coll \ w.old) \cup {w.new}, ctx) : e.id = o.id
        <4>1. o \in Wanted(coll, ctx)
          BY <1>2, <3>2 DEF Wanted
        <4> QED BY <2>1, <4>1, IdsKept
      <3>4. e = w.new
        <4>1. e \in coll \ {o} \/ e = w.new
          BY <3>1, <3>3 DEF Wanted
        <4>2. \A c \in coll : c.id = o.id => c = o
          BY <1>0, <3>2 DEF TypeOK
        <4> QED BY <3>3, <4>1, <4>2
      <3>5. w.new \in Fitting'
        BY <1>2, <2>1, <3>3, <3>4 DEF Wanted
      <3>6. o.timestamp \in Nat /\ d.timestamp \in Nat /\ w.new.timestamp \in Nat
        <4>1. \A c \in Document : c.timestamp \in Nat
          BY DEF Document
        <4>2. o \in Document /\ d \in Document /\ w.new \in Document
          BY <1>0, <2>3, <3>2 DEF TypeOK
        <4> QED BY <4>1, <4>2
      <3>7. w.new \in From(d)' /\ w.new \notin From(d)
        <4>1. w.new.timestamp >= d.timestamp
          BY <3>1, <3>2, <3>6
        <4>2. w.new \notin coll
          BY <2>2
        <4> QED BY <3>5, <4>1, <4>2 DEF From, Fitting
      <3> DEFINE R == From(d) \ {o}
                 A == R \cup {w.new}
      <3>8. A \subseteq From(d)'
        <4>1. R \subseteq From(d)'
          BY <1>2, <2>1, <3>1 DEF From
        <4> QED BY <3>7, <4>1
      <3>9. IsFiniteSet(R) /\ Cardinality(R) = Cardinality(From(d)) - 1
        BY <1>0, <2>5, FS_RemoveElement
      <3>10. Cardinality(A) = Cardinality(R) + 1
        <4>1. w.new \notin R
          BY <3>7
        <4> HIDE DEF R
        <4> QED BY <3>9, <4>1, FS_AddElement
      <3>11. Cardinality(A) <= Cardinality(From(d)')
        <4> HIDE DEF A
        <4> QED BY <1>1, <3>8, FS_Subset
      <3>12. Cardinality(A) = Cardinality(From(d))
        <4> HIDE DEF A, R
        <4> QED BY <1>0, <3>9, <3>10
      <3> QED BY <1>0, <1>1, <3>11, <3>12
    <2> QED BY <2>3, <2>4, <2>5
  <1> QED BY <1>5, <1>6, <1>7, <1>8 DEF Next

\* The page that the client gets takes the documents from the offset on: one that
\* stood behind it is shown, or stands behind the next.
LEMMA MissGot ==
  ASSUME WriteInv, FirstInv, MissInv, NEW answer, NEW s \in Seq(Document),
         pc = "list", Limit \in Nat, Pageful(answer, s), Got(answer),
         answer.total = Len(s), PageOf(answer) \in Page,
         PageOf(answer).items = Items(s), PageOf(answer).granted = Granted(ctx),
         Kept', NEW d \in first', d \in coll', d \notin Shown'
  PROVE  pc' \in Walking /\ Cardinality(From(d)') > offset'
  <1> DEFINE p == PageOf(answer)
             W == Wanted(coll, ctx)
  <1>0. /\ TypeOK /\ walk \in Walks /\ offset \in Nat /\ Limit \in Nat /\ Limit >= 0
        /\ Len(s) \in Nat /\ DOMAIN s = 1 .. Len(s)
    BY DEF WriteInv, TypeOK
  <1>1. /\ pages' = Append(pages, p) /\ UNCHANGED <<walk, ctx, coll, lost>>
        /\ first' = IF pages = <<>> THEN W ELSE first
        /\ \/ pc' = "next" /\ offset' = offset + Limit
           \/ ~(offset + Limit < Len(s))
    BY DEF Got, PageOf, others
  <1>2. /\ Fitting' = W
        /\ pages # <<>> => Fitting = W /\ SameAccess /\ pages[1].granted = Granted(ctx)
    BY <1>0, <1>1, FittingAtPage DEF Kept
  <1>3. ByTime("-") /\ ~lost
    BY <1>1, SameQuery DEF Kept
  <1>4. Shown' = Shown \cup ToSet(Items(s))
    BY <1>0, <1>1, PagesAppend
  <1>5. d \in W
    <2>1. CASE pages = <<>>
      BY <1>1, <2>1
    <2>2. CASE pages # <<>>
      <3>1. Fits(d, Granted(ctx))
        BY <1>1, <1>2, <2>2 DEF FirstInv
      <3> QED BY <1>1, <3>1 DEF Wanted
    <2> QED BY <2>1, <2>2
  <1>6. PICK q \in 1 .. Len(s) : d = s[q]
    BY <1>0, <1>5 DEF Pageful, ToSet
  <1>7. Cardinality({e \in W : e.timestamp >= d.timestamp}) = q
    BY <1>3, <1>6, PlaceByTime
  <1> HIDE DEF p, W
  <1>8. q > offset
    <2>1. CASE pages = <<>>
      BY <1>0, <2>1 DEF FirstInv
    <2>2. CASE pages # <<>>
      <3>1. Kept /\ d \in (first \cap coll) \ Shown
        BY <1>1, <1>2, <1>3, <1>4, <2>2 DEF Kept
      <3>2. Cardinality(From(d)) > offset
        BY <1>2, <2>2, <3>1 DEF MissInv, Walking
      <3>3. From(d) = {e \in W : e.timestamp >= d.timestamp}
        BY <1>2, <2>2 DEF From
      <3> QED BY <1>7, <3>2, <3>3
    <2> QED BY <2>1, <2>2
  <1>9. q > offset + Limit
    <2> SUFFICES ASSUME q <= offset + Limit PROVE FALSE
      BY <1>0
    <2>1. /\ Items(s) \in Seq(Document)
          /\ q - offset \in 1 .. Len(Items(s)) /\ Items(s)[q - offset] = s[q]
      BY <1>0, <1>8, ItemsShape
    <2>2. DOMAIN Items(s) = 1 .. Len(Items(s))
      BY <2>1
    <2>3. d \in ToSet(Items(s))
      BY <1>6, <2>1, <2>2 DEF ToSet
    <2> QED BY <1>4, <2>3
  <1>10. pc' = "next" /\ offset' = offset + Limit
    BY <1>0, <1>1, <1>6, <1>9
  <1>11. From(d)' = {e \in W : e.timestamp >= d.timestamp}
    BY <1>2 DEF From
  <1> QED BY <1>7, <1>9, <1>10, <1>11 DEF Walking

LEMMA MissStep == WriteInv /\ FirstInv /\ MissInv /\ [Next]_vars => MissInv'
  <1> SUFFICES ASSUME WriteInv, FirstInv, MissInv, [Next]_vars, Kept'
               PROVE  /\ pc' = "done" => first' \cap coll' \subseteq Shown'
                      /\ pc' \in Walking /\ Granted(ctx)' = pages'[1].granted =>
                           \A d \in (first' \cap coll') \ Shown' :
                              Cardinality(From(d)') > offset'
    BY DEF MissInv
  <1>0. TypeOK
    BY DEF WriteInv
  <1>1. CASE ~ListHandler
    <2>1. UNCHANGED <<walk, pages, first, offset>> /\ (pc' \in Walking => pc \in Walking)
      BY <1>0, <1>1, PagesSame
    <2>2. /\ ctx' = ctx \/ (pc = "next" /\ coll' = coll)
          /\ pc' = "done" => pc = "done" /\ UNCHANGED coll
          /\ lost => lost'
      BY <1>0, <1>1, ContextSame
    <2>3. Kept /\ Shown' = Shown /\ ~lost' /\ pages # <<>>
      BY <2>1, <2>2, SameQuery DEF Kept, SameAccess, Shown
    <2>4. pc' = "done" => first' \cap coll' \subseteq Shown'
      BY <2>1, <2>2, <2>3 DEF MissInv
    <2>5. ASSUME pc' \in Walking, Granted(ctx)' = pages'[1].granted,
                 NEW d \in (first' \cap coll') \ Shown'
          PROVE  Cardinality(From(d)') > offset'
      <3>1. d \in first /\ d \in coll' /\ d \notin Shown /\ pc \in Walking
        BY <2>1, <2>3, <2>5
      <3>2. CASE ctx' = ctx
        <4>1. Granted(ctx) = pages[1].granted
          BY <2>1, <2>5, <3>2 DEF Granted
        <4>2. d \in coll /\ Cardinality(From(d)') >= Cardinality(From(d))
          BY <1>1, <2>3, <3>1, <3>2, <4>1, NoneMovesForward
        <4>3. Cardinality(From(d)) > offset
          BY <2>3, <3>1, <4>1, <4>2 DEF MissInv
        <4>4. Cardinality(From(d)) \in Nat /\ Cardinality(From(d)') \in Nat /\ offset \in Nat
          <5>1. TypeOK'
            BY WriteStep DEF WriteInv
          <5>2. From(d)' \subseteq coll' /\ IsFiniteSet(coll')
            BY <5>1 DEF From, Fitting, TypeOK
          <5> QED BY <1>0, <5>2, FromFinite, FS_Subset, FS_CardinalityType DEF TypeOK
        <4> QED BY <2>1, <4>2, <4>3, <4>4
      <3>3. CASE pc = "next" /\ coll' = coll
        <4>1. Granted(ctx) = pages[Len(pages)].granted
          BY <2>3, <3>3 DEF FirstInv
        <4>2. Len(pages) \in DOMAIN pages
          BY <1>0, <2>3, EmptySeq DEF TypeOK
        <4>3. Granted(ctx) = pages[1].granted
          BY <2>3, <4>1, <4>2 DEF Kept, SameAccess
        <4>4. Cardinality(From(d)) > offset
          BY <2>3, <3>1, <3>3, <4>3 DEF MissInv
        <4>5. From(d)' = From(d)
          BY <2>1, <3>3, SameQuery DEF From, Fitting, Fits
        <4> QED BY <2>1, <4>4, <4>5
      <3> QED BY <2>2, <3>2, <3>3
    <2> QED BY <2>4, <2>5
  <1>2. CASE Refuse
    BY <1>2 DEF Refuse, Walking
  <1>3. ASSUME NEW answer, NEW s \in Seq(Document),
               pc = "list", Limit \in Nat, Pageful(answer, s), Got(answer),
               answer.total = Len(s), PageOf(answer) \in Page,
               PageOf(answer).items = Items(s), PageOf(answer).granted = Granted(ctx)
        PROVE  /\ pc' = "done" => first' \cap coll' \subseteq Shown'
               /\ \A d \in (first' \cap coll') \ Shown' : Cardinality(From(d)') > offset'
    <2>1. \A d \in (first' \cap coll') \ Shown' :
            pc' \in Walking /\ Cardinality(From(d)') > offset'
      BY <1>3, MissGot
    <2>2. pc' = "done" => pc' \notin Walking
      BY DEF Walking
    <2> QED BY <2>1, <2>2
  <1> QED BY <1>0, <1>1, <1>2, <1>3, GotShape

\* A walk that sorts by time, newest first, and comes to its end shows every
\* document that was asked for at its first page and has not been touched since,
\* for any limit, any filters and further sort keys, and any writes meanwhile,
\* unless a document left the list or the access was another for some page.
THEOREM PagesMissNothing == Spec => []NothingMissed
  <1>1. Init => FirstInv /\ MissInv
    BY DEF Init, FirstInv, MissInv, Kept
  <1>2. WriteInv /\ FirstInv /\ MissInv => NothingMissed
    <2> SUFFICES ASSUME WriteInv, FirstInv, MissInv,
                        pc = "done", SameAccess, ~lost, ByTime("-")
                 PROVE  first \cap coll \subseteq Shown
      BY DEF NothingMissed
    <2>1. CASE pages = <<>>
      BY <2>1 DEF FirstInv
    <2>2. CASE pages # <<>>
      BY <2>2 DEF MissInv, Kept
    <2> QED BY <2>1, <2>2
  <1>3. WriteInv => TypeOK
    BY DEF WriteInv
  <1> QED BY <1>1, <1>2, <1>3, WriteInit, WriteStep, FirstStep, MissStep, PTL DEF Spec
=============================================================================
