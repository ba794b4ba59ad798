------------------------------- MODULE Listing -------------------------------
(***************************************************************************)
(* The list endpoints: storage/parsequery.go, the List... operations of    *)
(* storage/mongo.go and storage/mongovolumestorage.go, and their handlers. *)
(* A client reads a list page by page, each page a request of its own,     *)
(* while other users write, delete, and gain or lose access.               *)
(*                                                                         *)
(* A walk is what the client asks for: a record with the kind of list, the *)
(* user, the uid or the workspace of the path where the kind has one, and  *)
(* the query parameters.  A filter or sort parameter is a sequence of      *)
(* parts (the code splits at commas), each a record of what the regular    *)
(* expression finds in it, with op or sign "" if it does not match.  A     *)
(* document is a record of the fields that can be asked for; authors and   *)
(* times are numbers, the value of a search is the set of what it matches. *)
(***************************************************************************)
EXTENDS Access, Integers, FiniteSets, SequencesExt

CONSTANTS
    Walks,       \* what a client may ask for
    Lists,       \* the lists of workspaces there may be
    FirstList,   \* the one at the beginning
    FirstDocs,   \* the documents at the beginning
    FirstWrites, \* the writes that have their timestamp then
    Authors,     \* who writes
    MaxChanges   \* bound on writes, deletions and changes of the list of workspaces

\* What the handlers and the regular expressions let through to this point.
Kinds == {"component", "component versions", "workflow", "workflow versions", "job", "volume"}
Operators == {"==", "!=", ">=", "<=", ">", "<", "search"}
SortPart == [sign : {"+", "-", ""}, field : STRING]
Names == DOMAIN FirstList

ASSUME WalkAssumption ==
    \A w \in Walks :
        /\ w.kind \in Kinds /\ w.ws \in Names
        /\ w.limits \in Seq(Int)
        /\ w.sorts \in Seq(Seq(SortPart))
        /\ \A i \in DOMAIN w.filters : \A j \in DOMAIN w.filters[i] :
              w.filters[i][j].op \in Operators \cup {""}

\* A document of the collection.
Document == [id : Nat, uid : {d.uid : d \in FirstDocs}, version : Nat, workspace : Names,
             author : Nat, timestamp : Nat]

\* Every write has had a timestamp and an id of its own.
ASSUME FirstAssumption ==
    LET known == FirstDocs \cup {w.new : w \in FirstWrites}
        count == Cardinality(FirstDocs \cup FirstWrites)
    IN  /\ IsFiniteSet(FirstDocs) /\ IsFiniteSet(FirstWrites)
        /\ FirstDocs \subseteq Document
        /\ FirstWrites \subseteq [old : {{}}, new : Document]
        /\ \A w \in FirstWrites : w.new \notin FirstDocs
        /\ \A d \in known : d.id \in 1 .. count /\ d.timestamp \in 1 .. count
        /\ \A d, e \in known : d.id = e.id \/ d.timestamp = e.timestamp => d = e

ASSUME ListsAssumption ==
    /\ FirstList \in Lists /\ \A l \in Lists : DOMAIN l = Names
    /\ Authors \subseteq Nat /\ MaxChanges \in Nat

VARIABLES
    walk,     \* what the client asks for
    pc,       \* where its current request is
    ctx,      \* the workspaces in the context of that request
    offset,   \* the offset of the page it asks for
    pages,    \* the pages it has got
    coll,     \* the collection
    pending,  \* writes with their timestamp that are not committed yet
    clock,    \* the last timestamp given
    list,     \* the cached list of workspaces
    changes,  \* number of changes so far
    first,    \* history: the documents that the first page was taken from
    lost,     \* history: since then, a document has left those that are asked for
    late      \* history: since then, a write came after one with a later timestamp

others == <<coll, pending, clock, list, changes, lost, late>>
vars == <<walk, pc, ctx, offset, pages, first, others>>

NotATime == -1

-----------------------------------------------------------------------------
(* The query *)

Each(s, F(_)) == [k \in DOMAIN s |-> F(s[k])]

\* A number that is no number, or negative, is refused; of several the first
\* counts.
parsePaginationOrDefault(numbers, default) == IF numbers = <<>> THEN default ELSE numbers[1]

Limit == parsePaginationOrDefault(walk.limits, 10)

PaginationError == Limit < 0

ASC == 1
DESC == -1

\* Mutant: the newest first, whatever the sign.
SortDescending(parts) == Each(parts, LAMBDA p : [key |-> p.field, order |-> DESC])

parse_sort_query(parts) ==
    Each(parts, LAMBDA p : [key |-> p.field, order |-> IF p.sign = "+" THEN ASC ELSE DESC])

SortError(sorts) == \E k \in DOMAIN sorts : \E j \in DOMAIN sorts[k] : sorts[k][j].sign = ""

\* The parts of the first parameter, then those of the next: Before takes them
\* in this order.
sort_queries(sorts) == Each(sorts, parse_sort_query)

mongo_operator(op) ==
    CASE op = "==" -> "$eq"
      [] op = "!=" -> "$neq"
      [] op = ">=" -> "$gte"
      [] op = "<=" -> "$lte"
      [] op = ">"  -> "$gt"
      [] op = "<"  -> "$lt"
      [] op = "search" -> "$regex"

parse_filter_query(parts) ==
    Each(parts, LAMBDA p : [key |-> p.field, op |-> mongo_operator(p.op), value |-> p.value])

FilterError(filters) ==
    \E k \in DOMAIN filters : \E j \in DOMAIN filters[k] :
        \/ filters[k][j].op = ""
        \/ filters[k][j].field = "timestamp" /\ filters[k][j].value = NotATime

filter_queries(filters) == Each(filters, parse_filter_query)

\* Mutant: only the first of several filters is used.
JoinFirst(queries) == IF queries = <<>> THEN {} ELSE ToSet(queries[1])

\* One query as it is, several with $and: the conditions, all of which must hold.
join_queries(queries) == UNION {ToSet(queries[k]) : k \in DOMAIN queries}

-----------------------------------------------------------------------------
(* The pipeline *)

\* Lists of versions take no filters; the handler of volumes passes its own
\* filter and no sort.
VersionLists == {"component versions", "workflow versions"}
Filters ==
    CASE walk.kind \in VersionLists -> <<>>
      [] walk.kind = "volume" ->
            <<<<[field |-> "workspace", op |-> "==", value |-> walk.ws]>>>>
      [] OTHER -> walk.filters
Sorts == IF walk.kind = "volume" THEN <<>> ELSE walk.sorts

\* The workspaces given to createWorkspaceFilter: of workflows and jobs those the
\* user has access to, of versions of workflows and volumes those of the context.
\* Components belong to no workspace.
Granted(context) ==
    {n \in DOMAIN context :
        \/ walk.kind \in {"component", "component versions"}
        \/ /\ walk.kind \in {"workflow versions", "volume"}
           /\ context[n] # NoWorkspace
        \/ CheckWorkspaceAccess(context, n, walk.user)}

\* parse_filter_query makes a time of the value for a timestamp and leaves every
\* other a string: MongoDB matches no number, and no id of its own, with that.
Comparable(field, d) == field \in DOMAIN d \ {"id", "version"}

\* MongoDB: a condition on a field, and the operators it knows.
Applies(c, d) ==
    /\ Comparable(c.key, d)
    /\ CASE c.op = "$eq"  -> d[c.key] = c.value
         [] c.op = "$gte" -> d[c.key] >= c.value
         [] c.op = "$lte" -> d[c.key] <= c.value
         [] c.op = "$gt"  -> d[c.key] > c.value
         [] c.op = "$lt"  -> d[c.key] < c.value
         [] c.op = "$regex" -> d[c.key] \in c.value

KnownOperators == {"$eq", "$gte", "$lte", "$gt", "$lt", "$regex"}

\* The $match stages: the conditions of the query, the workspaces, the uid.
Conditions == join_queries(filter_queries(Filters))
Matching(docs) == {d \in docs : \A c \in Conditions : Applies(c, d)}
createWorkspaceFilter(docs, names) == {d \in docs : d.workspace \in names}
OfUid(docs) == {d \in docs : d.uid = walk.uid}

\* The $sort stage: by the keys, in any order otherwise.
Value(d, key) == IF key \in DOMAIN d THEN d[key] ELSE 0
Before(keys, d, e) ==
    \E i \in DOMAIN keys : \E j \in DOMAIN keys[i] :
        /\ \A a \in 1 .. i : \A b \in DOMAIN keys[a] :
              a < i \/ b < j => Value(d, keys[a][b].key) = Value(e, keys[a][b].key)
        /\ IF keys[i][j].order = ASC THEN Value(d, keys[i][j].key) < Value(e, keys[i][j].key)
           ELSE Value(e, keys[i][j].key) < Value(d, keys[i][j].key)
Orders(docs) ==
    LET some == SetToSeq(docs)
    IN  {[k \in 1 .. Cardinality(docs) |-> p[some[k]]] : p \in Permutations(docs)}
Sorted(docs, keys) ==
    {s \in Orders(docs) : /\ ToSet(s) = docs
                          /\ \A j, k \in DOMAIN s : j < k => ~Before(keys, s[k], s[j])}

\* Mutant: the limit is applied before the offset.
LimitFirst(s) == SubSeq(s, offset + 1, Min({Limit, Len(s)}))

\* The facets: "order is important, skip before limit".
Items(s) == SubSeq(s, offset + 1, Min({offset + Limit, Len(s)}))

\* MongoDB refuses an operator it does not know, a time as a regular expression
\* and a limit of zero.
AggregateError ==
    \/ \E c \in Conditions : \/ c.op \notin KnownOperators
                             \/ c.op = "$regex" /\ c.key = "timestamp"
    \/ Limit = 0

Answer(items, total) == [items |-> items, total |-> total]
Error == [error |-> TRUE]

\* The answers that the rest of the pipeline may give for the documents it has
\* matched.  With nothing to count there is no page info, and the answer, made
\* from a nil error, is the empty list.
Aggregate(docs) == {Answer(Items(s), Len(s)) : s \in Sorted(docs, sort_queries(Sorts))}

\* Filters are read, then sorts; then MongoDB is asked.
QueryError == FilterError(Filters) \/ SortError(Sorts) \/ AggregateError

-----------------------------------------------------------------------------
(* The operations of the storage: every answer they may give *)

ListComponentsMetadata(docs) ==
    IF QueryError THEN {Error} ELSE Aggregate(Matching(docs))

ListComponentVersionsMetadata(docs) ==
    IF QueryError THEN {Error} ELSE Aggregate(OfUid(docs))

\* Without access to any workspace the answer is an empty list, at once.
ListWorkflowsMetadata(docs, names) ==
    IF names = {} THEN {Answer(<<>>, 0)}
    ELSE IF QueryError THEN {Error}
    ELSE Aggregate(Matching(createWorkspaceFilter(docs, names)))

ListWorkflowVersionsMetadata(docs, names) ==
    IF names = {} THEN {Answer(<<>>, 0)}
    ELSE IF QueryError THEN {Error}
    ELSE Aggregate(OfUid(createWorkspaceFilter(docs, names)))

ListJobsMetadata(docs, names) ==
    IF names = {} THEN {Answer(<<>>, 0)}
    ELSE IF QueryError THEN {Error}
    ELSE Aggregate(Matching(createWorkspaceFilter(docs, names)))

ListVolumes(docs, names) ==
    IF QueryError THEN {Error}
    ELSE Aggregate(Matching(createWorkspaceFilter(docs, names)))

Answers(docs, names) ==
    CASE walk.kind = "component"          -> ListComponentsMetadata(docs)
      [] walk.kind = "component versions" -> ListComponentVersionsMetadata(docs)
      [] walk.kind = "workflow"           -> ListWorkflowsMetadata(docs, names)
      [] walk.kind = "workflow versions"  -> ListWorkflowVersionsMetadata(docs, names)
      [] walk.kind = "job"                -> ListJobsMetadata(docs, names)
      [] walk.kind = "volume"             -> ListVolumes(docs, names)

\* What an operator of a filter means (models/spec/flowify.json:1199), for a value
\* of the field's type.
Means(p, d) ==
    /\ Comparable(p.field, d)
    /\ CASE p.op = "==" -> d[p.field] = p.value
         [] p.op = "!=" -> d[p.field] # p.value
         [] p.op = ">=" -> d[p.field] >= p.value
         [] p.op = "<=" -> d[p.field] <= p.value
         [] p.op = ">"  -> d[p.field] > p.value
         [] p.op = "<"  -> d[p.field] < p.value
         [] p.op = "search" -> d[p.field] \in p.value

\* The documents that the client asks for and may see, said without the pipeline.
Fits(d, names) ==
    /\ d.workspace \in names
    /\ walk.kind \in VersionLists => d.uid = walk.uid
    /\ \A i \in DOMAIN Filters : \A j \in DOMAIN Filters[i] : Means(Filters[i][j], d)
Wanted(docs, context) == {d \in docs : Fits(d, Granted(context))}

-----------------------------------------------------------------------------
(* A request for a page *)

Init ==
    /\ walk \in Walks
    /\ pc = "next"
    /\ offset = 0
    /\ pages = <<>>
    /\ coll = FirstDocs
    /\ pending = FirstWrites
    /\ clock = Cardinality(FirstDocs \cup FirstWrites)
    /\ list = FirstList
    /\ ctx = FirstList
    /\ changes = 0
    /\ first = {}
    /\ lost = FALSE
    /\ late = FALSE

\* NewAuthorizationContext
Begin ==
    /\ pc = "next"
    /\ ctx' = Visible(list, walk.user)
    /\ pc' = IF walk.kind = "volume" THEN "authorize" ELSE "list"
    /\ UNCHANGED <<walk, offset, pages, first, others>>

Refuse ==
    /\ pc' = "refused"
    /\ UNCHANGED <<walk, ctx, offset, pages, first, others>>

\* PathAuthorization of the volumes.
PathAuthorization ==
    /\ pc = "authorize"
    /\ IF Authorize(list, walk.ws, walk.user, "list")
       THEN pc' = "list" /\ UNCHANGED <<walk, ctx, offset, pages, first, others>>
       ELSE Refuse

\* The client goes on while there is more.
Got(answer) ==
    /\ pages' = Append(pages, [items |-> answer.items, total |-> answer.total,
                               granted |-> Granted(ctx)])
    /\ first' = IF pages = <<>> THEN Wanted(coll, ctx) ELSE first
    /\ IF offset + Limit < answer.total THEN pc' = "next" /\ offset' = offset + Limit
       ELSE pc' = "done" /\ UNCHANGED offset
    /\ UNCHANGED <<walk, ctx, others>>

\* The handlers of lists.
ListHandler ==
    /\ pc = "list"
    /\ IF PaginationError THEN Refuse
       ELSE \E answer \in Answers(coll, Granted(ctx)) :
               IF answer = Error THEN Refuse ELSE Got(answer)

-----------------------------------------------------------------------------
(* Other users *)

Change ==
    /\ pc \notin {"done", "refused"}
    /\ changes < MaxChanges
    /\ changes' = changes + 1
    /\ UNCHANGED <<walk, pc, ctx, offset, pages, first>>

\* InitializeMetadata, TouchMetadata: author and timestamp, before the write.
Stamp(old, d, a) ==
    /\ Change
    /\ clock' = clock + 1
    /\ pending' = pending \cup
          {[old |-> old, new |-> [d EXCEPT !.author = a, !.timestamp = clock + 1]]}
    /\ UNCHANGED <<coll, list, lost, late>>

\* A POST or a PUT: a new document, with a uid and a workspace there are already.
StampNew(uid, ws, a) ==
    Stamp({}, [id |-> clock + 1, uid |-> uid, version |-> clock + 1, workspace |-> ws,
               author |-> a, timestamp |-> clock + 1], a)

\* A PATCH; jobs have none, volumes are replaced and have no timestamp.
StampPatch(d, a) == walk.kind \notin {"job", "volume"} /\ Stamp({d}, d, a)

Ids(docs) == {d.id : d \in docs}

\* The collection changes while the walk goes on.
Becomes(docs) ==
    /\ coll' = docs
    /\ lost' = (lost \/ (pages # <<>> /\ ~(Ids(Wanted(coll, ctx)) \subseteq Ids(Wanted(docs, ctx)))))

\* Mutant: a PATCH inserts instead of replacing.
CommitInserts(w) ==
    /\ pc \notin {"done", "refused"}
    /\ w.old \subseteq coll
    /\ Becomes(coll \cup {w.new})
    /\ pending' = pending \ {w}
    /\ late' = (late \/ (pages # <<>> /\ \E d \in coll : d.timestamp > w.new.timestamp))
    /\ UNCHANGED <<walk, pc, ctx, offset, pages, first, clock, list, changes>>

\* A PATCH finds the document it was made for, or nothing.
Commit(w) ==
    /\ pc \notin {"done", "refused"}
    /\ w.old \subseteq coll
    /\ Becomes((coll \ w.old) \cup {w.new})
    /\ pending' = pending \ {w}
    /\ late' = (late \/ (pages # <<>> /\ \E d \in coll : d.timestamp > w.new.timestamp))
    /\ UNCHANGED <<walk, pc, ctx, offset, pages, first, clock, list, changes>>

Delete(d) ==
    /\ Change
    /\ Becomes(coll \ {d})
    /\ UNCHANGED <<pending, clock, list, late>>

ListChanges ==
    /\ Change
    /\ list' \in Lists \ {list}
    /\ UNCHANGED <<coll, pending, clock, lost, late>>

Finished == pc \in {"done", "refused"} /\ UNCHANGED vars

Next ==
    \/ Begin \/ PathAuthorization \/ ListHandler
    \/ \E a \in Authors :
          \/ \E p \in {<<d.uid, d.workspace>> : d \in FirstDocs} : StampNew(p[1], p[2], a)
          \/ \E d \in coll : StampPatch(d, a)
    \/ \E w \in pending : Commit(w)
    \/ \E d \in coll : Delete(d)
    \/ ListChanges
    \/ Finished

Spec == Init /\ [][Next]_vars

-----------------------------------------------------------------------------
(* Properties *)

\* Every variable has its type; no two documents of the collection have the same
\* id, and a write is for at most one document.
TypeOK ==
    /\ walk \in Walks
    /\ pc \in {"next", "authorize", "list", "done", "refused"}
    /\ list \in Lists /\ DOMAIN ctx = Names
    /\ offset \in Nat /\ clock \in Nat
    /\ changes \in 0 .. MaxChanges
    /\ coll \in SUBSET Document /\ IsFiniteSet(coll)
    /\ \A d, e \in coll : d.id = e.id => d = e
    /\ pending \in SUBSET [old : SUBSET Document, new : Document]
    /\ \A w \in pending : w.new.timestamp \in 1 .. clock /\ Cardinality(w.old) <= 1
    /\ pages \in Seq([items : Seq(Document), total : Nat, granted : SUBSET Names])
    /\ first \in SUBSET Document
    /\ lost \in BOOLEAN /\ late \in BOOLEAN

\* The documents that the client has been shown.
Shown == UNION {ToSet(pages[k].items) : k \in DOMAIN pages}

\* What the client wrote as its first sort key.  Timestamps differ.
ByTime(sign) ==
    /\ Sorts # <<>> /\ Sorts[1] # <<>>
    /\ Sorts[1][1].field = "timestamp" /\ Sorts[1][1].sign = sign

SameAccess == \A k \in DOMAIN pages : pages[k].granted = pages[1].granted

\* A walk that sorts by time, newest first, shows every document that was asked
\* for at its first page and has not been touched since, whatever was written
\* meanwhile, unless a document left the list: writes only move others back
\* (sort, then skip, then limit, in the pipelines of the List operations).
NothingMissed ==
    (pc = "done" /\ SameAccess /\ ~lost /\ ByTime("-")) =>
        first \cap coll \subseteq Shown

\* A walk that sorts by time, oldest first, shows no document twice, whatever was
\* written, changed or removed meanwhile, unless a write was overtaken by one with
\* a later timestamp (the timestamp is taken before the transaction).
NothingRepeated ==
    (SameAccess /\ ~late /\ ByTime("+")) =>
        \A j, k \in DOMAIN pages :
            \A a \in DOMAIN pages[j].items, b \in DOMAIN pages[k].items :
                pages[j].items[a] = pages[k].items[b] => j = k /\ a = b

\* A page has only documents that the access of the user and every filter of the
\* query let through, whether filters come as several parameters or as parts of
\* one (join_queries, createWorkspaceFilter), and all pages but the last are full.
AsAsked ==
    \A k \in DOMAIN pages :
        /\ \A d \in ToSet(pages[k].items) : Fits(d, pages[k].granted)
        /\ IF k < Len(pages) THEN Len(pages[k].items) = Limit
           ELSE Len(pages[k].items) <= Limit

\* Every filter with a documented operator, and a date as in the documented
\* example "timestamp[>]=2022-02-22", is answered (models/spec/flowify.json:1199,
\* :1210).
DocumentedFiltersAnswered ==
    pc = "refused" =>
        \/ Limit <= 0 \/ SortError(Sorts)
        \/ \E i \in DOMAIN Filters : \E j \in DOMAIN Filters[i] : Filters[i][j].op = ""

=============================================================================
