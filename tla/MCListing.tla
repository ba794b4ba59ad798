------------------------------ MODULE MCListing ------------------------------
(* Users, workspaces, documents and queries for Listing. *)
EXTENDS Listing

\* A member of both workspaces and one of the first only.
Both == [email |-> "both", roles |-> {<<"r1">>, <<"r2">>}]
One  == [email |-> "one", roles |-> {<<"r1">>}]

Open(r) == [roles |-> <<<<r>>>>, hide |-> FALSE]
MCFirstList == [w1 |-> Open(<<"r1">>), w2 |-> Open(<<"r2">>)]
MCLists ==
    {MCFirstList, [MCFirstList EXCEPT !.w2.hide = TRUE], [MCFirstList EXCEPT !.w1 = NoWorkspace]}

\* Two versions of component "a" and one of "b", and another of "b" under way.
Doc(id, uid, ws, author) ==
    [id |-> id, uid |-> uid, version |-> id, workspace |-> ws, author |-> author, timestamp |-> id]
MCFirstDocs == {Doc(1, "a", "w1", 1), Doc(2, "a", "w1", 2), Doc(4, "b", "w2", 1)}
MCFirstWrites == {[old |-> {}, new |-> Doc(3, "b", "w2", 2)]}

Asking(kind, user, filters, sorts, limits) ==
    [kind |-> kind, user |-> user, uid |-> "a", ws |-> "w1",
     filters |-> filters, sorts |-> sorts, limits |-> limits]

By(sign, field) == [sign |-> sign, field |-> field]
If(field, op, value) == [field |-> field, op |-> op, value |-> value]

Up   == <<<<By("+", "timestamp")>>>>
Down == <<<<By("-", "timestamp")>>>>

\* Every kind, by time; by author and then by time, written in two ways.
PlainWalks ==
    {Asking(kind, One, <<>>, sorts, <<1>>) :
        kind \in {"workflow", "job", "component versions", "workflow versions"},
        sorts \in {Up, Down}}
    \cup {Asking("component", One, <<>>, sorts, <<2>>) : sorts \in {Up, Down}}
    \cup {Asking("volume", One, <<>>, <<>>, <<1>>)}
    \cup {Asking("workflow", Both, <<>>, Up, <<1>>)}
    \cup {Asking("job", One, <<>>, sorts, <<2>>) :
        sorts \in {<<>>, <<<<By("+", "author"), By("-", "timestamp")>>>>,
                   <<<<By("+", "author")>>, <<By("-", "timestamp")>>>>}}

\* Filters with every operator, alone and together, in one parameter and in two.
FilterWalks ==
    {Asking("workflow", Both, filters, Down, <<1>>) :
        filters \in {<<<<If("author", "==", 1)>>>>, <<<<If("timestamp", ">", 1), If("timestamp", "<=", 3)>>>>,
                     <<<<If("timestamp", ">=", 2)>>, <<If("author", "search", {1, 3})>>>>,
                     <<<<If("author", "<", 2)>>, <<If("workspace", "==", "w2")>>>>,
                     <<<<If("color", "==", 1)>>>>, <<<<If("version", ">=", 1)>>>>}}

\* Queries that are refused, and numbers at their limits.
OddWalks ==
    {Asking("component", One, filters, sorts, limits) :
        filters \in {<<>>, <<<<If("author", "", 1)>>>>, <<<<If("timestamp", ">", NotATime)>>>>},
        sorts \in {Up, <<<<By("+", "author"), By("", "")>>>>}, limits \in {<<>>, <<0>>, <<-1>>}}
    \cup {Asking("component", One, <<<<If(field, op, 1)>>>>, Up, <<1>>) :
        <<field, op>> \in {<<"author", "!=">>, <<"timestamp", "search">>}}

MCWalks == PlainWalks \cup FilterWalks \cup OddWalks

\* The queries of the documentation.
DocumentedWalks ==
    {Asking("component", One, <<<<f>>>>, Down, <<10>>) :
        f \in {If("author", "==", 1), If("author", "!=", 1), If("timestamp", ">", NotATime)}}

=============================================================================
