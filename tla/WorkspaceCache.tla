--------------------------- MODULE WorkspaceCache ---------------------------
(***************************************************************************)
(* Workspaces: pkg/workspace/workspace.go and rest/workspaces.go.  A       *)
(* workspace is a namespace and a config map with the workspace label.     *)
(* Clients create, update and delete them through the server, operators    *)
(* edit config maps directly (README.md), and every server keeps a list of *)
(* workspaces that the callbacks of an informer refresh.                   *)
(*                                                                         *)
(* The Kubernetes API and the informer of client-go are external.  A       *)
(* watch delivers changes in order; when it breaks, the informer lists     *)
(* again.  The informer updates its index, then queues the callback; the   *)
(* callbacks run one at a time, in one goroutine.                          *)
(***************************************************************************)
EXTENDS Naturals, Sequences, FiniteSets

CONSTANTS
    Clients,      \* users of the REST API
    Names,        \* names of workspaces
    Roles,        \* the settings of a workspace (its roles, whether it is hidden)
    BadRoles,     \* settings that getAccessTokens cannot parse
    NoRoles,      \* "the config map does not exist", "the list has no entry"
    MaxRequests,  \* bound on requests that write, edits of operators included
    MaxFaults,    \* bound on calls that fail
    MaxBreaks     \* bound on watches that break

ASSUME WorkspaceAssumption ==
    /\ NoRoles \notin Roles \cup {BadRoles}
    /\ BadRoles \notin Roles
    /\ IsFiniteSet(Names)
    /\ MaxRequests \in Nat /\ MaxFaults \in Nat /\ MaxBreaks \in Nat

VARIABLES
    ns,        \* ns[n]: the namespace of workspace n
    cm,        \* cm[n]: its config map
    clock,     \* the last resource version handed out
    pending,   \* pending[n]: changes of cm[n] that reached the informer
    up,        \* the watch of the informer is open
    index,     \* index[n]: the config map as the informer knows it
    calls,     \* callbacks that wait for the listener
    upd,       \* upd[t]: where thread t is in UpdateConfigMaps
    mutex,     \* the threads that hold the mutex
    fresh,     \* fresh[t]: the list thread t has made
    ws,        \* the cached list (the field ws)
    req,       \* req[c]: the request of client c
    requests, faults, breaks

informer == <<pending, up, index, calls>>
cache == <<upd, mutex, fresh, ws>>
vars == <<ns, cm, clock, informer, cache, req, requests, faults, breaks>>

Phase == {"absent", "active", "terminating"}
Namespace == [phase : Phase, rev : Nat]
ConfigMap == [roles : Roles \cup {BadRoles, NoRoles}, label : BOOLEAN, rev : Nat]
NoMap == [roles |-> NoRoles, label |-> FALSE, rev |-> 0]
List == [Names -> Roles \cup {NoRoles}]
Threads == {"main", "listener"}
Idle == [pc |-> "idle", got |-> NoMap, nsRev |-> 0]
Active == [pc : {"createNamespace", "createMap", "getNamespace", "updateNamespace",
                 "getMap", "updateMap", "deleteNamespace", "deleteMap"},
           name : Names, roles : Roles \cup {NoRoles}, got : ConfigMap, nsRev : Nat]
Call == [func : {"add", "delete", "update"}, same : BOOLEAN, label : BOOLEAN]

-----------------------------------------------------------------------------
(* The list *)

\* getAccessTokens: the roles of a config map are a list, or a list of lists.
Parses(m) == m.roles # BadRoles

\* Mutant: the error of getAccessTokens is not looked at.
listUnparsed(maps) ==
    [n \in Names |-> IF maps[n].label THEN maps[n].roles ELSE NoRoles]

\* listWorkspaceConfigMaps: labelled config maps whose roles can be parsed.
listWorkspaceConfigMaps(maps) ==
    [n \in Names |-> IF maps[n].label /\ Parses(maps[n])
                     THEN maps[n].roles ELSE NoRoles]

Empty == [n \in Names |-> NoRoles]

\* The server has started its informer, the index is complete, the first
\* callbacks wait, and main is about to make the first list.
Init ==
    /\ cm \in [Names -> {NoMap} \cup
                 {[roles |-> r, label |-> TRUE, rev |-> 1] : r \in Roles}]
    /\ ns = [n \in Names |-> [phase |-> IF cm[n] = NoMap THEN "absent" ELSE "active",
                             rev |-> 1]]
    /\ clock = 1
    /\ pending = [n \in Names |-> <<>>]
    /\ up = TRUE
    /\ index = cm
    /\ calls = [i \in 1..Cardinality({n \in Names : cm[n] # NoMap}) |->
                  [func |-> "add", same |-> FALSE, label |-> TRUE]]
    /\ upd = [t \in Threads |-> IF t = "main" THEN "lock" ELSE "idle"]
    /\ mutex = {}
    /\ fresh = [t \in Threads |-> Empty]
    /\ ws = Empty
    /\ req = [c \in Clients |-> Idle]
    /\ requests = 0 /\ faults = 0 /\ breaks = 0

-----------------------------------------------------------------------------
(* Kubernetes *)

\* The config map of n becomes m; an open watch reports it.
Set(n, m) ==
    /\ cm' = [cm EXCEPT ![n] = m]
    /\ pending' = IF up THEN [pending EXCEPT ![n] = Append(@, m)] ELSE pending
    /\ UNCHANGED <<up, index, calls>>

\* A write; one that changes nothing keeps the resource version.
Write(n, r, l) ==
    IF cm[n].roles = r /\ cm[n].label = l
    THEN UNCHANGED <<cm, clock, informer>>
    ELSE /\ Set(n, [roles |-> r, label |-> l, rev |-> clock + 1])
         /\ clock' = clock + 1

\* An operator creates, edits or deletes a config map.
Operate(n) ==
    /\ requests < MaxRequests
    /\ requests' = requests + 1
    /\ \/ \E r \in Roles \cup {BadRoles}, l \in BOOLEAN : Write(n, r, l)
       \/ cm[n] # NoMap /\ Set(n, NoMap) /\ UNCHANGED clock
    /\ UNCHANGED <<ns, cache, req, faults, breaks>>

\* The namespace controller removes a namespace that was deleted.
NamespaceGone(n) ==
    /\ ns[n].phase = "terminating"
    /\ ns' = [ns EXCEPT ![n].phase = "absent"]
    /\ UNCHANGED <<cm, clock, informer, cache, req, requests, faults, breaks>>

-----------------------------------------------------------------------------
(* The informer *)

informerOnly == <<ns, cm, clock, cache, req, requests, faults>>

WatchBreaks ==
    /\ up
    /\ breaks < MaxBreaks
    /\ breaks' = breaks + 1
    /\ up' = FALSE
    /\ UNCHANGED <<informerOnly, pending, index, calls>>

Relist ==
    /\ ~up
    /\ up' = TRUE
    /\ pending' = [n \in Names |-> Append(pending[n], cm[n])]
    /\ UNCHANGED <<informerOnly, index, calls, breaks>>

\* The callback for a change of the index, as the handlers see it.
Notification(old, m) ==
    [func |-> CASE old = NoMap -> "add" [] m = NoMap -> "delete"
                [] OTHER -> "update",
     same |-> old.rev = m.rev, label |-> m.label]

Deliver(n) ==
    /\ pending[n] # <<>>
    /\ pending' = [pending EXCEPT ![n] = Tail(@)]
    /\ index' = [index EXCEPT ![n] = Head(pending[n])]
    /\ calls' = IF index[n] = NoMap /\ Head(pending[n]) = NoMap THEN calls
                ELSE Append(calls, Notification(index[n], Head(pending[n])))
    /\ UNCHANGED <<informerOnly, up, breaks>>

\* Every DefaultInformerResync, UpdateFunc is called with what is known.
Resync(n) ==
    /\ index[n] # NoMap
    /\ calls = <<>>
    /\ calls' = <<Notification(index[n], index[n])>>
    /\ UNCHANGED <<informerOnly, pending, up, index, breaks>>

-----------------------------------------------------------------------------
(* The server: the callbacks and UpdateConfigMaps *)

serverOnly == <<ns, cm, clock, pending, up, index, req, requests, faults, breaks>>

\* Mutant: a deleted config map is not noticed.
NeedsUpdateNoDelete(call) ==
    call.func = "add" \/ (call.func = "update" /\ ~call.same /\ call.label)

\* AddFunc and DeleteFunc always update; UpdateFunc, if the version is another
\* one and the new config map has the label.
NeedsUpdate(call) ==
    call.func \in {"add", "delete"} \/ (~call.same /\ call.label)

Callback ==
    /\ upd["listener"] = "idle"
    /\ calls # <<>>
    /\ calls' = Tail(calls)
    /\ upd' = IF NeedsUpdate(Head(calls)) THEN [upd EXCEPT !["listener"] = "lock"]
              ELSE upd
    /\ UNCHANGED <<serverOnly, mutex, fresh, ws>>

\* Mutant: no mutex.
LockNever(t) ==
    /\ upd[t] = "lock"
    /\ upd' = [upd EXCEPT ![t] = "list"]
    /\ UNCHANGED <<serverOnly, calls, mutex, fresh, ws>>

Lock(t) ==
    /\ upd[t] = "lock"
    /\ mutex = {}
    /\ mutex' = {t}
    /\ upd' = [upd EXCEPT ![t] = "list"]
    /\ UNCHANGED <<serverOnly, calls, fresh, ws>>

ListIndex(t) ==
    /\ upd[t] = "list"
    /\ fresh' = [fresh EXCEPT ![t] = listWorkspaceConfigMaps(index)]
    /\ upd' = [upd EXCEPT ![t] = "assign"]
    /\ UNCHANGED <<serverOnly, calls, mutex, ws>>

Assign(t) ==
    /\ upd[t] = "assign"
    /\ ws' = fresh[t]
    /\ mutex' = mutex \ {t}
    /\ fresh' = [fresh EXCEPT ![t] = Empty]
    /\ upd' = [upd EXCEPT ![t] = "idle"]
    /\ UNCHANGED <<serverOnly, calls>>

UpdateConfigMaps(t) ==
    Lock(t) \/ ListIndex(t) \/ Assign(t)

\* ListWorkspaces: what a request gets that reads the field now; it takes no
\* mutex.
ListWorkspaces == ws

-----------------------------------------------------------------------------
(* The server: requests, one call to Kubernetes a step *)

requestOnly == <<cache, requests, breaks>>

\* A request begins; r = NoRoles is a request with an empty list of roles.
Begin(c, first) ==
    /\ upd["main"] = "idle"
    /\ req[c] = Idle
    /\ requests < MaxRequests
    /\ requests' = requests + 1
    /\ \E n \in Names, r \in Roles \cup {NoRoles} :
          req' = [req EXCEPT ![c] =
                    [pc |-> first, name |-> n, roles |-> r, got |-> NoMap, nsRev |-> 0]]
    /\ UNCHANGED <<ns, cm, clock, informer, cache, faults, breaks>>

WorkspacesCreateHandler(c) == Begin(c, "createNamespace")
WorkspacesUpdateHandler(c) == Begin(c, "getNamespace")
WorkspacesDeleteHandler(c) == Begin(c, "deleteNamespace")

Goto(c, p) == req' = [req EXCEPT ![c].pc = p]
End(c) == req' = [req EXCEPT ![c] = Idle]

\* After a call that succeeded, the roles are put together: an empty list of
\* roles is a slice out of bounds, and the panic ends the request.
WithRoles(c, p) == IF req[c].roles = NoRoles THEN End(c) ELSE Goto(c, p)

\* Create
CreateNamespace(c) ==
    /\ req[c].pc = "createNamespace"
    /\ LET n == req[c].name IN
         IF ns[n].phase = "absent"
         THEN /\ ns' = [ns EXCEPT ![n] = [phase |-> "active", rev |-> clock + 1]]
              /\ clock' = clock + 1
              /\ WithRoles(c, "createMap")
         ELSE End(c) /\ UNCHANGED <<ns, clock>>
    /\ UNCHANGED <<cm, informer, requestOnly, faults>>

CreateConfigMap(c) ==
    /\ req[c].pc = "createMap"
    /\ IF cm[req[c].name] = NoMap
       THEN Write(req[c].name, req[c].roles, TRUE)
       ELSE UNCHANGED <<cm, clock, informer>>
    /\ End(c)
    /\ UNCHANGED <<ns, requestOnly, faults>>

\* Update
GetNamespace(c) ==
    /\ req[c].pc = "getNamespace"
    /\ IF ns[req[c].name].phase = "absent" THEN End(c)
       ELSE req' = [req EXCEPT ![c].pc = "updateNamespace",
                               ![c].nsRev = ns[req[c].name].rev]
    /\ UNCHANGED <<ns, cm, clock, informer, requestOnly, faults>>

UpdateNamespace(c) ==
    /\ req[c].pc = "updateNamespace"
    /\ LET n == req[c].name IN
         IF ns[n].phase # "absent" /\ ns[n].rev = req[c].nsRev
         THEN /\ WithRoles(c, "getMap")
              /\ \/ UNCHANGED <<ns, clock>>   \* the labels are the same
                 \/ /\ ns' = [ns EXCEPT ![n].rev = clock + 1]
                    /\ clock' = clock + 1
         ELSE End(c) /\ UNCHANGED <<ns, clock>>
    /\ UNCHANGED <<cm, informer, requestOnly, faults>>

\* The error of this Get is not looked at: the config map is then an empty one.
GetConfigMap(c) ==
    /\ req[c].pc = "getMap"
    /\ \/ /\ req' = [req EXCEPT ![c].pc = "updateMap", ![c].got = cm[req[c].name]]
          /\ UNCHANGED faults
       \/ /\ faults < MaxFaults
          /\ faults' = faults + 1
          /\ Goto(c, "updateMap")
    /\ UNCHANGED <<ns, cm, clock, informer, requestOnly>>

\* Without a resource version (an empty config map) Update is unconditional.
UpdateConfigMap(c) ==
    /\ req[c].pc = "updateMap"
    /\ LET n == req[c].name IN
         IF cm[n] # NoMap /\ req[c].got.rev \in {0, cm[n].rev}
         THEN Write(n, req[c].roles, req[c].got.label)
         ELSE UNCHANGED <<cm, clock, informer>>
    /\ End(c)
    /\ UNCHANGED <<ns, requestOnly, faults>>

\* Delete
DeleteNamespace(c) ==
    /\ req[c].pc = "deleteNamespace"
    /\ LET n == req[c].name IN
         CASE ns[n].phase = "absent" -> End(c) /\ UNCHANGED <<ns, clock>>
           [] ns[n].phase = "terminating" ->
                Goto(c, "deleteMap") /\ UNCHANGED <<ns, clock>>
           [] ns[n].phase = "active" ->
                /\ Goto(c, "deleteMap")
                /\ ns' = [ns EXCEPT ![n] = [phase |-> "terminating", rev |-> clock + 1]]
                /\ clock' = clock + 1
    /\ UNCHANGED <<cm, informer, requestOnly, faults>>

DeleteConfigMap(c) ==
    /\ req[c].pc = "deleteMap"
    /\ IF cm[req[c].name] = NoMap THEN UNCHANGED <<cm, informer>>
       ELSE Set(req[c].name, NoMap)
    /\ End(c)
    /\ UNCHANGED <<ns, clock, requestOnly, faults>>

\* A call fails: the handler returns its error and undoes nothing.
CallFails(c) ==
    /\ req[c] # Idle
    /\ faults < MaxFaults
    /\ faults' = faults + 1
    /\ End(c)
    /\ UNCHANGED <<ns, cm, clock, informer, requestOnly>>

Request(c) ==
    \/ WorkspacesCreateHandler(c) \/ CreateNamespace(c) \/ CreateConfigMap(c)
    \/ WorkspacesUpdateHandler(c) \/ GetNamespace(c) \/ UpdateNamespace(c)
    \/ GetConfigMap(c) \/ UpdateConfigMap(c)
    \/ WorkspacesDeleteHandler(c) \/ DeleteNamespace(c) \/ DeleteConfigMap(c)
    \/ CallFails(c)

-----------------------------------------------------------------------------
Next ==
    \/ \E n \in Names : Operate(n) \/ NamespaceGone(n) \/ Deliver(n) \/ Resync(n)
    \/ WatchBreaks \/ Relist \/ Callback
    \/ \E t \in Threads : UpdateConfigMaps(t)
    \/ \E c \in Clients : Request(c)

Spec == Init /\ [][Next]_vars

\* The goroutines of the informer and of the server run.  A goroutine that waits
\* for the mutex gets it: the other thread takes it once, at the start.
FairSpec ==
    /\ Spec
    /\ WF_vars(Relist) /\ WF_vars(Callback)
    /\ \A n \in Names : WF_vars(Deliver(n))
    /\ \A t \in Threads : WF_vars(UpdateConfigMaps(t))

-----------------------------------------------------------------------------
(* Properties *)

\* Every variable has its type.
TypeOK ==
    /\ ns \in [Names -> Namespace]
    /\ cm \in [Names -> ConfigMap]
    /\ clock \in Nat
    /\ pending \in [Names -> Seq(ConfigMap)]
    /\ up \in BOOLEAN
    /\ index \in [Names -> ConfigMap]
    /\ calls \in Seq(Call)
    /\ upd \in [Threads -> {"idle", "lock", "list", "assign"}]
    /\ mutex \in SUBSET Threads
    /\ fresh \in [Threads -> List]
    /\ ws \in List
    /\ req \in [Clients -> {Idle} \cup Active]
    /\ requests \in Nat /\ faults \in Nat /\ breaks \in Nat

\* Nothing is on its way from the config maps to the list.
Quiet ==
    /\ up
    /\ \A n \in Names : pending[n] = <<>>
    /\ calls = <<>>
    /\ \A t \in Threads : upd[t] = "idle"

\* The entry of n in the list is what its config map says.
Current(n) == ListWorkspaces[n] = listWorkspaceConfigMaps(cm)[n]

\* A config map that does not exist, or has the label.
Recognised(n) == cm[n] = NoMap \/ cm[n].label

\* Whatever the order of changes, callbacks, list and assignment, and whatever
\* the watch missed: when nothing is on its way, the list (workspace.go:198) has
\* every labelled config map as it is, and none that was deleted.
QuietListCurrent == Quiet => \A n \in Names : Recognised(n) => Current(n)

\* The list catches up with the config maps, also after a watch that broke
\* (the callbacks of workspace.go:79-94).
ListCatchesUp == []<>(\A n \in Names : Recognised(n) => Current(n))
=============================================================================
