---------------------------- MODULE VolumeStore ----------------------------
(***************************************************************************)
(* Volumes: rest/volumes.go and storage/mongovolumestorage.go, with the    *)
(* middleware that decides who may use them.  A request reads the cached   *)
(* list of workspaces twice, for its context and to authorize its path,    *)
(* and then makes one or two calls to MongoDB, without a transaction.      *)
(*                                                                         *)
(* The cached list is the one of WorkspaceCache; here it may change to     *)
(* any other list.  MongoDB is external: a call is atomic, and one that    *)
(* matches several documents takes any of them.  Requests that a handler   *)
(* refuses before it uses list or database change nothing and are left     *)
(* out.                                                                    *)
(***************************************************************************)
EXTENDS Access, Naturals, FiniteSets

CONSTANTS
    Clients,      \* users of the REST API
    UserOf,       \* UserOf[c]: the user of the token of c
    Names,        \* names of workspaces
    Settings,     \* workspaces as the list may show them
    MaxRequests,  \* bound on requests
    MaxChanges,   \* bound on changes of the list
    MaxFaults     \* bound on calls that fail

ASSUME VolumeAssumption ==
    /\ NoWorkspace \notin Settings
    /\ MaxRequests \in Nat /\ MaxChanges \in Nat /\ MaxFaults \in Nat

\* The roles of a workspace are a slice of slices of roles.
ASSUME SettingsAssumption == \A w \in Settings : w.roles \in Seq(Seq(Seq(STRING)))

VARIABLES
    vols,      \* collection Volumes
    posted,    \* uids that were given out and stored
    deleted,   \* uids of volumes that were deleted at some time
    raced,     \* uids inserted while another request was about to insert them
    list,      \* the cached list of workspaces
    req,       \* req[c]: the request of client c
    seen,      \* seen[c]: the lists there have been since its request began
    got,       \* got[c]: the volumes in the last answer to c
    requests, changes, faults

vars == <<vols, posted, deleted, raced, list, req, seen, got, requests, changes, faults>>
store == <<vols, posted, deleted, raced>>
counters == <<requests, changes, faults>>

\* FlowifyVolume; id is MongoDB's _id, content the number of the request that
\* wrote it.
Volume == [id : Nat, uid : Nat, ws : Names, content : Nat]
Listing == [Names -> Settings \cup {NoWorkspace}]
Ops == {"get", "list", "post", "put", "delete"}
Idle == [pc |-> "idle"]
Request == [pc : {"authorize", "find", "get", "list", "insert", "replace", "remove"},
            op : Ops, ws : Names, uid : Nat, content : Nat, ctx : Listing]

With(uid) == {v \in vols : v.uid = uid}

Init ==
    /\ vols = {} /\ posted = {} /\ deleted = {} /\ raced = {}
    /\ list \in Listing
    /\ req = [c \in Clients |-> Idle]
    /\ seen = [c \in Clients |-> {}]
    /\ got = [c \in Clients |-> {}]
    /\ requests = 0 /\ changes = 0 /\ faults = 0

\* UpdateConfigMaps assigns another list.
ListChanges ==
    /\ changes < MaxChanges
    /\ changes' = changes + 1
    /\ \E n \in Names, w \in Settings \cup {NoWorkspace} : list' = [list EXCEPT ![n] = w]
    /\ seen' = [c \in Clients |-> IF req[c] = Idle THEN {} ELSE seen[c] \cup {list'}]
    /\ UNCHANGED <<store, req, got, requests, faults>>

-----------------------------------------------------------------------------
(* The middleware *)

Goto(c, p) == req' = [req EXCEPT ![c].pc = p]

\* The answer is written: volumes, or nothing but a status.
Reply(c, volumes) ==
    /\ req' = [req EXCEPT ![c] = Idle]
    /\ seen' = [seen EXCEPT ![c] = {}]
    /\ got' = [got EXCEPT ![c] = volumes]

\* A POST gets a new uid, the number of the request; any other request is about
\* the uid of its path, one that a POST gave out or one a client made up (0).
Uids(o) ==
    CASE o = "post" -> {requests + 1}
      [] o = "list" -> {0}
      [] OTHER -> posted \cup {0}

\* NewAuthorizationContext: the context gets the workspaces the user may see.
Begin(c) ==
    /\ req[c] = Idle
    /\ requests < MaxRequests
    /\ requests' = requests + 1
    /\ \E o \in Ops, n \in Names : \E u \in Uids(o) :
          req' = [req EXCEPT ![c] =
                    [pc |-> "authorize", op |-> o, ws |-> n, uid |-> u,
                     content |-> requests + 1, ctx |-> Visible(list, UserOf[c])]]
    /\ seen' = [seen EXCEPT ![c] = {list}]
    /\ got' = [got EXCEPT ![c] = {}]
    /\ UNCHANGED <<store, list, changes, faults>>

Action(o) ==
    CASE o = "get" -> "read" [] o = "list" -> "list" [] o = "delete" -> "delete"
      [] OTHER -> "write"

\* The first statement of a handler that reaches the database.
First(o) ==
    CASE o = "get" -> "get" [] o = "list" -> "list" [] OTHER -> "find"

\* Mutant: the list of the context decides, and any access is enough.
PathAuthorizationByContext(c) ==
    /\ req[c].pc = "authorize"
    /\ IF CheckWorkspaceAccess(req[c].ctx, req[c].ws, UserOf[c])
       THEN Goto(c, First(req[c].op)) /\ UNCHANGED <<seen, got>>
       ELSE Reply(c, {})
    /\ UNCHANGED <<store, list, counters>>

\* PathAuthorization; PutVolume then begins with an access check of its own.
PathAuthorization(c) ==
    /\ req[c].pc = "authorize"
    /\ IF /\ Authorize(list, req[c].ws, UserOf[c], Action(req[c].op))
          /\ req[c].op \in {"post", "put"}
               => CheckWorkspaceAccess(req[c].ctx, req[c].ws, UserOf[c])
       THEN Goto(c, First(req[c].op)) /\ UNCHANGED <<seen, got>>
       ELSE Reply(c, {})
    /\ UNCHANGED <<store, list, counters>>

-----------------------------------------------------------------------------
(* Reading *)

\* GetVolume for a uid: one of its documents, if the user may see it.
Found(c) ==
    {v \in With(req[c].uid) : CheckWorkspaceAccess(req[c].ctx, v.ws, UserOf[c])}

\* The volume must be of the workspace of the path.
VolumeGetHandler(c) ==
    /\ req[c].pc = "get"
    /\ \/ \E v \in Found(c) : Reply(c, IF v.ws = req[c].ws THEN {v} ELSE {})
       \/ /\ With(req[c].uid) = {} \/ Found(c) # With(req[c].uid)
          /\ Reply(c, {})
    /\ UNCHANGED <<store, list, counters>>

\* ListVolumes: volumes of the workspaces of the context.
Listed(c) == {v \in vols : req[c].ctx[v.ws] # NoWorkspace}

\* The handler adds the workspace of the path as a filter.
VolumesListHandler(c) ==
    /\ req[c].pc = "list"
    /\ Reply(c, {v \in Listed(c) : v.ws = req[c].ws})
    /\ UNCHANGED <<store, list, counters>>

-----------------------------------------------------------------------------
(* Writing *)

\* Mutant: the workspace is not part of the document.
DocumentBare(c, id) ==
    [id |-> id, uid |-> req[c].uid, content |-> req[c].content]

Document(c, id) ==
    [id |-> id, uid |-> req[c].uid, ws |-> req[c].ws, content |-> req[c].content]

\* Mutant: a volume that may not be seen counts as not found.
PutFindBlind(c) ==
    /\ req[c].pc = "find"
    /\ req[c].op \in {"post", "put"}
    /\ Goto(c, IF Found(c) = {} THEN "insert" ELSE "replace")
    /\ UNCHANGED <<store, list, seen, got, counters>>

\* PutVolume: create if GetVolume finds nothing; the volume's workspace is not
\* looked at, and neither is another error.
PutFind(c) ==
    /\ req[c].pc = "find"
    /\ req[c].op \in {"post", "put"}
    /\ \/ /\ Goto(c, IF With(req[c].uid) = {} THEN "insert" ELSE "replace")
          /\ UNCHANGED faults
       \/ /\ faults < MaxFaults
          /\ faults' = faults + 1
          /\ Goto(c, "replace")
    /\ UNCHANGED <<store, list, seen, got, requests, changes>>

\* Another request has found nothing with the uid of c, and has not inserted it yet.
Racing(c) ==
    \E d \in Clients \ {c} : req[d].pc = "insert" /\ req[d].uid = req[c].uid

Insert(c) ==
    /\ req[c].pc = "insert"
    /\ vols' = vols \cup {Document(c, req[c].content)}
    /\ posted' = IF req[c].op = "post" THEN posted \cup {req[c].uid} ELSE posted
    /\ raced' = IF Racing(c) THEN raced \cup {req[c].uid} ELSE raced
    /\ Reply(c, {})
    /\ UNCHANGED <<deleted, list, counters>>

\* Mutant: the filter of ReplaceOne has the workspace, too.
ReplaceInWorkspace(c) ==
    /\ req[c].pc = "replace"
    /\ LET match == {v \in With(req[c].uid) : v.ws = req[c].ws} IN
         \/ match = {} /\ UNCHANGED vols
         \/ \E v \in match : vols' = (vols \ {v}) \cup {Document(c, v.id)}
    /\ Reply(c, {})
    /\ UNCHANGED <<posted, deleted, raced, list, counters>>

\* ReplaceOne; that it matches nothing is no error.
Replace(c) ==
    /\ req[c].pc = "replace"
    /\ \/ With(req[c].uid) = {} /\ UNCHANGED vols
       \/ \E v \in With(req[c].uid) : vols' = (vols \ {v}) \cup {Document(c, v.id)}
    /\ Reply(c, {})
    /\ UNCHANGED <<posted, deleted, raced, list, counters>>

\* DeleteVolume: the access check, then DeleteOne.
DeleteFind(c) ==
    /\ req[c].pc = "find"
    /\ req[c].op = "delete"
    /\ \/ Found(c) # {} /\ Goto(c, "remove") /\ UNCHANGED <<seen, got>>
       \/ /\ With(req[c].uid) = {} \/ Found(c) # With(req[c].uid)
          /\ Reply(c, {})
    /\ UNCHANGED <<store, list, counters>>

Remove(c) ==
    /\ req[c].pc = "remove"
    /\ \/ With(req[c].uid) = {} /\ UNCHANGED <<vols, deleted>>
       \/ \E v \in With(req[c].uid) :
             vols' = vols \ {v} /\ deleted' = deleted \cup {v.uid}
    /\ Reply(c, {})
    /\ UNCHANGED <<posted, raced, list, counters>>

\* A call to the database fails and the handler answers with the error.
CallFails(c) ==
    /\ req[c].pc \notin {"idle", "authorize"}
    /\ req[c].pc = "find" => req[c].op = "delete"
    /\ faults < MaxFaults
    /\ faults' = faults + 1
    /\ Reply(c, {})
    /\ UNCHANGED <<store, list, requests, changes>>

-----------------------------------------------------------------------------
Handle(c) ==
    \/ Begin(c) \/ PathAuthorization(c)
    \/ VolumeGetHandler(c) \/ VolumesListHandler(c)
    \/ PutFind(c) \/ Insert(c) \/ Replace(c)
    \/ DeleteFind(c) \/ Remove(c) \/ CallFails(c)

Next == ListChanges \/ \E c \in Clients : Handle(c)

Spec == Init /\ [][Next]_vars

-----------------------------------------------------------------------------
(* Properties *)

\* Every variable has its type.
TypeOK ==
    /\ vols \in SUBSET Volume
    /\ posted \in SUBSET Nat
    /\ deleted \in SUBSET Nat
    /\ raced \in SUBSET Nat
    /\ list \in Listing
    /\ req \in [Clients -> {Idle} \cup Request]
    /\ seen \in [Clients -> SUBSET Listing]
    /\ got \in [Clients -> SUBSET Volume]
    /\ requests \in Nat /\ changes \in Nat /\ faults \in Nat

\* Look-up and write of PutVolume are two calls (mongovolumestorage.go:186-198),
\* and a PUT creates a volume for any uid of its path.  A uid is stored twice only
\* when two requests had both looked it up in vain before either of them inserted
\* it; and never a uid that a POST gave out, until a DELETE has removed it.
OneVolumePerUid ==
    \A v, w \in vols : v.uid = w.uid /\ v # w =>
        /\ v.uid \in raced
        /\ v.uid \in posted => v.uid \in deleted

\* A POST or PUT that answers with success (mongovolumestorage.go:203) has stored
\* its volume, unless the volume was deleted or the look-up failed.
AnsweredIsStored ==
    [][\A c \in Clients : req[c].pc \in {"insert", "replace"} /\ req'[c] = Idle
          => \/ \E v \in vols' : v.uid = req[c].uid /\ v.content = req[c].content
             \/ req[c].uid \in deleted
             \/ faults' > 0]_vars

\* The list changes while a request is on its way (auth.go:78, rest.go:230): what
\* a request changes, its user was allowed to, as administrator of the workspace
\* of the path, under a list there was since the request began.
WritesByAdmins ==
    [][\A c \in Clients : req[c] # Idle /\ req'[c] = Idle /\ vols' # vols
          => \E l \in seen[c] : AccessLevel(l, req[c].ws, UserOf[c]).admin]_vars

\* The user has all roles of one of the workspace's lists, each as administrator
\* or each as user, or is named as owner in one.
Member(w, u) ==
    \E i \in DOMAIN w.roles :
        LET rs == {w.roles[i][k] : k \in DOMAIN w.roles[i]}
        IN /\ rs # {}
           /\ \/ OwnerRole(u) \in rs
              \/ rs \subseteq u.roles
              \/ {AdminRole(r) : r \in rs} \subseteq u.roles

\* "If a user has all the roles assigned to him that are required to access a
\* workspace" (README.md:153): an answer has only volumes of the path's
\* workspace, and only if the user was a member of it under a list there was
\* since the request began.
ReadsByMembers ==
    [][\A c \in Clients : req[c] # Idle /\ got'[c] # {}
          => /\ \A v \in got'[c] : v.ws = req[c].ws
             /\ \E l \in seen[c] : /\ l[req[c].ws] # NoWorkspace
                                   /\ Member(l[req[c].ws], UserOf[c])]_vars
=============================================================================
