---------------------------- MODULE SecretGroup ----------------------------
(***************************************************************************)
(* The secrets of one workspace: pkg/secret/secret.go and the handlers of  *)
(* rest/secrets.go.  They are the fields of one Kubernetes secret.  The    *)
(* first PUT of a workspace creates it, with a role, a role binding and a  *)
(* service account; every PUT then reads the secret, adds its field and    *)
(* writes the whole secret back; DELETE is a patch the API server applies. *)
(*                                                                         *)
(* The Kubernetes API is external: Create fails if the object exists,      *)
(* Update fails if the resource version sent is not the stored one, and a  *)
(* write that changes nothing keeps the resource version.                  *)
(***************************************************************************)
EXTENDS Naturals

CONSTANTS
    Clients,      \* users of the REST API
    Keys,         \* names of secrets
    Values,       \* their values
    NoValue,      \* "the key is not in the secret"
    MaxRequests,  \* bound on PUT and DELETE requests
    MaxFaults     \* bound on requests that end between two calls

ASSUME SecretAssumption ==
    /\ NoValue \notin Values
    /\ MaxRequests \in Nat
    /\ MaxFaults \in Nat

VARIABLES
    objects,   \* the objects of the group that exist
    data,      \* data[k]: the value of key k in the secret
    version,   \* the resource version of the secret
    pc,        \* pc[c]: where the request of c is
    key, val,  \* key[c], val[c]: what c puts
    new,       \* new[c]: PUT did not find the key in the list (create)
    copy,      \* copy[c]: the data of the secret c has read
    base,      \* base[c]: its resource version
    answer,    \* answer[c]: how the last request of c ended
    requests,  \* number of requests so far
    faults     \* number of requests lost so far

vars == <<objects, data, version, pc, key, val, new, copy, base, answer,
          requests, faults>>

Group == {"role", "rolebinding", "secret", "serviceaccount"}

\* The steps of createNewGroup after its first one, which only a request that
\* created the role takes.
Creating == {"rolebinding", "secret", "serviceaccount"}

Data == [Keys -> Values \cup {NoValue}]
Empty == [k \in Keys |-> NoValue]

Init ==
    /\ objects = {}
    /\ data = Empty
    /\ version = 0
    /\ pc = [c \in Clients |-> "idle"]
    /\ key \in [Clients -> Keys]
    /\ val \in [Clients -> Values]
    /\ new = [c \in Clients |-> FALSE]
    /\ copy = [c \in Clients |-> Empty]
    /\ base = [c \in Clients |-> 0]
    /\ answer = [c \in Clients |-> "none"]
    /\ requests = 0
    /\ faults = 0

-----------------------------------------------------------------------------
args == <<key, val, new>>
read == <<copy, base>>
store == <<objects, data, version>>

Goto(c, p) == pc' = [pc EXCEPT ![c] = p] /\ UNCHANGED answer

\* The handler writes its response.
Respond(c, a) ==
    /\ pc' = [pc EXCEPT ![c] = "idle"]
    /\ answer' = [answer EXCEPT ![c] = a]

\* Kubernetes stores d as the data of the secret.
Write(d) ==
    /\ data' = d
    /\ version' = IF d = data THEN version ELSE version + 1

-----------------------------------------------------------------------------
(* GET *)

\* ListAvailableKeys of the client: no secret is an empty list, not an error.
AvailableKeys == {k \in Keys : data[k] # NoValue}

ListAvailableKeys(c) ==
    /\ pc[c] = "idle"
    /\ Respond(c, "listed")
    /\ UNCHANGED <<store, args, read, requests, faults>>

-----------------------------------------------------------------------------
(* PUT *)

\* Mutant: the key of the body is not compared with the one of the URL and may
\* be missing.
PutUnchecked(c) ==
    /\ pc[c] = "idle"
    /\ requests < MaxRequests
    /\ requests' = requests + 1
    /\ \E k \in Keys \cup {NoValue}, v \in Values :
        /\ key' = [key EXCEPT ![c] = k]
        /\ val' = [val EXCEPT ![c] = v]
        /\ new' = [new EXCEPT ![c] = k \notin AvailableKeys]
    /\ Goto(c, "exists")
    /\ UNCHANGED <<store, read, faults>>

\* SecretPutHandler: list the keys, to tell creation from update later.
Put(c) ==
    /\ pc[c] = "idle"
    /\ requests < MaxRequests
    /\ requests' = requests + 1
    /\ \E k \in Keys, v \in Values :
        /\ key' = [key EXCEPT ![c] = k]
        /\ val' = [val EXCEPT ![c] = v]
        /\ new' = [new EXCEPT ![c] = k \notin AvailableKeys]
    /\ Goto(c, "exists")
    /\ UNCHANGED <<store, read, faults>>

\* AddSecretKey: is there a secret?
k8sSecretExists(c) ==
    /\ pc[c] = "exists"
    /\ Goto(c, IF "secret" \in objects THEN "get" ELSE "role")
    /\ UNCHANGED <<store, args, read, requests, faults>>

\* One Create of createNewGroup; an object that exists is an error.
CreateObject(c, o, next) ==
    /\ pc[c] = o
    /\ IF o \in objects
       THEN Respond(c, "error") /\ UNCHANGED objects
       ELSE Goto(c, next) /\ objects' = objects \cup {o}
    /\ UNCHANGED <<data, version, args, read, requests, faults>>

\* Mutant: a role that exists already is no error.
addNewRoleLenient(c) ==
    /\ pc[c] = "role"
    /\ Goto(c, "rolebinding")
    /\ objects' = objects \cup {"role"}
    /\ UNCHANGED <<data, version, args, read, requests, faults>>

addNewRole(c) == CreateObject(c, "role", "rolebinding")
addNewRoleBinding(c) == CreateObject(c, "rolebinding", "secret")

\* Mutant: the group ends with the secret.
addNewSecretLast(c) == CreateObject(c, "secret", "get")

addNewSecret(c) == CreateObject(c, "secret", "serviceaccount")
addNewServiceAccount(c) == CreateObject(c, "serviceaccount", "get")

\* addFieldToSecret, first part: Get.
GetSecret(c) ==
    /\ pc[c] = "get"
    /\ IF "secret" \in objects
       THEN /\ Goto(c, "update")
            /\ copy' = [copy EXCEPT ![c] = data]
            /\ base' = [base EXCEPT ![c] = version]
       ELSE Respond(c, "error") /\ UNCHANGED read
    /\ UNCHANGED <<store, args, requests, faults>>

\* Mutant: the resource version is not sent.
UpdateSecretBlind(c) ==
    /\ pc[c] = "update"
    /\ Write([copy[c] EXCEPT ![key[c]] = val[c]])
    /\ Respond(c, IF new[c] THEN "created" ELSE "updated")
    /\ UNCHANGED <<objects, args, read, requests, faults>>

\* addFieldToSecret, second part: Update.  The error of a conflict is returned
\* to ExponentialBackoff, which then does not call the function again.
UpdateSecret(c) ==
    /\ pc[c] = "update"
    /\ IF base[c] = version
       THEN /\ Write([copy[c] EXCEPT ![key[c]] = val[c]])
            /\ Respond(c, IF new[c] THEN "created" ELSE "updated")
       ELSE Respond(c, "conflict") /\ UNCHANGED <<data, version>>
    /\ UNCHANGED <<objects, args, read, requests, faults>>

-----------------------------------------------------------------------------
(* DELETE *)

\* DeleteSecretKey of the client: a JSON patch, which fails if the secret or
\* the key does not exist.
RemoveKey(k) ==
    IF k \in AvailableKeys
    THEN Write([data EXCEPT ![k] = NoValue])
    ELSE UNCHANGED <<data, version>>

\* SecretDeleteHandler: no secret is answered with 404, any other error with 500.
DeleteSecretKey(c) ==
    /\ pc[c] = "idle"
    /\ requests < MaxRequests
    /\ requests' = requests + 1
    /\ \E k \in Keys :
        /\ RemoveKey(k)
        /\ Respond(c, CASE "secret" \notin objects -> "notfound"
                        [] k \in AvailableKeys -> "deleted"
                        [] OTHER -> "error")
    /\ UNCHANGED <<objects, args, read, faults>>

-----------------------------------------------------------------------------
\* A call fails, the client disconnects (every call has the context of the
\* request) or the server dies: the request ends where it is.
Abort(c) ==
    /\ pc[c] # "idle"
    /\ faults < MaxFaults
    /\ faults' = faults + 1
    /\ Respond(c, "error")
    /\ UNCHANGED <<store, args, read, requests>>

\* The steps of a PUT that has begun.
PutStep(c) ==
    \/ k8sSecretExists(c)
    \/ addNewRole(c) \/ addNewRoleBinding(c)
    \/ addNewSecret(c) \/ addNewServiceAccount(c)
    \/ GetSecret(c) \/ UpdateSecret(c)

ClientStep(c) ==
    \/ ListAvailableKeys(c) \/ Put(c) \/ PutStep(c)
    \/ DeleteSecretKey(c) \/ Abort(c)

Next == \E c \in Clients : ClientStep(c)

Spec == Init /\ [][Next]_vars

\* The goroutine of a request runs and the API server answers it.
FairSpec == Spec /\ \A c \in Clients : WF_vars(PutStep(c))

-----------------------------------------------------------------------------
(* Properties *)

\* Every variable has its type.
TypeOK ==
    /\ objects \in SUBSET Group
    /\ data \in Data
    /\ version \in Nat
    /\ pc \in [Clients -> {"idle", "exists", "role", "get", "update"} \cup Creating]
    /\ key \in [Clients -> Keys]
    /\ val \in [Clients -> Values]
    /\ new \in [Clients -> BOOLEAN]
    /\ copy \in [Clients -> Data]
    /\ base \in [Clients -> Nat]
    /\ answer \in [Clients -> {"none", "listed", "created", "updated",
                               "deleted", "notfound", "error", "conflict"}]
    /\ requests \in Nat
    /\ faults \in Nat

\* However many first PUTs of a workspace find no secret (secret.go:46), one
\* of them at most creates the group: the role (secret.go:146) is the lock.
OneCreator == \A c, d \in Clients :
    pc[c] \in Creating /\ pc[d] \in Creating => c = d

\* A PUT writes the whole secret back (secret.go:131), as it read it: no other
\* request's key is overwritten, removed or brought back by that.
OtherKeysKept ==
    [][\A c \in Clients : pc[c] = "update" /\ pc'[c] = "idle"
          => \A k \in Keys \ {key[c]} : data'[k] = data[k]]_vars

\* A group that was begun gets complete: whoever fails, the request that
\* created the role goes on to the service account (secret.go:143-171), unless a
\* request was cut off.
GroupGetsComplete == "role" \in objects ~> (objects = Group \/ faults > 0)

\* "secret-initialization is handled when adding keys" (secret.go:84): whatever
\* earlier requests have left, a PUT that enters AddSecretKey while no other
\* request is under way ends with a complete group, unless a request is cut off
\* from then on.
PutCompletesGroup ==
    \A c \in Clients, f \in 0 .. MaxFaults :
        (/\ pc[c] = "exists" /\ faults = f
         /\ \A d \in Clients \ {c} : pc[d] = "idle")
        ~> (objects = Group \/ faults > f)
=============================================================================
