------------------------- MODULE SecretGroupProofs -------------------------
(***************************************************************************)
(* Theorems about SecretGroup, for any number of clients, keys, values,    *)
(* requests and faults.                                                    *)
(***************************************************************************)
EXTENDS SecretGroup, TLAPS

(* The first states are well typed. *)
LEMMA TypeInit == Init => TypeOK
  BY DEF Init, TypeOK, Data, Empty

(* Storing data in the secret keeps its type and its version a number. *)
LEMMA WriteType ==
    ASSUME TypeOK, NEW d \in Data, Write(d)
    PROVE  data' \in Data /\ version' \in Nat
  BY DEF TypeOK, Write

(* Setting one key of a secret gives a secret. *)
LEMMA SetKeyType ==
    ASSUME NEW d \in Data, NEW k \in Keys, NEW v \in Values \cup {NoValue}
    PROVE  [d EXCEPT ![k] = v] \in Data
  BY DEF Data

(* A Create of createNewGroup keeps the types. *)
LEMMA CreateObjectType ==
    ASSUME TypeOK, NEW c \in Clients, NEW o \in Group,
           NEW p \in {"get"} \cup Creating, CreateObject(c, o, p)
    PROVE  TypeOK'
<1>1. CASE o \in objects
  BY <1>1 DEF CreateObject, Respond, TypeOK, args, read
<1>2. CASE o \notin objects
  BY <1>2 DEF CreateObject, Goto, TypeOK, args, read
<1> QED BY <1>1, <1>2

(* Every step keeps the types. *)
LEMMA TypeStep ==
    ASSUME TypeOK, [Next]_vars
    PROVE  TypeOK'
<1>1. ASSUME NEW c \in Clients, ClientStep(c)
      PROVE  TypeOK'
  <2>0. /\ key[c] \in Keys /\ val[c] \in Values /\ copy[c] \in Data
        /\ pc[c] \in {"idle", "exists", "role", "get", "update"} \cup Creating
    BY DEF TypeOK
  <2>1. CASE ListAvailableKeys(c)
    BY <2>1 DEF ListAvailableKeys, Respond, store, args, read, TypeOK
  <2>2. CASE Put(c)
    <3>1. PICK k \in Keys, v \in Values :
            /\ key' = [key EXCEPT ![c] = k]
            /\ val' = [val EXCEPT ![c] = v]
            /\ new' = [new EXCEPT ![c] = k \notin AvailableKeys]
      BY <2>2 DEF Put
    <3>2. key' \in [Clients -> Keys] /\ val' \in [Clients -> Values]
      BY <3>1 DEF TypeOK
    <3>3. new' \in [Clients -> BOOLEAN]
      BY <3>1 DEF TypeOK
    <3> QED BY <2>2, <3>2, <3>3 DEF Put, Goto, store, read, TypeOK
  <2>3. CASE k8sSecretExists(c)
    BY <2>3 DEF k8sSecretExists, Goto, store, args, read, TypeOK
  <2>4. CASE addNewRole(c)
    BY <2>4, CreateObjectType DEF addNewRole, Group, Creating
  <2>5. CASE addNewRoleBinding(c)
    BY <2>5, CreateObjectType DEF addNewRoleBinding, Group, Creating
  <2>6. CASE addNewSecret(c)
    BY <2>6, CreateObjectType DEF addNewSecret, Group, Creating
  <2>7. CASE addNewServiceAccount(c)
    BY <2>7, CreateObjectType DEF addNewServiceAccount, Group, Creating
  <2>8. CASE GetSecret(c)
    BY <2>8 DEF GetSecret, Goto, Respond, store, args, read, TypeOK
  <2>9. CASE UpdateSecret(c)
    <3>1. [copy[c] EXCEPT ![key[c]] = val[c]] \in Data
      BY <2>0, SetKeyType
    <3>2. data' \in Data /\ version' \in Nat
      BY <2>9, <3>1, WriteType DEF UpdateSecret, TypeOK
    <3> QED BY <2>9, <3>2 DEF UpdateSecret, Respond, args, read, TypeOK
  <2>10. CASE DeleteSecretKey(c)
    <3>1. \A k \in Keys : [data EXCEPT ![k] = NoValue] \in Data
      BY SetKeyType DEF TypeOK
    <3>2. data' \in Data /\ version' \in Nat
      BY <2>10, <3>1, WriteType DEF DeleteSecretKey, RemoveKey, TypeOK
    <3>3. /\ pc' = [pc EXCEPT ![c] = "idle"]
          /\ \E a \in {"deleted", "error", "notfound"} :
                answer' = [answer EXCEPT ![c] = a]
      BY <2>10 DEF DeleteSecretKey, Respond
    <3> QED BY <2>10, <3>2, <3>3 DEF DeleteSecretKey, args, read, TypeOK
  <2>11. CASE Abort(c)
    BY <2>11 DEF Abort, Respond, store, args, read, TypeOK
  <2> QED BY <1>1, <2>1, <2>2, <2>3, <2>4, <2>5, <2>6, <2>7, <2>8, <2>9, <2>10, <2>11
          DEF ClientStep, PutStep
<1>2. CASE UNCHANGED vars
  BY <1>2 DEF vars, TypeOK
<1> QED BY <1>1, <1>2 DEF Next

(* The variables of SecretGroup keep their types. *)
THEOREM SecretTypeCorrect == Spec => []TypeOK
  BY TypeInit, TypeStep, PTL DEF Spec

-----------------------------------------------------------------------------
(***************************************************************************)
(* One creator.  Whoever is past the first step of createNewGroup has made *)
(* the role, so nobody else can make it.                                   *)
(***************************************************************************)
CreatorInv ==
    /\ OneCreator
    /\ \A c \in Clients : pc[c] \in Creating => "role" \in objects

(* A step that makes c, and nobody else, a creator keeps CreatorInv if there *)
(* was no other creator, and no step removes an object.                      *)
LEMMA CreatorStep ==
    ASSUME TypeOK, CreatorInv, [Next]_vars
    PROVE  CreatorInv'
<1>1. ASSUME NEW c \in Clients, ClientStep(c)
      PROVE  CreatorInv'
  <2>1. objects \subseteq objects' /\ \A d \in Clients \ {c} : pc'[d] = pc[d]
    BY <1>1 DEF ClientStep, PutStep, ListAvailableKeys, Put, k8sSecretExists,
        addNewRole, addNewRoleBinding, addNewSecret, addNewServiceAccount,
        CreateObject, GetSecret, UpdateSecret, DeleteSecretKey, RemoveKey, Abort,
        Goto, Respond, store, TypeOK
  <2>2. \/ pc'[c] \notin Creating
        \/ pc[c] \in Creating
        \/ "role" \notin objects /\ "role" \in objects'
    BY <1>1 DEF ClientStep, PutStep, ListAvailableKeys, Put, k8sSecretExists,
        addNewRole, addNewRoleBinding, addNewSecret, addNewServiceAccount,
        CreateObject, GetSecret, UpdateSecret, DeleteSecretKey, RemoveKey, Abort,
        Goto, Respond, Creating, TypeOK
  <2> QED BY <2>1, <2>2 DEF CreatorInv, OneCreator
<1>2. CASE UNCHANGED vars
  BY <1>2 DEF vars, CreatorInv, OneCreator
<1> QED BY <1>1, <1>2 DEF Next

(* At most one request creates the group of a workspace, whatever requests  *)
(* race and fail (createNewGroup).                                          *)
THEOREM GroupCreatedOnce == Spec => []OneCreator
<1>1. Init => CreatorInv
  BY DEF Init, CreatorInv, OneCreator, Creating
<1>2. CreatorInv => OneCreator
  BY DEF CreatorInv
<1> QED BY <1>1, <1>2, CreatorStep, SecretTypeCorrect, PTL DEF Spec

-----------------------------------------------------------------------------
(***************************************************************************)
(* Read, modify, write.  The resource version grows with every change, so  *)
(* a request whose version is still the stored one has read what is stored.*)
(***************************************************************************)
ReadInv ==
    \A c \in Clients : /\ base[c] <= version
                       /\ base[c] = version /\ pc[c] = "update" => copy[c] = data

(* What a step does to the secret and to what requests have read of it. *)
LEMMA ReadStep ==
    ASSUME TypeOK, ReadInv, [Next]_vars
    PROVE  ReadInv'
<1>0. version \in Nat /\ \A d \in Clients : base[d] \in Nat
  BY DEF TypeOK
<1>1. ASSUME NEW c \in Clients, ClientStep(c)
      PROVE  ReadInv'
  <2>1. \/ data' = data /\ version' = version
        \/ version' = version + 1
    BY <1>1 DEF ClientStep, PutStep, ListAvailableKeys, Put, k8sSecretExists,
        addNewRole, addNewRoleBinding, addNewSecret, addNewServiceAccount,
        CreateObject, GetSecret, UpdateSecret, DeleteSecretKey, RemoveKey, Abort, store,
        Write
  <2>2. \A d \in Clients \ {c} :
            pc'[d] = pc[d] /\ copy'[d] = copy[d] /\ base'[d] = base[d]
    BY <1>1 DEF ClientStep, PutStep, ListAvailableKeys, Put, k8sSecretExists,
        addNewRole, addNewRoleBinding, addNewSecret, addNewServiceAccount,
        CreateObject, GetSecret, UpdateSecret, DeleteSecretKey, RemoveKey, Abort,
        Goto, Respond, read, TypeOK
  <2>3. \/ copy' = copy /\ base' = base /\ pc'[c] # "update"
        \/ UNCHANGED store /\ copy'[c] = data /\ base'[c] = version
    BY <1>1 DEF ClientStep, PutStep, ListAvailableKeys, Put, k8sSecretExists,
        addNewRole, addNewRoleBinding, addNewSecret, addNewServiceAccount,
        CreateObject, GetSecret, UpdateSecret, DeleteSecretKey, RemoveKey, Abort,
        Goto, Respond, read, TypeOK
  <2>4. ASSUME NEW d \in Clients \ {c}
        PROVE  /\ base'[d] <= version'
               /\ base'[d] = version' /\ pc'[d] = "update" => copy'[d] = data'
    BY <1>0, <2>1, <2>2 DEF ReadInv
  <2>5. /\ base'[c] <= version'
        /\ base'[c] = version' /\ pc'[c] = "update" => copy'[c] = data'
    BY <1>0, <2>1, <2>3 DEF ReadInv, store
  <2> QED BY <2>4, <2>5 DEF ReadInv
<1>2. CASE UNCHANGED vars
  BY <1>2 DEF vars, ReadInv
<1> QED BY <1>1, <1>2 DEF Next

(* An Update that succeeds changes the key of its own request only. *)
LEMMA UpdateOwnKey ==
    ASSUME TypeOK, ReadInv, Next
    PROVE  \A c \in Clients : pc[c] = "update" /\ pc'[c] = "idle"
               => \A k \in Keys \ {key[c]} : data'[k] = data[k]
<1> SUFFICES ASSUME NEW c \in Clients, pc[c] = "update", pc'[c] = "idle",
                    NEW k \in Keys \ {key[c]}
             PROVE  data'[k] = data[k]
  OBVIOUS
<1>1. PICK e \in Clients : ClientStep(e)
  BY DEF Next
<1>2. e = c
  BY <1>1 DEF ClientStep, PutStep, ListAvailableKeys, Put, k8sSecretExists,
      addNewRole, addNewRoleBinding, addNewSecret, addNewServiceAccount,
      CreateObject, GetSecret, UpdateSecret, DeleteSecretKey, RemoveKey, Abort,
      Goto, Respond, TypeOK
<1>3. UpdateSecret(c) \/ Abort(c)
  BY <1>1, <1>2 DEF ClientStep, PutStep, ListAvailableKeys, Put, k8sSecretExists,
      addNewRole, addNewRoleBinding, addNewSecret, addNewServiceAccount,
      CreateObject, GetSecret, DeleteSecretKey, RemoveKey
<1>4. data' = data \/ data' = [data EXCEPT ![key[c]] = val[c]]
  BY <1>3 DEF UpdateSecret, Abort, Write, store, ReadInv
<1> QED BY <1>4 DEF TypeOK, Data

(* The read-modify-write of addFieldToSecret never touches the keys of other *)
(* requests, however they interleave.                                        *)
THEOREM UpdatesKeepOtherKeys == Spec => OtherKeysKept
<1>1. ASSUME Init PROVE ReadInv
  <2>1. \A c \in Clients : pc[c] = "idle" /\ base[c] = 0 /\ version = 0
    BY <1>1 DEF Init
  <2>2. \A c \in Clients : base[c] <= version
    <3> TAKE c \in Clients
    <3>1. base[c] \in Nat /\ version \in Nat /\ base[c] = version
      BY <2>1
    <3> QED BY <3>1
  <2>3. \A c \in Clients : pc[c] # "update"
    BY <2>1
  <2> QED BY <2>2, <2>3, Zenon DEF ReadInv
<1>2. Spec => []ReadInv
  BY <1>1, ReadStep, SecretTypeCorrect, PTL DEF Spec
<1>3. TypeOK /\ ReadInv /\ [Next]_vars
        => [\A c \in Clients : pc[c] = "update" /\ pc'[c] = "idle"
               => \A k \in Keys \ {key[c]} : data'[k] = data[k]]_vars
  BY UpdateOwnKey
<1> QED BY <1>2, <1>3, SecretTypeCorrect, PTL DEF Spec, OtherKeysKept

-----------------------------------------------------------------------------
(***************************************************************************)
(* A group that is begun is being completed.  While no request was cut     *)
(* off, the request that is past the role has made exactly the objects     *)
(* before its next one: it never finds one that exists, and goes on.       *)
(***************************************************************************)
GroupAttended == objects \notin {{}, Group} => \E c \in Clients : pc[c] \in Creating

MadeBefore ==
    [p \in Creating |-> CASE p = "rolebinding"    -> {"role"}
                          [] p = "secret"         -> {"role", "rolebinding"}
                          [] p = "serviceaccount" -> Group \ {"serviceaccount"}]

GroupInv ==
    faults = 0 =>
        /\ GroupAttended
        /\ \A c \in Clients : pc[c] \in Creating => objects = MadeBefore[pc[c]]

(* What a step does to the group: nothing, one more object, or it is a fault. *)
LEMMA GroupMoves ==
    ASSUME TypeOK, NEW c \in Clients, ClientStep(c)
    PROVE  /\ \A d \in Clients \ {c} : pc'[d] = pc[d]
           /\ \/ faults' > 0
              \/ /\ faults' = faults /\ objects' = objects
                 /\ pc[c] \notin Creating /\ pc'[c] \notin Creating
              \/ /\ faults' = faults /\ objects' = objects
                 /\ pc[c] \in objects \cap Creating
              \/ /\ faults' = faults /\ objects' = objects \cup {pc[c]} /\ pc[c] \notin objects
                 /\ <<pc[c], pc'[c]>> \in {<<"role", "rolebinding">>, <<"rolebinding", "secret">>,
                                           <<"secret", "serviceaccount">>,
                                           <<"serviceaccount", "get">>}
<1> USE DEF Goto, Respond, store, args, read, Creating, TypeOK
<1>1. CASE ListAvailableKeys(c)
  BY <1>1 DEF ListAvailableKeys
<1>2. CASE Put(c)
  BY <1>2 DEF Put
<1>3. CASE k8sSecretExists(c)
  BY <1>3 DEF k8sSecretExists
<1>4. CASE addNewRole(c)
  BY <1>4 DEF addNewRole, CreateObject
<1>5. CASE addNewRoleBinding(c)
  BY <1>5 DEF addNewRoleBinding, CreateObject
<1>6. CASE addNewSecret(c)
  BY <1>6 DEF addNewSecret, CreateObject
<1>7. CASE addNewServiceAccount(c)
  BY <1>7 DEF addNewServiceAccount, CreateObject
<1>8. CASE GetSecret(c)
  BY <1>8 DEF GetSecret
<1>9. CASE UpdateSecret(c)
  BY <1>9 DEF UpdateSecret
<1>10. CASE DeleteSecretKey(c)
  BY <1>10 DEF DeleteSecretKey
<1>11. CASE Abort(c)
  BY <1>11 DEF Abort
<1> QED BY <1>1, <1>2, <1>3, <1>4, <1>5, <1>6, <1>7, <1>8, <1>9, <1>10, <1>11
        DEF ClientStep, PutStep

(* Every step keeps GroupInv. *)
LEMMA GroupStep ==
    ASSUME TypeOK, CreatorInv, GroupInv, [Next]_vars
    PROVE  GroupInv'
<1>1. ASSUME NEW c \in Clients, ClientStep(c)
      PROVE  GroupInv'
  <2> SUFFICES ASSUME faults' = 0
               PROVE  /\ GroupAttended'
                      /\ \A d \in Clients : pc'[d] \in Creating => objects' = MadeBefore[pc'[d]]
    BY DEF GroupInv
  <2>1. \A d \in Clients \ {c} : pc'[d] = pc[d]
    BY <1>1, GroupMoves
  <2>2. CASE /\ faults' = faults /\ objects' = objects
             /\ pc[c] \notin Creating /\ pc'[c] \notin Creating
    BY <2>1, <2>2 DEF GroupInv, GroupAttended
  <2>3. CASE faults' = faults /\ pc[c] \in objects \cap Creating
    <3>1. objects = MadeBefore[pc[c]] /\ pc[c] \in Creating
      BY <2>3 DEF GroupInv
    <3>2. pc[c] \notin MadeBefore[pc[c]]
      BY <3>1 DEF MadeBefore, Creating, Group
    <3> QED BY <2>3, <3>1, <3>2
  <2>4. CASE /\ faults' = faults /\ objects' = objects \cup {pc[c]} /\ pc[c] \notin objects
             /\ pc[c] = "role" /\ pc'[c] = "rolebinding"
    <3>1. \A d \in Clients : pc[d] \notin Creating
      BY <2>4 DEF CreatorInv
    <3>2. objects = {}
      BY <2>4, <3>1 DEF GroupInv, GroupAttended, Group
    <3> QED BY <2>1, <2>4, <3>1, <3>2 DEF GroupAttended, Creating, MadeBefore
  <2>5. CASE /\ faults' = faults /\ objects' = objects \cup {pc[c]}
             /\ <<pc[c], pc'[c]>> \in {<<"rolebinding", "secret">>, <<"secret", "serviceaccount">>,
                                       <<"serviceaccount", "get">>}
    <3>1. pc[c] \in Creating /\ objects = MadeBefore[pc[c]]
      BY <2>5 DEF GroupInv, Creating
    <3>2. \A d \in Clients \ {c} : pc'[d] \notin Creating
      BY <2>1, <3>1 DEF CreatorInv, OneCreator
    <3>3. \/ pc'[c] \in Creating /\ objects' = MadeBefore[pc'[c]]
          \/ pc'[c] \notin Creating /\ objects' = Group
      BY <2>5, <3>1 DEF MadeBefore, Creating, Group
    <3> QED BY <3>2, <3>3 DEF GroupAttended
  <2> QED BY <1>1, <2>2, <2>3, <2>4, <2>5, GroupMoves
<1>2. CASE UNCHANGED vars
  BY <1>2 DEF vars, GroupInv, GroupAttended
<1> QED BY <1>1, <1>2 DEF Next

(* While no request was cut off, a group that is begun and not complete is  *)
(* being completed by a request, however the first PUTs of a workspace      *)
(* race: nothing but a request that ends inside createNewGroup leaves a     *)
(* group that no request is at work on (secret.go:143-171).                 *)
THEOREM GroupNotAbandoned == Spec => [](faults = 0 => GroupAttended)
<1>1. Init => CreatorInv /\ GroupInv
  BY DEF Init, CreatorInv, OneCreator, GroupInv, GroupAttended, Creating
<1>2. GroupInv => (faults = 0 => GroupAttended)
  BY DEF GroupInv
<1> QED BY <1>1, <1>2, CreatorStep, GroupStep, SecretTypeCorrect, PTL DEF Spec
=============================================================================
