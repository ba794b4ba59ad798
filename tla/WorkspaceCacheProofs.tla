------------------------ MODULE WorkspaceCacheProofs ------------------------
(***************************************************************************)
(* Proofs about WorkspaceCache, for every set of clients, names and roles  *)
(* and for any number of requests, faults and broken watches.              *)
(***************************************************************************)
EXTENDS WorkspaceCache, FiniteSetTheorems, TLAPS

(* Types of the parts of a step. *)

LEMMA NoMapType == NoMap \in ConfigMap
  BY DEF NoMap, ConfigMap

LEMMA EmptyType == Empty \in List
  BY DEF Empty, List

\* What the informer knows is well typed, and so is the list made of it.
LEMMA ListType ==
  ASSUME NEW maps \in [Names -> ConfigMap]
  PROVE  listWorkspaceConfigMaps(maps) \in List
  <1>1. ASSUME NEW n \in Names, maps[n].label, maps[n].roles # BadRoles
        PROVE  maps[n].roles \in Roles \cup {NoRoles}
    BY <1>1 DEF ConfigMap
  <1> QED BY <1>1 DEF listWorkspaceConfigMaps, Parses, List

LEMMA SetType ==
  ASSUME TypeOK, NEW n \in Names, NEW m \in ConfigMap, Set(n, m)
  PROVE  /\ cm' \in [Names -> ConfigMap]
         /\ pending' \in [Names -> Seq(ConfigMap)]
         /\ up' = up /\ index' = index /\ calls' = calls
  BY DEF Set, TypeOK

LEMMA WriteType ==
  ASSUME TypeOK, NEW n \in Names, NEW r \in Roles \cup {BadRoles, NoRoles},
         NEW l \in BOOLEAN, Write(n, r, l)
  PROVE  /\ cm' \in [Names -> ConfigMap]
         /\ pending' \in [Names -> Seq(ConfigMap)]
         /\ up' = up /\ index' = index /\ calls' = calls
         /\ clock' \in Nat
  <1>1. CASE cm[n].roles = r /\ cm[n].label = l
    BY <1>1 DEF Write, informer, TypeOK
  <1>2. CASE ~(cm[n].roles = r /\ cm[n].label = l)
    <2> DEFINE m == [roles |-> r, label |-> l, rev |-> clock + 1]
    <2>1. m \in ConfigMap
      BY DEF ConfigMap, TypeOK
    <2>2. Set(n, m) /\ clock' = clock + 1
      BY <1>2 DEF Write
    <2> HIDE DEF m
    <2> QED BY <2>1, <2>2, SetType DEF TypeOK
  <1> QED BY <1>1, <1>2

-----------------------------------------------------------------------------
(* Type correctness, one lemma per group of actions. *)

LEMMA InitTyped == Init => TypeOK
  <1> SUFFICES ASSUME Init PROVE TypeOK
    OBVIOUS
  <1>1. cm \in [Names -> ConfigMap]
    <2>1. \A r \in Roles : [roles |-> r, label |-> TRUE, rev |-> 1] \in ConfigMap
      BY DEF ConfigMap
    <2>2. {NoMap} \cup {[roles |-> r, label |-> TRUE, rev |-> 1] : r \in Roles}
            \subseteq ConfigMap
      BY <2>1, NoMapType
    <2> QED BY <2>2 DEF Init
  <1>2. ns \in [Names -> Namespace]
    BY DEF Init, Namespace, Phase
  <1>3. calls \in Seq(Call)
    <2>1. {n \in Names : cm[n] # NoMap} \subseteq Names
      OBVIOUS
    <2>2. Cardinality({n \in Names : cm[n] # NoMap}) \in Nat
      BY <2>1, FS_Subset, FS_CardinalityType, WorkspaceAssumption
    <2> DEFINE k == Cardinality({n \in Names : cm[n] # NoMap})
               add == [func |-> "add", same |-> FALSE, label |-> TRUE]
    <2>3. add \in Call /\ k \in Nat
      BY <2>2 DEF Call
    <2>4. calls = [i \in 1..k |-> add]
      BY DEF Init
    <2> HIDE DEF k, add
    <2> QED BY <2>3, <2>4
  <1>4. req \in [Clients -> {Idle} \cup Active]
    BY DEF Init
  <1> QED BY <1>1, <1>2, <1>3, <1>4, EmptyType DEF Init, TypeOK, Threads

LEMMA OperateTyped ==
  ASSUME TypeOK, NEW n \in Names, Operate(n)
  PROVE  TypeOK'
  <1>1. CASE \E r \in Roles \cup {BadRoles}, l \in BOOLEAN : Write(n, r, l)
    <2>1. PICK r \in Roles \cup {BadRoles}, l \in BOOLEAN : Write(n, r, l)
      BY <1>1
    <2>2. /\ cm' \in [Names -> ConfigMap] /\ pending' \in [Names -> Seq(ConfigMap)]
          /\ up' = up /\ index' = index /\ calls' = calls /\ clock' \in Nat
      BY <2>1, WriteType
    <2>3. requests' \in Nat
      BY DEF Operate, TypeOK
    <2> QED BY <2>2, <2>3 DEF Operate, cache, TypeOK
  <1>2. CASE Set(n, NoMap) /\ UNCHANGED clock
    BY <1>2, SetType, NoMapType DEF Operate, cache, TypeOK
  <1> QED BY <1>1, <1>2 DEF Operate

LEMMA NamespaceGoneTyped ==
  ASSUME TypeOK, NEW n \in Names, NamespaceGone(n)
  PROVE  TypeOK'
  <1>1. ns' \in [Names -> Namespace]
    BY DEF NamespaceGone, TypeOK, Namespace, Phase
  <1> QED BY <1>1 DEF NamespaceGone, informer, cache, TypeOK

LEMMA NotificationType ==
  ASSUME NEW old \in ConfigMap, NEW m \in ConfigMap
  PROVE  Notification(old, m) \in Call
  BY DEF Notification, Call, ConfigMap

LEMMA InformerTyped ==
  ASSUME TypeOK,
         \/ WatchBreaks
         \/ Relist
         \/ \E n \in Names : Deliver(n) \/ Resync(n)
  PROVE  TypeOK'
  <1>1. CASE WatchBreaks
    <2>1. up' \in BOOLEAN
      BY <1>1, Zenon DEF WatchBreaks
    <2>2. breaks' \in Nat
      BY <1>1 DEF WatchBreaks, TypeOK
    <2> QED BY <1>1, <2>1, <2>2 DEF WatchBreaks, informerOnly, cache, TypeOK
  <1>2. CASE Relist
    <2>1. pending' \in [Names -> Seq(ConfigMap)]
      BY <1>2 DEF Relist, TypeOK
    <2> QED BY <1>2, <2>1 DEF Relist, informerOnly, cache, TypeOK
  <1>3. ASSUME NEW n \in Names, Deliver(n)
        PROVE  TypeOK'
    <2>1. Head(pending[n]) \in ConfigMap /\ Tail(pending[n]) \in Seq(ConfigMap)
      BY <1>3 DEF Deliver, TypeOK
    <2>2. index' \in [Names -> ConfigMap] /\ pending' \in [Names -> Seq(ConfigMap)]
      BY <1>3, <2>1 DEF Deliver, TypeOK
    <2>3. Notification(index[n], Head(pending[n])) \in Call
      BY <2>1, NotificationType DEF TypeOK
    <2>4. calls' \in Seq(Call)
      BY <1>3, <2>3 DEF Deliver, TypeOK
    <2> QED BY <1>3, <2>2, <2>4 DEF Deliver, informerOnly, cache, TypeOK
  <1>4. ASSUME NEW n \in Names, Resync(n)
        PROVE  TypeOK'
    <2>1. Notification(index[n], index[n]) \in Call
      BY NotificationType DEF TypeOK
    <2>2. calls' \in Seq(Call)
      BY <1>4, <2>1 DEF Resync
    <2> QED BY <1>4, <2>2 DEF Resync, informerOnly, cache, TypeOK
  <1> QED BY <1>1, <1>2, <1>3, <1>4

LEMMA ServerTyped ==
  ASSUME TypeOK, Callback \/ \E t \in Threads : UpdateConfigMaps(t)
  PROVE  TypeOK'
  <1>1. CASE Callback
    <2>1. calls' \in Seq(Call)
      BY <1>1 DEF Callback, TypeOK
    <2>2. upd' \in [Threads -> {"idle", "lock", "list", "assign"}]
      BY <1>1 DEF Callback, Threads, TypeOK
    <2> QED BY <1>1, <2>1, <2>2 DEF Callback, serverOnly, TypeOK
  <1>2. ASSUME NEW t \in Threads, UpdateConfigMaps(t)
        PROVE  TypeOK'
    <2>1. CASE Lock(t)
      BY <2>1 DEF Lock, serverOnly, TypeOK
    <2>2. CASE ListIndex(t)
      <3>1. fresh' \in [Threads -> List]
        BY <2>2, ListType DEF ListIndex, TypeOK
      <3> QED BY <2>2, <3>1 DEF ListIndex, serverOnly, TypeOK
    <2>3. CASE Assign(t)
      BY <2>3, EmptyType DEF Assign, serverOnly, TypeOK
    <2> QED BY <1>2, <2>1, <2>2, <2>3 DEF UpdateConfigMaps
  <1> QED BY <1>1, <1>2

\* A client that is not idle has a complete request.
LEMMA ActiveRequest ==
  ASSUME TypeOK, NEW c \in Clients, req[c] # Idle \/ req[c].pc # "idle"
  PROVE  req[c] \in Active
  BY DEF TypeOK, Idle

\* What requests do to a namespace.
LEMMA NamespaceType ==
  ASSUME TypeOK, NEW n \in Names, NEW p \in Phase
  PROVE  /\ [ns EXCEPT ![n] = [phase |-> p, rev |-> clock + 1]] \in [Names -> Namespace]
         /\ [ns EXCEPT ![n].rev = clock + 1] \in [Names -> Namespace]
  <1>1. [phase |-> p, rev |-> clock + 1] \in Namespace
    BY DEF TypeOK, Namespace
  <1>2. ns[n] \in Namespace /\ clock + 1 \in Nat
    BY DEF TypeOK
  <1>3. [ns[n] EXCEPT !.rev = clock + 1] \in Namespace
    BY <1>2 DEF Namespace
  <1> QED BY <1>1, <1>3 DEF TypeOK

LEMMA RequestTyped ==
  ASSUME TypeOK, NEW c \in Clients, Request(c)
  PROVE  TypeOK'
  <1> DEFINE ReqTyped == req' \in [Clients -> {Idle} \cup Active]
  <1>end. End(c) => ReqTyped
    BY DEF End, TypeOK
  <1>goto. ASSUME req[c] \in Active,
                  NEW p \in {"createMap", "updateNamespace", "getMap", "updateMap",
                             "deleteMap"},
                  Goto(c, p)
           PROVE  ReqTyped
    BY <1>goto DEF Goto, TypeOK, Active
  <1>with. ASSUME req[c] \in Active, NEW p \in {"createMap", "getMap"}, WithRoles(c, p)
           PROVE  ReqTyped
    BY <1>with, <1>goto, <1>end DEF WithRoles
  <1>name. req[c] \in Active => /\ req[c].name \in Names
                                /\ req[c].roles \in Roles \cup {NoRoles}
                                /\ req[c].got \in ConfigMap
                                /\ req[c].got.label \in BOOLEAN
    BY DEF Active, ConfigMap
  <1>begin. ASSUME NEW first \in {"createNamespace", "getNamespace", "deleteNamespace"},
                   Begin(c, first)
            PROVE  TypeOK'
    <2>1. PICK n \in Names, r \in Roles \cup {NoRoles} :
            req' = [req EXCEPT ![c] =
              [pc |-> first, name |-> n, roles |-> r, got |-> NoMap, nsRev |-> 0]]
      BY <1>begin DEF Begin
    <2>2. [pc |-> first, name |-> n, roles |-> r, got |-> NoMap, nsRev |-> 0] \in Active
      BY NoMapType DEF Active
    <2>3. ReqTyped
      BY <2>1, <2>2 DEF TypeOK
    <2> QED BY <1>begin, <2>3 DEF Begin, informer, cache, TypeOK
  <1>1. CASE WorkspacesCreateHandler(c) \/ WorkspacesUpdateHandler(c)
             \/ WorkspacesDeleteHandler(c)
    BY <1>1, <1>begin DEF WorkspacesCreateHandler, WorkspacesUpdateHandler,
      WorkspacesDeleteHandler
  <1>2. CASE CreateNamespace(c)
    <2>1. req[c] \in Active
      BY <1>2, ActiveRequest DEF CreateNamespace
    <2>2. ReqTyped
      BY <1>2, <2>1, <1>with, <1>end DEF CreateNamespace
    <2>3. ns' \in [Names -> Namespace] /\ clock' \in Nat
      <3>1. \/ ns' = ns /\ clock' = clock
            \/ ns' = [ns EXCEPT ![req[c].name] =
                               [phase |-> "active", rev |-> clock + 1]]
               /\ clock' = clock + 1
        BY <1>2 DEF CreateNamespace
      <3>2. req[c].name \in Names /\ "active" \in Phase /\ "terminating" \in Phase
        BY <2>1, <1>name DEF Phase
      <3>3. [ns EXCEPT ![req[c].name] = [phase |-> "active", rev |-> clock + 1]]
              \in [Names -> Namespace]
        BY <3>2, NamespaceType
      <3>4. ns \in [Names -> Namespace] /\ clock \in Nat /\ clock + 1 \in Nat
        BY DEF TypeOK
      <3> QED BY <3>1, <3>3, <3>4
    <2> QED BY <1>2, <2>2, <2>3 DEF CreateNamespace, informer, cache, requestOnly, TypeOK
  <1>3. CASE CreateConfigMap(c)
    <2>1. req[c] \in Active
      BY <1>3, ActiveRequest DEF CreateConfigMap
    <2>2. CASE Write(req[c].name, req[c].roles, TRUE)
      BY <1>3, <2>1, <2>2, <1>name, <1>end, WriteType
        DEF CreateConfigMap, cache, requestOnly, TypeOK
    <2>3. CASE UNCHANGED <<cm, clock, informer>>
      BY <1>3, <2>3, <1>end DEF CreateConfigMap, informer, cache, requestOnly, TypeOK
    <2> QED BY <1>3, <2>2, <2>3 DEF CreateConfigMap
  <1>4. CASE GetNamespace(c)
    <2>1. req[c] \in Active
      BY <1>4, ActiveRequest DEF GetNamespace
    <2>2. ns[req[c].name].rev \in Nat
      BY <2>1, <1>name DEF TypeOK, Namespace
    <2>3. ReqTyped
      <3>1. [req[c] EXCEPT !.pc = "updateNamespace", !.nsRev = ns[req[c].name].rev]
              \in Active
        BY <2>1, <2>2 DEF Active
      <3>2. CASE ns[req[c].name].phase # "absent"
        BY <1>4, <3>1, <3>2 DEF GetNamespace, TypeOK
      <3> QED BY <1>4, <3>2, <1>end DEF GetNamespace
    <2> QED BY <1>4, <2>3 DEF GetNamespace, informer, cache, requestOnly, TypeOK
  <1>5. CASE UpdateNamespace(c)
    <2>1. req[c] \in Active
      BY <1>5, ActiveRequest DEF UpdateNamespace
    <2>2. ReqTyped
      BY <1>5, <2>1, <1>with, <1>end DEF UpdateNamespace
    <2>3. ns' \in [Names -> Namespace] /\ clock' \in Nat
      <3>1. \/ ns' = ns /\ clock' = clock
            \/ ns' = [ns EXCEPT ![req[c].name].rev = clock + 1] /\ clock' = clock + 1
        BY <1>5 DEF UpdateNamespace
      <3>2. req[c].name \in Names /\ "active" \in Phase /\ "terminating" \in Phase
        BY <2>1, <1>name DEF Phase
      <3>3. [ns EXCEPT ![req[c].name].rev = clock + 1]
              \in [Names -> Namespace]
        BY <3>2, NamespaceType
      <3>4. ns \in [Names -> Namespace] /\ clock \in Nat /\ clock + 1 \in Nat
        BY DEF TypeOK
      <3> QED BY <3>1, <3>3, <3>4
    <2> QED BY <1>5, <2>2, <2>3 DEF UpdateNamespace, informer, cache, requestOnly, TypeOK
  <1>6. CASE GetConfigMap(c)
    <2>1. req[c] \in Active
      BY <1>6, ActiveRequest DEF GetConfigMap
    <2>2. cm[req[c].name] \in ConfigMap
      BY <2>1, <1>name DEF TypeOK
    <2>3. ASSUME req' = [req EXCEPT ![c].pc = "updateMap", ![c].got = cm[req[c].name]]
          PROVE  ReqTyped
      <3>1. [req[c] EXCEPT !.pc = "updateMap", !.got = cm[req[c].name]] \in Active
        BY <2>1, <2>2 DEF Active
      <3> QED BY <2>3, <3>1 DEF TypeOK
    <2>4. Goto(c, "updateMap") => ReqTyped
      BY <2>1, <1>goto
    <2>5. ReqTyped
      BY <1>6, <2>3, <2>4, Zenon DEF GetConfigMap
    <2>6. faults' \in Nat
      BY <1>6 DEF GetConfigMap, TypeOK
    <2> QED BY <1>6, <2>5, <2>6 DEF GetConfigMap, informer, cache, requestOnly, TypeOK
  <1>7. CASE UpdateConfigMap(c)
    <2>1. req[c] \in Active
      BY <1>7, ActiveRequest DEF UpdateConfigMap
    <2>2. CASE Write(req[c].name, req[c].roles, req[c].got.label)
      BY <1>7, <2>1, <2>2, <1>name, <1>end, WriteType
        DEF UpdateConfigMap, cache, requestOnly, TypeOK
    <2>3. CASE UNCHANGED <<cm, clock, informer>>
      BY <1>7, <2>3, <1>end DEF UpdateConfigMap, informer, cache, requestOnly, TypeOK
    <2> QED BY <1>7, <2>2, <2>3 DEF UpdateConfigMap
  <1>8. CASE DeleteNamespace(c)
    <2>1. req[c] \in Active
      BY <1>8, ActiveRequest DEF DeleteNamespace
    <2>2. ns[req[c].name].phase \in Phase
      BY <2>1, <1>name DEF TypeOK, Namespace
    <2>3. ReqTyped
      BY <1>8, <2>1, <2>2, <1>goto, <1>end DEF DeleteNamespace, Phase
    <2>4. ns' \in [Names -> Namespace] /\ clock' \in Nat
      <3>1. \/ ns' = ns /\ clock' = clock
            \/ ns' = [ns EXCEPT ![req[c].name] =
                               [phase |-> "terminating", rev |-> clock + 1]]
               /\ clock' = clock + 1
        BY <1>8, <2>2 DEF DeleteNamespace, Phase
      <3>2. req[c].name \in Names /\ "active" \in Phase /\ "terminating" \in Phase
        BY <2>1, <1>name DEF Phase
      <3>3. [ns EXCEPT ![req[c].name] = [phase |-> "terminating", rev |-> clock + 1]]
              \in [Names -> Namespace]
        BY <3>2, NamespaceType
      <3>4. ns \in [Names -> Namespace] /\ clock \in Nat /\ clock + 1 \in Nat
        BY DEF TypeOK
      <3> QED BY <3>1, <3>3, <3>4
    <2> QED BY <1>8, <2>3, <2>4 DEF DeleteNamespace, informer, cache, requestOnly, TypeOK
  <1>9. CASE DeleteConfigMap(c)
    <2>1. req[c] \in Active
      BY <1>9, ActiveRequest DEF DeleteConfigMap
    <2>2. CASE Set(req[c].name, NoMap)
      BY <1>9, <2>1, <2>2, <1>name, <1>end, SetType, NoMapType
        DEF DeleteConfigMap, cache, requestOnly, TypeOK
    <2>3. CASE UNCHANGED <<cm, informer>>
      BY <1>9, <2>3, <1>end DEF DeleteConfigMap, informer, cache, requestOnly, TypeOK
    <2> QED BY <1>9, <2>2, <2>3 DEF DeleteConfigMap
  <1>10. CASE CallFails(c)
    BY <1>10, <1>end DEF CallFails, informer, cache, requestOnly, TypeOK
  <1> QED BY <1>1, <1>2, <1>3, <1>4, <1>5, <1>6, <1>7, <1>8, <1>9, <1>10 DEF Request

LEMMA TypedStep == TypeOK /\ [Next]_vars => TypeOK'
  <1> SUFFICES ASSUME TypeOK, [Next]_vars PROVE TypeOK'
    OBVIOUS
  <1>1. CASE UNCHANGED vars
    BY <1>1 DEF vars, informer, cache, TypeOK
  <1>2. CASE Next
    BY <1>2, OperateTyped, NamespaceGoneTyped, InformerTyped, ServerTyped, RequestTyped
      DEF Next
  <1> QED BY <1>1, <1>2

\* WorkspaceCache is well typed: whatever operators write into a config map and
\* whatever the order of callbacks, a list has settings that can be parsed.
THEOREM WorkspaceTypeCorrect == Spec => []TypeOK
  BY InitTyped, TypedStep, PTL DEF Spec

-----------------------------------------------------------------------------
(***************************************************************************)
(* The list is current when nothing is on its way.  The invariant follows  *)
(* a change along its way: while the watch is open, the newest version the *)
(* informer was told of is the stored one (ChainInv); two versions of a    *)
(* config map with the same resource version are the same (VersionInv), so *)
(* a callback that UpdateFunc ignores brought nothing new; and unless a    *)
(* refresh is still to begin, the last list made, assigned or about to be, *)
(* is that of the index (ListInv), which needs the mutex (MutexInv).       *)
(***************************************************************************)
LastKnown(n) ==
    IF pending[n] = <<>> THEN index[n] ELSE pending[n][Len(pending[n])]

ChainInv == up => \A n \in Names : LastKnown(n) = cm[n]

Known(n) ==
    {cm[n], index[n]} \cup {pending[n][i] : i \in 1..Len(pending[n])}

VersionInv ==
    \A n \in Names : \A x, y \in Known(n) :
        /\ x.rev <= clock
        /\ x.rev = y.rev => x = y
        /\ x.rev = 0 <=> x = NoMap

MutexInv ==
    \A t \in Threads : upd[t] \in {"list", "assign"} => mutex = {t}

RefreshWaits ==
    \/ \E i \in 1..Len(calls) : NeedsUpdate(calls[i])
    \/ \E t \in Threads : upd[t] \in {"lock", "list"}

Entry(m) == IF m.label /\ m.roles # BadRoles THEN m.roles ELSE NoRoles

LastList(n) ==
    /\ \A t \in Threads : upd[t] = "assign" => fresh[t][n] = Entry(index[n])
    /\ (\A t \in Threads : upd[t] # "assign") => ws[n] = Entry(index[n])

ListInv ==
    \A n \in Names :
        index[n] = NoMap \/ index[n].label => RefreshWaits \/ LastList(n)

CacheInv == ChainInv /\ VersionInv /\ MutexInv /\ ListInv

LEMMA EntryOfList ==
  ASSUME NEW maps, NEW n \in Names
  PROVE  listWorkspaceConfigMaps(maps)[n] = Entry(maps[n])
  BY DEF listWorkspaceConfigMaps, Parses, Entry

LEMMA InitCurrent == Init => CacheInv
  <1> SUFFICES ASSUME Init PROVE CacheInv
    OBVIOUS
  <1>1. ChainInv
    BY DEF Init, ChainInv, LastKnown
  <1>2. VersionInv
    <2>1. \A n \in Names : Known(n) = {cm[n]}
      BY DEF Init, Known
    <2>2. \A n \in Names : cm[n] = NoMap \/ cm[n].rev = 1
      BY DEF Init
    <2>3. NoMap.rev = 0 /\ clock = 1
      BY DEF Init, NoMap
    <2> QED BY <2>1, <2>2, <2>3 DEF VersionInv
  <1>3. MutexInv
    BY DEF Init, MutexInv
  <1>4. RefreshWaits
    BY DEF Init, RefreshWaits, Threads
  <1> QED BY <1>1, <1>2, <1>3, <1>4 DEF CacheInv, ListInv

\* The informer learns nothing new.
LEMMA NothingNew ==
  ASSUME VersionInv, clock \in Nat, clock' \in Nat, clock' >= clock,
         \A n \in Names : Known(n)' \subseteq Known(n),
         \A n \in Names : \A x \in Known(n) : x.rev \in Nat
  PROVE  VersionInv'
  <1> SUFFICES ASSUME NEW n \in Names, NEW x \in Known(n)', NEW y \in Known(n)'
               PROVE  /\ x.rev <= clock'
                      /\ x.rev = y.rev => x = y
                      /\ x.rev = 0 <=> x = NoMap
    BY DEF VersionInv
  <1>1. x \in Known(n) /\ y \in Known(n) /\ x.rev \in Nat
    OBVIOUS
  <1>2. /\ x.rev <= clock
        /\ x.rev = y.rev => x = y
        /\ x.rev = 0 <=> x = NoMap
    BY <1>1 DEF VersionInv
  <1> QED BY <1>1, <1>2

LEMMA KnownType ==
  ASSUME TypeOK, NEW n \in Names
  PROVE  Known(n) \subseteq ConfigMap /\ \A x \in Known(n) : x.rev \in Nat
  <1>1. Known(n) \subseteq ConfigMap
    BY DEF Known, TypeOK
  <1> QED BY <1>1 DEF ConfigMap

\* Steps that touch neither the config maps nor the cache.
LEMMA StayCurrent ==
  ASSUME TypeOK, TypeOK', CacheInv, UNCHANGED <<cm, informer, cache>>, clock' >= clock
  PROVE  CacheInv'
  <1>1. VersionInv'
    <2>1. \A n \in Names : Known(n)' = Known(n)
      BY DEF Known, informer
    <2> QED BY <2>1, KnownType, NothingNew DEF TypeOK, CacheInv
  <1>2. ChainInv' /\ MutexInv' /\ ListInv'
    BY DEF CacheInv, ChainInv, LastKnown, MutexInv, ListInv, RefreshWaits, LastList,
      informer, cache
  <1> QED BY <1>1, <1>2 DEF CacheInv

\* A config map is written or deleted.
LEMMA SetCurrent ==
  ASSUME TypeOK, TypeOK', CacheInv, NEW n \in Names, NEW m \in ConfigMap, Set(n, m),
         UNCHANGED cache,
         \/ m = NoMap /\ clock' = clock
         \/ m.rev = clock + 1 /\ clock' = clock + 1
  PROVE  CacheInv'
  <1> USE DEF CacheInv
  <1>1. ChainInv'
    <2> SUFFICES ASSUME up, NEW k \in Names
                 PROVE  LastKnown(k)' = cm'[k]
      BY DEF ChainInv, Set
    <2>1. index' = index /\ pending' = [pending EXCEPT ![n] = Append(@, m)]
      BY DEF Set
    <2>2. CASE k = n
      <3>1. pending'[n] = Append(pending[n], m) /\ pending[n] \in Seq(ConfigMap)
        BY <2>1 DEF TypeOK
      <3>2. pending'[n] # <<>> /\ pending'[n][Len(pending'[n])] = m
        BY <3>1
      <3>3. cm'[n] = m
        BY DEF Set, TypeOK
      <3> QED BY <2>2, <3>2, <3>3 DEF LastKnown
    <2>3. CASE k # n
      BY <2>1, <2>3 DEF Set, ChainInv, LastKnown, TypeOK
    <2> QED BY <2>2, <2>3
  <1>2. VersionInv'
    <2>1. \A k \in Names : k # n => Known(k)' = Known(k)
      BY DEF Known, Set, TypeOK
    <2>2. Known(n)' \subseteq Known(n) \cup {m}
      <3>1. pending'[n] = pending[n] \/ pending'[n] = Append(pending[n], m)
        BY DEF Set, TypeOK
      <3>2. cm'[n] = m /\ index' = index /\ pending[n] \in Seq(ConfigMap)
        BY DEF Set, TypeOK
      <3>3. \A i \in 1..Len(pending'[n]) :
              \/ pending'[n][i] = m
              \/ i \in 1..Len(pending[n]) /\ pending'[n][i] = pending[n][i]
        BY <3>1, <3>2
      <3> QED BY <3>2, <3>3 DEF Known
    <2>3. NoMap.rev = 0 /\ clock \in Nat /\ m.rev \in Nat
      BY DEF NoMap, TypeOK, ConfigMap
    <2> SUFFICES ASSUME NEW k \in Names, NEW x \in Known(k)', NEW y \in Known(k)'
                 PROVE  /\ x.rev <= clock'
                        /\ x.rev = y.rev => x = y
                        /\ x.rev = 0 <=> x = NoMap
      BY DEF VersionInv
    <2>4. \A z \in Known(k)' : z \in Known(k) \/ z = m
      BY <2>1, <2>2
    <2>5. \A z \in Known(k) : z.rev \in Nat /\ z.rev <= clock /\ (z.rev = 0 <=> z = NoMap)
      BY KnownType DEF VersionInv
    <2>6. \A z, u \in Known(k) : z.rev = u.rev => z = u
      BY DEF VersionInv
    <2> QED BY <2>3, <2>4, <2>5, <2>6
  <1>3. MutexInv' /\ ListInv'
    BY DEF MutexInv, ListInv, RefreshWaits, LastList, Set, cache
  <1> QED BY <1>1, <1>2, <1>3

LEMMA WriteCurrent ==
  ASSUME TypeOK, TypeOK', CacheInv, NEW n \in Names,
         NEW r \in Roles \cup {BadRoles, NoRoles}, NEW l \in BOOLEAN,
         Write(n, r, l), UNCHANGED cache
  PROVE  CacheInv'
  <1>1. CASE cm[n].roles = r /\ cm[n].label = l
    <2>1. UNCHANGED <<cm, informer, cache>> /\ clock' >= clock
      BY <1>1 DEF Write, TypeOK
    <2> QED BY <2>1, StayCurrent
  <1>2. CASE ~(cm[n].roles = r /\ cm[n].label = l)
    <2> DEFINE m == [roles |-> r, label |-> l, rev |-> clock + 1]
    <2>1. m \in ConfigMap /\ m.rev = clock + 1
      BY DEF ConfigMap, TypeOK
    <2>2. Set(n, m) /\ clock' = clock + 1
      BY <1>2 DEF Write
    <2> HIDE DEF m
    <2> QED BY <2>1, <2>2, SetCurrent
  <1> QED BY <1>1, <1>2

\* The informer: a watch that breaks, lists again, or delivers a change.
LEMMA InformerCurrent ==
  ASSUME TypeOK, TypeOK', CacheInv,
         \/ WatchBreaks
         \/ Relist
         \/ \E n \in Names : Deliver(n) \/ Resync(n)
  PROVE  CacheInv'
  <1> USE DEF CacheInv
  <1>1. CASE WatchBreaks
    <2>1. ChainInv'
      BY <1>1 DEF WatchBreaks, ChainInv
    <2>2. VersionInv'
      BY <1>1 DEF WatchBreaks, informerOnly, VersionInv, Known
    <2>3. MutexInv' /\ ListInv'
      BY <1>1 DEF WatchBreaks, informerOnly, MutexInv, ListInv, RefreshWaits, LastList,
        cache
    <2> QED BY <2>1, <2>2, <2>3
  <1>2. CASE Relist
    <2>1. /\ cm' = cm /\ index' = index /\ clock' = clock
          /\ \A n \in Names : pending'[n] = Append(pending[n], cm[n])
                              /\ pending[n] \in Seq(ConfigMap)
      BY <1>2 DEF Relist, informerOnly, TypeOK
    <2>2. ChainInv'
      <3>1. \A n \in Names : pending'[n] # <<>> /\ pending'[n][Len(pending'[n])] = cm[n]
        BY <2>1
      <3> QED BY <2>1, <3>1 DEF ChainInv, LastKnown
    <2>3. VersionInv'
      <3>1. ASSUME NEW n \in Names
            PROVE  Known(n)' \subseteq Known(n)
        <4>1. \A i \in 1..Len(pending'[n]) :
                \/ pending'[n][i] = cm[n]
                \/ i \in 1..Len(pending[n]) /\ pending'[n][i] = pending[n][i]
          BY <2>1
        <4> QED BY <2>1, <4>1 DEF Known
      <3> QED BY <2>1, <3>1, KnownType, NothingNew DEF TypeOK
    <2>4. MutexInv' /\ ListInv'
      BY <1>2 DEF Relist, informerOnly, MutexInv, ListInv, RefreshWaits, LastList, cache
    <2> QED BY <2>2, <2>3, <2>4
  <1>3. ASSUME NEW n \in Names, Deliver(n)
        PROVE  CacheInv'
    <2> DEFINE m == Head(pending[n])
    <2>1. /\ pending[n] \in Seq(ConfigMap) /\ pending[n] # <<>>
          /\ m = pending[n][1] /\ m \in ConfigMap /\ 1 \in 1..Len(pending[n])
      BY <1>3 DEF Deliver, TypeOK
    <2>2. /\ cm' = cm /\ clock' = clock /\ up' = up /\ cache' = cache
          /\ index' = [index EXCEPT ![n] = m]
          /\ pending' = [pending EXCEPT ![n] = Tail(@)]
      BY <1>3 DEF Deliver, informerOnly
    <2>3. /\ pending'[n] = Tail(pending[n]) /\ index'[n] = m
          /\ \A k \in Names \ {n} : pending'[k] = pending[k] /\ index'[k] = index[k]
      BY <2>2 DEF TypeOK
    <2>4. ChainInv'
      <3> SUFFICES ASSUME up, NEW k \in Names
                   PROVE  LastKnown(k)' = cm[k]
        BY <2>2 DEF ChainInv
      <3>1. LastKnown(k) = cm[k]
        BY DEF ChainInv
      <3>2. CASE k = n /\ Tail(pending[n]) = <<>>
        <4>1. Len(pending[n]) = 1
          <5>1. Len(Tail(pending[n])) = Len(pending[n]) - 1
            BY <2>1
          <5>2. Len(Tail(pending[n])) = 0
            <6>1. Len(<<>>) = 0
              OBVIOUS
            <6> QED BY <3>2, <6>1, Zenon
          <5>3. Len(pending[n]) \in Nat
            BY <2>1
          <5> QED BY <5>1, <5>2, <5>3
        <4> QED BY <2>1, <2>3, <3>1, <3>2, <4>1 DEF LastKnown
      <3>3. CASE k = n /\ Tail(pending[n]) # <<>>
        <4>1. /\ Len(Tail(pending[n])) = Len(pending[n]) - 1
              /\ Len(Tail(pending[n])) >= 1
          BY <2>1, <3>3
        <4>2. Tail(pending[n])[Len(pending[n]) - 1] = pending[n][Len(pending[n])]
          BY <2>1, <4>1
        <4> QED BY <2>1, <2>3, <3>1, <3>3, <4>1, <4>2 DEF LastKnown
      <3>4. CASE k # n
        BY <2>3, <3>1, <3>4 DEF LastKnown
      <3> QED BY <3>2, <3>3, <3>4
    <2>5. VersionInv'
      <3>1. Known(n)' \subseteq Known(n)
        <4>1. \A i \in 1..Len(pending'[n]) :
                i + 1 \in 1..Len(pending[n]) /\ pending'[n][i] = pending[n][i + 1]
          BY <2>1, <2>3
        <4> QED BY <2>1, <2>2, <2>3, <4>1 DEF Known
      <3>2. \A k \in Names \ {n} : Known(k)' = Known(k)
        BY <2>2, <2>3 DEF Known
      <3>3. \A k \in Names : Known(k)' \subseteq Known(k)
        BY <3>1, <3>2
      <3>4. clock \in Nat /\ clock' \in Nat /\ clock' >= clock
        BY <2>2 DEF TypeOK
      <3>5. \A k \in Names : \A x \in Known(k) : x.rev \in Nat
        BY KnownType
      <3> QED BY <3>3, <3>4, <3>5, NothingNew
    <2>6. MutexInv'
      BY <2>2 DEF MutexInv, cache
    <2>7. RefreshWaits => RefreshWaits'
      <3>1. calls' = calls \/ calls' = Append(calls, Notification(index[n], m))
        BY <1>3 DEF Deliver
      <3>2. calls \in Seq(Call) /\ Notification(index[n], m) \in Call
        BY <2>1, NotificationType DEF TypeOK
      <3>3. \A i \in 1..Len(calls) : i \in 1..Len(calls') /\ calls'[i] = calls[i]
        BY <3>1, <3>2
      <3> QED BY <2>2, <3>3 DEF RefreshWaits, cache
    <2>8. CASE index[n] = m
      <3>1. index' = index
        BY <2>2, <2>8 DEF TypeOK
      <3>2. ListInv'
        BY <2>2, <2>7, <3>1 DEF ListInv, LastList, cache
      <3> QED BY <2>4, <2>5, <2>6, <3>2
    <2>9. CASE index[n] # m
      <3>1. calls' = Append(calls, Notification(index[n], m))
        BY <1>3, <2>9 DEF Deliver
      <3>2. index[n].rev # m.rev
        <4>1. index[n] \in Known(n) /\ m \in Known(n)
          BY <2>1 DEF Known
        <4> QED BY <2>9, <4>1 DEF VersionInv
      <3>3. m = NoMap \/ m.label => NeedsUpdate(Notification(index[n], m))
        BY <2>9, <3>2 DEF NeedsUpdate, Notification
      <3>4. m = NoMap \/ m.label => RefreshWaits'
        <4>1. /\ Len(calls') \in 1..Len(calls')
              /\ calls'[Len(calls')] = Notification(index[n], m)
          BY <3>1 DEF TypeOK
        <4> QED BY <3>3, <4>1 DEF RefreshWaits
      <3>5. ListInv'
        BY <2>2, <2>3, <2>7, <3>4 DEF ListInv, LastList, cache
      <3> QED BY <2>4, <2>5, <2>6, <3>5
    <2> QED BY <2>8, <2>9
  <1>4. ASSUME NEW n \in Names, Resync(n)
        PROVE  CacheInv'
    <2>1. UNCHANGED <<cm, clock, pending, up, index, cache>> /\ calls = <<>>
      BY <1>4 DEF Resync, informerOnly
    <2>2. ChainInv' /\ VersionInv' /\ MutexInv'
      BY <2>1 DEF ChainInv, LastKnown, VersionInv, Known, MutexInv, cache
    <2>3. RefreshWaits => RefreshWaits'
      BY <2>1 DEF RefreshWaits, cache
    <2>4. ListInv'
      BY <2>1, <2>3 DEF ListInv, LastList, cache
    <2> QED BY <2>2, <2>4
  <1> QED BY <1>1, <1>2, <1>3, <1>4

\* The server: a callback, and the steps of UpdateConfigMaps.
LEMMA ServerCurrent ==
  ASSUME TypeOK, TypeOK', CacheInv, Callback \/ \E t \in Threads : UpdateConfigMaps(t)
  PROVE  CacheInv'
  <1> USE DEF CacheInv
  <1>0. UNCHANGED <<cm, clock, pending, up, index>>
    BY DEF Callback, UpdateConfigMaps, Lock, ListIndex, Assign,
      serverOnly
  <1>1. ChainInv' /\ VersionInv'
    BY <1>0 DEF ChainInv, LastKnown, VersionInv, Known
  <1>2. CASE Callback
    <2>1. /\ calls \in Seq(Call) /\ calls # <<>> /\ calls' = Tail(calls)
          /\ upd["listener"] = "idle" /\ "listener" \in Threads
          /\ UNCHANGED <<mutex, fresh, ws>>
      BY <1>2 DEF Callback, TypeOK, Threads
    <2>2. CASE NeedsUpdate(Head(calls))
      <3>1. upd' = [upd EXCEPT !["listener"] = "lock"]
        BY <1>2, <2>2 DEF Callback
      <3>2. RefreshWaits'
        BY <2>1, <3>1 DEF RefreshWaits, TypeOK
      <3>3. MutexInv'
        BY <2>1, <3>1 DEF MutexInv, TypeOK
      <3> QED BY <1>1, <3>2, <3>3 DEF ListInv
    <2>3. CASE ~NeedsUpdate(Head(calls))
      <3>1. upd' = upd
        BY <1>2, <2>3 DEF Callback
      <3>2. \A i \in 1..Len(calls) :
              i = 1 \/ (i - 1 \in 1..Len(calls') /\ calls'[i - 1] = calls[i])
        BY <2>1
      <3>3. RefreshWaits => RefreshWaits'
        BY <2>1, <2>3, <3>1, <3>2 DEF RefreshWaits
      <3>4. ListInv' /\ MutexInv'
        BY <1>0, <2>1, <3>1, <3>3 DEF ListInv, LastList, MutexInv
      <3> QED BY <1>1, <3>4
    <2> QED BY <2>2, <2>3
  <1>3. ASSUME NEW t \in Threads, UpdateConfigMaps(t)
        PROVE  CacheInv'
    <2>0. calls' = calls
      BY <1>3 DEF UpdateConfigMaps, Lock, ListIndex, Assign
    <2>1. CASE Lock(t)
      <3>1. /\ upd' = [upd EXCEPT ![t] = "list"] /\ mutex = {} /\ mutex' = {t}
        BY <2>1 DEF Lock
      <3>2. RefreshWaits'
        BY <3>1 DEF RefreshWaits, TypeOK
      <3>3. MutexInv'
        BY <3>1 DEF MutexInv, TypeOK
      <3> QED BY <1>1, <3>2, <3>3 DEF ListInv
    <2>2. CASE ListIndex(t)
      <3>1. /\ upd[t] = "list" /\ upd' = [upd EXCEPT ![t] = "assign"]
            /\ fresh' = [fresh EXCEPT ![t] = listWorkspaceConfigMaps(index)]
            /\ UNCHANGED <<mutex, ws>>
        BY <2>2 DEF ListIndex
      <3>2. MutexInv'
        BY <3>1 DEF MutexInv, TypeOK
      <3>3. \A u \in Threads : upd'[u] = "assign" => u = t
        BY <3>1, <3>2 DEF MutexInv
      <3>4. \A n \in Names : fresh'[t][n] = Entry(index[n])
        BY <3>1, EntryOfList DEF TypeOK
      <3>5. upd'[t] = "assign"
        BY <3>1 DEF TypeOK
      <3>6. ListInv'
        BY <1>0, <3>3, <3>4, <3>5 DEF ListInv, LastList
      <3> QED BY <1>1, <3>2, <3>6
    <2>3. CASE Assign(t)
      <3>1. /\ upd[t] = "assign" /\ upd' = [upd EXCEPT ![t] = "idle"]
            /\ ws' = fresh[t]
            /\ fresh' = [fresh EXCEPT ![t] = Empty] /\ mutex' = mutex \ {t}
        BY <2>3 DEF Assign
      <3>2. \A u \in Threads : upd[u] \in {"list", "assign"} => u = t
        BY <3>1 DEF MutexInv
      <3>3. MutexInv'
        BY <3>1, <3>2 DEF MutexInv, TypeOK
      <3>4. RefreshWaits => RefreshWaits'
        BY <2>0, <3>1 DEF RefreshWaits, TypeOK
      <3>5. \A n \in Names : LastList(n) => LastList(n)'
        BY <1>0, <3>1, <3>2 DEF LastList, TypeOK
      <3>6. ListInv'
        BY <1>0, <3>4, <3>5 DEF ListInv
      <3> QED BY <1>1, <3>3, <3>6
    <2> QED BY <1>3, <2>1, <2>2, <2>3 DEF UpdateConfigMaps
  <1> QED BY <1>2, <1>3

\* Requests write config maps, or leave them alone.
LEMMA RequestCurrent ==
  ASSUME TypeOK, TypeOK', CacheInv, NEW c \in Clients, Request(c)
  PROVE  CacheInv'
  <1>0. UNCHANGED cache
    BY DEF Request, WorkspacesCreateHandler, WorkspacesUpdateHandler,
      WorkspacesDeleteHandler, Begin, CreateNamespace, CreateConfigMap, GetNamespace,
      UpdateNamespace, GetConfigMap, UpdateConfigMap, DeleteNamespace, DeleteConfigMap,
      CallFails, requestOnly
  <1>1. CASE CreateConfigMap(c) \/ UpdateConfigMap(c) \/ DeleteConfigMap(c)
    <2>1. req[c] \in Active
      BY <1>1, ActiveRequest DEF CreateConfigMap, UpdateConfigMap, DeleteConfigMap
    <2>2. /\ req[c].name \in Names /\ req[c].roles \in Roles \cup {BadRoles, NoRoles}
          /\ req[c].got.label \in BOOLEAN
      BY <2>1 DEF Active, ConfigMap
    <2>3. \/ Write(req[c].name, req[c].roles, TRUE)
          \/ Write(req[c].name, req[c].roles, req[c].got.label)
          \/ Set(req[c].name, NoMap) /\ clock' = clock
          \/ UNCHANGED <<cm, clock, informer>>
      BY <1>1 DEF CreateConfigMap, UpdateConfigMap, DeleteConfigMap
    <2>4. CASE UNCHANGED <<cm, clock, informer>>
      <3>1. clock' >= clock
        BY <2>4 DEF TypeOK
      <3> QED BY <1>0, <2>4, <3>1, StayCurrent
    <2> QED BY <1>0, <2>2, <2>3, <2>4, WriteCurrent, SetCurrent, NoMapType
  <1>2. CASE ~(CreateConfigMap(c) \/ UpdateConfigMap(c) \/ DeleteConfigMap(c))
    <2>1. UNCHANGED <<cm, informer>>
      BY <1>2 DEF Request, WorkspacesCreateHandler, WorkspacesUpdateHandler,
        WorkspacesDeleteHandler, Begin, CreateNamespace, GetNamespace, UpdateNamespace,
        GetConfigMap, DeleteNamespace, CallFails
    <2>2. clock' = clock \/ clock' = clock + 1
      <3>1. CASE DeleteNamespace(c)
        <4>1. req[c] \in Active
          BY <3>1, ActiveRequest DEF DeleteNamespace
        <4>2. ns[req[c].name].phase \in Phase
          BY <4>1 DEF Active, TypeOK, Namespace
        <4> QED BY <3>1, <4>2 DEF DeleteNamespace, Phase
      <3>2. CASE ~DeleteNamespace(c)
        BY <1>2, <3>2 DEF Request, WorkspacesCreateHandler, WorkspacesUpdateHandler,
          WorkspacesDeleteHandler, Begin, CreateNamespace, GetNamespace,
          UpdateNamespace, GetConfigMap, CallFails
      <3> QED BY <3>1, <3>2
    <2>3. clock' >= clock
      BY <2>2 DEF TypeOK
    <2> QED BY <1>0, <2>1, <2>3, StayCurrent
  <1> QED BY <1>1, <1>2

LEMMA OperatorCurrent ==
  ASSUME TypeOK, TypeOK', CacheInv, NEW n \in Names, Operate(n) \/ NamespaceGone(n)
  PROVE  CacheInv'
  <1>1. CASE Operate(n)
    <2>1. PICK r \in Roles \cup {BadRoles}, l \in BOOLEAN :
            Write(n, r, l) \/ (Set(n, NoMap) /\ clock' = clock)
      BY <1>1 DEF Operate
    <2>2. UNCHANGED cache
      BY <1>1 DEF Operate
    <2> QED BY <2>1, <2>2, WriteCurrent, SetCurrent, NoMapType
  <1>2. CASE NamespaceGone(n)
    <2>1. UNCHANGED <<cm, informer, cache>> /\ clock' >= clock
      BY <1>2 DEF NamespaceGone, TypeOK
    <2> QED BY <2>1, StayCurrent
  <1> QED BY <1>1, <1>2

LEMMA CurrentStep == TypeOK /\ TypeOK' /\ CacheInv /\ [Next]_vars => CacheInv'
  <1> SUFFICES ASSUME TypeOK, TypeOK', CacheInv, [Next]_vars PROVE CacheInv'
    OBVIOUS
  <1>1. CASE UNCHANGED vars
    <2>1. UNCHANGED <<cm, informer, cache>> /\ clock' >= clock
      BY <1>1 DEF vars, TypeOK
    <2> QED BY <2>1, StayCurrent
  <1>2. CASE Next
    BY <1>2, OperatorCurrent, InformerCurrent, ServerCurrent, RequestCurrent DEF Next
  <1> QED BY <1>1, <1>2

\* When no change is on its way through informer, callbacks and UpdateConfigMaps,
\* the cached list shows every labelled config map as it is and none that was
\* deleted, for any number of names, clients, faults and broken watches.
THEOREM ListIsCurrent == Spec => []QuietListCurrent
  <1>1. CacheInv => QuietListCurrent
    <2> SUFFICES ASSUME CacheInv, Quiet, NEW n \in Names, Recognised(n)
                 PROVE  Current(n)
      BY DEF QuietListCurrent
    <2>1. index[n] = cm[n]
      BY DEF CacheInv, ChainInv, LastKnown, Quiet
    <2>2. ~RefreshWaits
      BY DEF RefreshWaits, Quiet
    <2>3. LastList(n)
      BY <2>1, <2>2 DEF CacheInv, ListInv, Recognised
    <2>4. ws[n] = Entry(cm[n])
      BY <2>1, <2>3 DEF LastList, Quiet
    <2> QED BY <2>4, EntryOfList DEF Current, ListWorkspaces
  <1> QED BY <1>1, InitTyped, TypedStep, InitCurrent, CurrentStep, PTL DEF Spec
=============================================================================
