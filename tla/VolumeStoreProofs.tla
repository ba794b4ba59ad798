-------------------------- MODULE VolumeStoreProofs --------------------------
(***************************************************************************)
(* Theorems about VolumeStore, for every number of clients, workspaces,    *)
(* requests, changes of the list and failing calls.                        *)
(***************************************************************************)
EXTENDS VolumeStore, SequenceTheorems, TLAPS

(***************************************************************************)
(* What is stored, answered and on its way.                                *)
(***************************************************************************)

\* A request on its way to a write has passed the look-up of PutVolume or of
\* DeleteVolume.
Writing == {"find", "insert", "replace", "remove"}

\* A volume that ReplaceOne is to replace was there, unless the look-up failed.
ReplaceInv ==
    \A c \in Clients :
        req[c].pc = "replace" =>
            faults > 0 \/ req[c].uid \in deleted \/ With(req[c].uid) # {}

\* A uid is given out by one POST, which has the number of its request; until the
\* POST has stored its volume, no other request is about that uid.  A PUT that
\* finds nothing is about a uid made up or deleted, and when it is to insert what
\* has been stored in the meantime, another request has raced it.
OwnUid(c) ==
    req[c] # Idle =>
        /\ req[c].content \in 1 .. requests
        /\ req[c].pc \in {"insert", "replace"} => req[c].op \in {"post", "put"}
        /\ req[c].op = "post" => req[c].uid = req[c].content /\ req[c].uid \notin posted
        /\ req[c].op = "put" => req[c].uid \in posted \cup {0}
        /\ req[c].pc = "insert" /\ req[c].uid \in posted => req[c].uid \in deleted
        /\ req[c].pc = "insert" /\ With(req[c].uid) # {} => req[c].uid \in raced

\* Two requests have different numbers.
OwnNumber(c, k) ==
    c # k /\ req[c] # Idle /\ req[k] # Idle => req[c].content # req[k].content

\* A volume has a uid that was given out or made up, and a uid that was given out
\* stays stored until a DELETE.
PostedInv ==
    /\ posted \subseteq 1 .. requests
    /\ \A v \in vols : v.uid \in posted \cup {0}
    /\ \A u \in posted : u \in deleted \/ With(u) # {}

UidInv ==
    /\ PostedInv
    /\ \A c \in Clients : OwnUid(c)
    /\ \A c, k \in Clients : OwnNumber(c, k)
    /\ OneVolumePerUid

\* A request knows the lists there have been since it began, and past
\* PathAuthorization one of them allows what it does.
AccessInv ==
    \A c \in Clients : req[c] # Idle =>
        /\ list \in seen[c]
        /\ got[c] = {}
        /\ req[c].pc \in Writing =>
             \E l \in seen[c] : AccessLevel(l, req[c].ws, UserOf[c]).admin
        /\ req[c].pc \in {"get", "list"} =>
             \E l \in seen[c] : \/ AccessLevel(l, req[c].ws, UserOf[c]).admin
                                \/ AccessLevel(l, req[c].ws, UserOf[c]).user

-----------------------------------------------------------------------------
(* Types of the parts of a step. *)

LEMMA RequestActive ==
  ASSUME NEW r \in {Idle} \cup Request
  PROVE  r # Idle <=> r \in Request /\ r.pc # "idle"
  BY DEF Idle, Request

LEMMA VisibleType ==
  ASSUME NEW l \in Listing, NEW u
  PROVE  Visible(l, u) \in Listing
  BY DEF Visible, Listing

LEMMA GotoTyped ==
  ASSUME TypeOK, NEW c \in Clients, req[c].pc # "idle",
         NEW p \in {"find", "get", "list", "insert", "replace", "remove"},
         Goto(c, p)
  PROVE  /\ req' \in [Clients -> {Idle} \cup Request]
         /\ req' = [req EXCEPT ![c] = req'[c]]
         /\ req'[c] \in Request
         /\ req'[c].pc = p
         /\ req'[c].op = req[c].op /\ req'[c].ws = req[c].ws
         /\ req'[c].uid = req[c].uid /\ req'[c].content = req[c].content
         /\ req'[c].ctx = req[c].ctx
  <1>1. req[c] \in Request
    BY RequestActive DEF TypeOK, Idle
  <1> DEFINE r == [req[c] EXCEPT !.pc = p]
  <1>2. /\ r \in Request /\ r.pc = p
        /\ r.op = req[c].op /\ r.ws = req[c].ws
        /\ r.uid = req[c].uid /\ r.content = req[c].content /\ r.ctx = req[c].ctx
    BY <1>1 DEF Request
  <1>3. req' = [req EXCEPT ![c] = r]
    BY DEF Goto
  <1> HIDE DEF r
  <1> QED BY <1>2, <1>3 DEF TypeOK

LEMMA ReplyTyped ==
  ASSUME TypeOK, NEW c \in Clients, NEW V \in SUBSET Volume, Reply(c, V)
  PROVE  /\ req' \in [Clients -> {Idle} \cup Request] /\ req'[c] = Idle
         /\ seen' \in [Clients -> SUBSET Listing]
         /\ got' \in [Clients -> SUBSET Volume] /\ got'[c] = V
         /\ \A k \in Clients \ {c} :
              req'[k] = req[k] /\ seen'[k] = seen[k] /\ got'[k] = got[k]
  BY DEF Reply, TypeOK

LEMMA DocumentType ==
  ASSUME TypeOK, NEW c \in Clients, req[c].pc # "idle", NEW i \in Nat
  PROVE  /\ Document(c, i) \in Volume
         /\ Document(c, i).uid = req[c].uid
         /\ Document(c, i).content = req[c].content
  <1>1. req[c] \in Request
    BY RequestActive DEF TypeOK, Idle
  <1> QED BY <1>1 DEF Document, Volume, Request

-----------------------------------------------------------------------------
(* Type correctness, one lemma per group of actions. *)

LEMMA UidsType ==
  ASSUME TypeOK, NEW o \in Ops, NEW u \in Uids(o)
  PROVE  u \in Nat
  BY DEF Uids, TypeOK, Ops

\* The request that Begin makes.
LEMMA BeginShape ==
  ASSUME TypeOK, NEW c \in Clients, Begin(c)
  PROVE  \E r \in Request :
           /\ req' = [req EXCEPT ![c] = r]
           /\ r.pc = "authorize" /\ r.content = requests + 1 /\ r.uid \in Uids(r.op)
  <1> DEFINE R(o, n, u) == [pc |-> "authorize", op |-> o, ws |-> n, uid |-> u,
                            content |-> requests + 1, ctx |-> Visible(list, UserOf[c])]
  <1>1. PICK o \in Ops, n \in Names :
          \E u \in Uids(o) : req' = [req EXCEPT ![c] = R(o, n, u)]
    BY DEF Begin
  <1>2. PICK u \in Uids(o) : req' = [req EXCEPT ![c] = R(o, n, u)]
    BY <1>1
  <1>3. u \in Nat /\ Visible(list, UserOf[c]) \in Listing /\ requests + 1 \in Nat
    BY UidsType, VisibleType DEF TypeOK
  <1>4. R(o, n, u) \in Request
    BY <1>3 DEF Request
  <1>5. /\ R(o, n, u).pc = "authorize" /\ R(o, n, u).content = requests + 1
        /\ R(o, n, u).uid \in Uids(R(o, n, u).op)
    OBVIOUS
  <1> HIDE DEF R
  <1> QED BY <1>2, <1>4, <1>5

LEMMA ListChangesTyped ==
  ASSUME TypeOK, ListChanges
  PROVE  TypeOK'
  <1>1. list' \in Listing
    BY DEF ListChanges, TypeOK, Listing
  <1>2. seen' \in [Clients -> SUBSET Listing]
    BY <1>1 DEF ListChanges, TypeOK
  <1> QED BY <1>1, <1>2 DEF ListChanges, TypeOK, store

LEMMA BeginTyped ==
  ASSUME TypeOK, NEW c \in Clients, Begin(c)
  PROVE  TypeOK'
  <1>1. req' \in [Clients -> {Idle} \cup Request]
    <2>1. PICK r \in Request : req' = [req EXCEPT ![c] = r]
      BY BeginShape
    <2> QED BY <2>1 DEF TypeOK
  <1>2. /\ seen' \in [Clients -> SUBSET Listing]
        /\ got' \in [Clients -> SUBSET Volume]
    BY DEF Begin, TypeOK
  <1> QED BY <1>1, <1>2 DEF Begin, TypeOK, store

LEMMA AuthorizeTyped ==
  ASSUME TypeOK, NEW c \in Clients, PathAuthorization(c)
  PROVE  TypeOK'
  <1>1. CASE Reply(c, {})
    BY <1>1, ReplyTyped DEF PathAuthorization, TypeOK, store, counters
  <1>2. CASE Goto(c, First(req[c].op)) /\ UNCHANGED <<seen, got>>
    <2>1. First(req[c].op) \in {"find", "get", "list"} /\ req[c].pc # "idle"
      BY DEF First, PathAuthorization
    <2>2. req' \in [Clients -> {Idle} \cup Request]
      BY <1>2, <2>1, GotoTyped
    <2> QED BY <1>2, <2>2 DEF PathAuthorization, TypeOK, store, counters
  <1> QED BY <1>1, <1>2 DEF PathAuthorization

LEMMA ReadTyped ==
  ASSUME TypeOK, NEW c \in Clients, VolumeGetHandler(c) \/ VolumesListHandler(c)
  PROVE  TypeOK'
  <1>1. PICK V \in SUBSET Volume : Reply(c, V)
    <2>1. CASE VolumeGetHandler(c)
      <3>1. CASE \E v \in Found(c) : Reply(c, IF v.ws = req[c].ws THEN {v} ELSE {})
        BY <3>1 DEF Found, With, TypeOK
      <3> QED BY <2>1, <3>1 DEF VolumeGetHandler
    <2>2. CASE VolumesListHandler(c)
      <3>1. {v \in Listed(c) : v.ws = req[c].ws} \in SUBSET Volume
        BY DEF Listed, TypeOK
      <3> QED BY <2>2, <3>1 DEF VolumesListHandler
    <2> QED BY <2>1, <2>2
  <1>2. UNCHANGED <<store, list, counters>>
    BY DEF VolumeGetHandler, VolumesListHandler
  <1> QED BY <1>1, <1>2, ReplyTyped DEF TypeOK, store, counters

LEMMA FindTyped ==
  ASSUME TypeOK, NEW c \in Clients, PutFind(c) \/ DeleteFind(c)
  PROVE  TypeOK'
  <1>1. CASE PutFind(c)
    <2>1. PICK p \in {"insert", "replace"} : Goto(c, p)
      BY <1>1 DEF PutFind
    <2>2. req[c].pc # "idle"
      BY <1>1 DEF PutFind
    <2>3. req' \in [Clients -> {Idle} \cup Request]
      BY <2>1, <2>2, GotoTyped
    <2>4. faults' \in Nat
      BY <1>1 DEF PutFind, TypeOK
    <2> QED BY <1>1, <2>3, <2>4 DEF PutFind, TypeOK, store
  <1>2. CASE DeleteFind(c)
    <2>1. CASE Reply(c, {})
      BY <1>2, <2>1, ReplyTyped DEF DeleteFind, TypeOK, store, counters
    <2>2. CASE Goto(c, "remove") /\ UNCHANGED <<seen, got>>
      <3>1. req' \in [Clients -> {Idle} \cup Request]
        BY <1>2, <2>2, GotoTyped DEF DeleteFind
      <3> QED BY <1>2, <2>2, <3>1 DEF DeleteFind, TypeOK, store, counters
    <2> QED BY <1>2, <2>1, <2>2 DEF DeleteFind
  <1> QED BY <1>1, <1>2

\* What Replace leaves: every volume, or one of them written anew.
LEMMA ReplaceShape ==
  ASSUME TypeOK, NEW c \in Clients, Replace(c)
  PROVE  \/ With(req[c].uid) = {} /\ vols' = vols
         \/ \E v \in With(req[c].uid), n \in Volume :
              /\ vols' = (vols \ {v}) \cup {n}
              /\ n.uid = req[c].uid /\ n.content = req[c].content
  <1>1. ASSUME NEW v \in With(req[c].uid),
               vols' = (vols \ {v}) \cup {Document(c, v.id)}
        PROVE  \E n \in Volume : /\ vols' = (vols \ {v}) \cup {n}
                                 /\ n.uid = req[c].uid /\ n.content = req[c].content
    <2>1. v.id \in Nat
      BY DEF With, TypeOK, Volume
    <2>2. req[c].pc # "idle"
      BY DEF Replace
    <2> QED BY <1>1, <2>1, <2>2, DocumentType
  <1> QED BY <1>1 DEF Replace

LEMMA InsertShape ==
  ASSUME TypeOK, NEW c \in Clients, Insert(c)
  PROVE  \E n \in Volume :
              /\ vols' = vols \cup {n}
              /\ n.uid = req[c].uid /\ n.content = req[c].content
  <1>1. req[c].pc # "idle"
    BY DEF Insert
  <1>2. req[c] \in Request
    BY <1>1, RequestActive DEF TypeOK, Idle
  <1>3. req[c].content \in Nat
    BY <1>2 DEF Request
  <1> QED BY <1>1, <1>3, DocumentType DEF Insert

LEMMA WriteTyped ==
  ASSUME TypeOK, NEW c \in Clients, Insert(c) \/ Replace(c) \/ Remove(c)
  PROVE  TypeOK'
  <1>1. vols' \in SUBSET Volume
    <2>1. CASE Insert(c)
      BY <2>1, InsertShape DEF TypeOK
    <2>2. CASE Replace(c)
      BY <2>2, ReplaceShape DEF TypeOK
    <2>3. CASE Remove(c)
      BY <2>3 DEF Remove, TypeOK
    <2> QED BY <2>1, <2>2, <2>3
  <1>2. posted' \in SUBSET Nat /\ raced' \in SUBSET Nat
    <2>1. req[c] \in Request
      BY RequestActive DEF TypeOK, Idle, Insert, Replace, Remove
    <2>2. req[c].uid \in Nat
      BY <2>1 DEF Request
    <2> QED BY <2>2 DEF Insert, Replace, Remove, TypeOK
  <1>3. deleted' \in SUBSET Nat
    BY DEF Insert, Replace, Remove, TypeOK, With, Volume
  <1>4. Reply(c, {}) /\ UNCHANGED <<list, counters>>
    BY DEF Insert, Replace, Remove
  <1> QED BY <1>1, <1>2, <1>3, <1>4, ReplyTyped DEF TypeOK, counters

LEMMA FailTyped ==
  ASSUME TypeOK, NEW c \in Clients, CallFails(c)
  PROVE  TypeOK'
  <1>1. Reply(c, {})
    BY DEF CallFails
  <1>2. faults' \in Nat
    BY DEF CallFails, TypeOK
  <1> QED BY <1>1, <1>2, ReplyTyped DEF CallFails, TypeOK, store

LEMMA NextTyped == TypeOK /\ [Next]_vars => TypeOK'
  <1> SUFFICES ASSUME TypeOK, [Next]_vars PROVE TypeOK'
    OBVIOUS
  <1>1. CASE UNCHANGED vars
    BY <1>1 DEF vars, TypeOK
  <1>2. ASSUME NEW c \in Clients, Handle(c) PROVE TypeOK'
    BY <1>2, BeginTyped, AuthorizeTyped, ReadTyped, FindTyped, WriteTyped, FailTyped
      DEF Handle
  <1> QED BY <1>1, <1>2, ListChangesTyped DEF Next

LEMMA InitTyped == Init => TypeOK
  BY DEF Init, TypeOK

\* Collection, cached list, requests and answers keep their types whatever the
\* order of requests, changes of the list and failing calls.
THEOREM VolumeTypeCorrect == Spec => []TypeOK
  BY InitTyped, NextTyped, PTL DEF Spec

-----------------------------------------------------------------------------
(* What one step may change. *)

\* A handler leaves the requests of other clients alone.
LEMMA HandleFrame ==
  ASSUME TypeOK, NEW c \in Clients, Handle(c), NEW k \in Clients \ {c}
  PROVE  req'[k] = req[k] /\ seen'[k] = seen[k] /\ got'[k] = got[k]
  <1>1. CASE Begin(c)
    <2>1. PICK r \in Request : req' = [req EXCEPT ![c] = r]
      BY <1>1, BeginShape
    <2> QED BY <1>1, <2>1 DEF Begin, TypeOK
  <1>2. CASE \E V : Reply(c, V)
    BY <1>2 DEF Reply, TypeOK
  <1>3. CASE (\E p : Goto(c, p)) /\ UNCHANGED <<seen, got>>
    BY <1>3 DEF Goto, TypeOK
  <1>4. CASE VolumeGetHandler(c)
    BY <1>4, <1>2, Zenon DEF VolumeGetHandler
  <1>5. CASE VolumesListHandler(c)
    BY <1>5, <1>2, Zenon DEF VolumesListHandler
  <1>6. CASE PutFind(c)
    BY <1>6, <1>3 DEF PutFind
  <1>7. CASE PathAuthorization(c) \/ DeleteFind(c)
    BY <1>7, <1>2, <1>3 DEF PathAuthorization, DeleteFind
  <1>8. CASE Insert(c) \/ Replace(c) \/ Remove(c) \/ CallFails(c)
    BY <1>8, <1>2 DEF Insert, Replace, Remove, CallFails
  <1> QED BY <1>1, <1>4, <1>5, <1>6, <1>7, <1>8 DEF Handle

\* Where a request goes: Begin makes one, PathAuthorization and the look-ups
\* send it on without changing it, and every other step ends it.
LEMMA HandleMoves ==
  ASSUME TypeOK, NEW c \in Clients, Handle(c), req'[c] # Idle
  PROVE  \/ Begin(c)
         \/ /\ PathAuthorization(c) \/ PutFind(c) \/ DeleteFind(c)
            /\ req[c] \in Request /\ req'[c] \in Request
            /\ req'[c].op = req[c].op /\ req'[c].ws = req[c].ws
            /\ req'[c].uid = req[c].uid /\ req'[c].content = req[c].content
            /\ req'[c].ctx = req[c].ctx
            /\ seen'[c] = seen[c] /\ got'[c] = got[c]
  <1>1. ASSUME NEW V, Reply(c, V) PROVE req'[c] = Idle
    BY <1>1 DEF Reply, TypeOK
  <1>2. ASSUME NEW p \in {"find", "get", "list", "insert", "replace", "remove"},
               Goto(c, p), req[c].pc # "idle"
        PROVE  /\ req[c] \in Request /\ req'[c] \in Request
               /\ req'[c].op = req[c].op /\ req'[c].ws = req[c].ws
               /\ req'[c].uid = req[c].uid /\ req'[c].content = req[c].content
               /\ req'[c].ctx = req[c].ctx
    <2>1. req[c] \in Request
      BY <1>2, RequestActive DEF TypeOK, Idle
    <2> QED BY <1>2, <2>1, GotoTyped
  <1>3. ~(Insert(c) \/ Replace(c) \/ Remove(c) \/ CallFails(c))
    BY <1>1 DEF Insert, Replace, Remove, CallFails
  <1>4. ~VolumeGetHandler(c)
    BY <1>1, Zenon DEF VolumeGetHandler
  <1>5. ~VolumesListHandler(c)
    BY <1>1, Zenon DEF VolumesListHandler
  <1>6. CASE PathAuthorization(c)
    <2>1. Goto(c, First(req[c].op)) /\ UNCHANGED <<seen, got>> /\ req[c].pc # "idle"
      BY <1>1, <1>6 DEF PathAuthorization
    <2>2. First(req[c].op) \in {"find", "get", "list"}
      BY DEF First
    <2> QED BY <1>2, <1>6, <2>1, <2>2
  <1>7. CASE PutFind(c)
    <2>1. PICK p \in {"insert", "replace"} : Goto(c, p)
      BY <1>7 DEF PutFind
    <2>2. UNCHANGED <<seen, got>> /\ req[c].pc # "idle"
      BY <1>7 DEF PutFind
    <2> QED BY <1>2, <1>7, <2>1, <2>2
  <1>8. CASE DeleteFind(c)
    <2>1. Goto(c, "remove") /\ UNCHANGED <<seen, got>> /\ req[c].pc # "idle"
      BY <1>1, <1>8 DEF DeleteFind
    <2> QED BY <1>2, <1>8, <2>1
  <1> QED BY <1>3, <1>4, <1>5, <1>6, <1>7, <1>8 DEF Handle

\* The statement that comes next.
LEMMA NextStatement ==
  ASSUME TypeOK, NEW c \in Clients
  PROVE  /\ Begin(c) => req'[c].pc = "authorize"
         /\ PathAuthorization(c) /\ req'[c] # Idle => req'[c].pc = First(req[c].op)
         /\ PutFind(c) => \/ req'[c].pc = "insert" /\ With(req[c].uid) = {}
                          \/ req'[c].pc = "replace" /\ With(req[c].uid) # {}
                          \/ req'[c].pc = "replace" /\ faults' = faults + 1
         /\ DeleteFind(c) /\ req'[c] # Idle => req'[c].pc = "remove"
  <1>1. ASSUME Begin(c) PROVE req'[c].pc = "authorize"
    <2>1. PICK r \in Request : req' = [req EXCEPT ![c] = r] /\ r.pc = "authorize"
      BY <1>1, BeginShape
    <2> QED BY <2>1 DEF TypeOK
  <1>2. ASSUME NEW p \in {"find", "get", "list", "insert", "replace", "remove"},
               Goto(c, p), req[c].pc # "idle"
        PROVE  req'[c].pc = p
    BY <1>2, GotoTyped
  <1>3. ASSUME NEW V, Reply(c, V) PROVE req'[c] = Idle
    BY <1>3 DEF Reply, TypeOK
  <1>4. ASSUME PathAuthorization(c), req'[c] # Idle
        PROVE  req'[c].pc = First(req[c].op)
    <2>1. Goto(c, First(req[c].op)) /\ req[c].pc # "idle"
      BY <1>3, <1>4 DEF PathAuthorization
    <2>2. First(req[c].op) \in {"find", "get", "list"}
      BY DEF First
    <2> QED BY <1>2, <2>1, <2>2
  <1>5. ASSUME PutFind(c)
        PROVE  \/ req'[c].pc = "insert" /\ With(req[c].uid) = {}
               \/ req'[c].pc = "replace" /\ With(req[c].uid) # {}
               \/ req'[c].pc = "replace" /\ faults' = faults + 1
    <2>1. req[c].pc # "idle"
      BY <1>5 DEF PutFind
    <2>2. CASE Goto(c, IF With(req[c].uid) = {} THEN "insert" ELSE "replace")
      BY <1>2, <2>1, <2>2
    <2>3. CASE Goto(c, "replace") /\ faults' = faults + 1
      BY <1>2, <2>1, <2>3
    <2> QED BY <1>5, <2>2, <2>3 DEF PutFind
  <1>6. ASSUME DeleteFind(c), req'[c] # Idle
        PROVE  req'[c].pc = "remove"
    BY <1>2, <1>3, <1>6 DEF DeleteFind
  <1> QED BY <1>1, <1>4, <1>5, <1>6

\* Only DELETE takes a volume away, and it leaves its uid among the deleted.
LEMMA StoreSteps ==
  ASSUME TypeOK, NEW c \in Clients, Handle(c)
  PROVE  /\ deleted \subseteq deleted'
         /\ faults' >= faults
         /\ \A u \in Nat : With(u) # {} => With(u)' # {} \/ u \in deleted'
  <1>0. ASSUME UNCHANGED <<vols, deleted>>
        PROVE  /\ deleted \subseteq deleted'
               /\ \A u \in Nat : With(u) # {} => With(u)' # {} \/ u \in deleted'
    BY <1>0 DEF With
  <1>1. faults' >= faults
    BY DEF Handle, Begin, PathAuthorization, VolumeGetHandler, VolumesListHandler,
           PutFind, Insert, Replace, DeleteFind, Remove, CallFails, counters, TypeOK
  <1>2. CASE \/ Begin(c) \/ PathAuthorization(c) \/ PutFind(c) \/ DeleteFind(c)
             \/ VolumeGetHandler(c) \/ VolumesListHandler(c) \/ CallFails(c)
    <2>1. UNCHANGED <<vols, deleted>>
      BY <1>2 DEF Begin, PathAuthorization, VolumeGetHandler, VolumesListHandler,
                  PutFind, DeleteFind, CallFails, store
    <2> QED BY <1>0, <1>1, <2>1
  <1>3. CASE Insert(c)
    <2>1. vols \subseteq vols' /\ deleted' = deleted
      BY <1>3 DEF Insert
    <2> QED BY <1>1, <2>1 DEF With
  <1>4. CASE Replace(c)
    <2>1. deleted' = deleted
      BY <1>4 DEF Replace
    <2>2. CASE vols' = vols
      BY <1>0, <1>1, <2>1, <2>2
    <2>3. CASE \E v \in With(req[c].uid), n \in Volume :
                 vols' = (vols \ {v}) \cup {n} /\ n.uid = req[c].uid
      BY <1>1, <2>1, <2>3 DEF With
    <2> QED BY <1>4, <2>2, <2>3, ReplaceShape
  <1>5. CASE Remove(c)
    <2>1. CASE UNCHANGED <<vols, deleted>>
      BY <1>0, <1>1, <2>1
    <2>2. CASE \E v \in With(req[c].uid) :
                 vols' = vols \ {v} /\ deleted' = deleted \cup {v.uid}
      BY <1>1, <2>2 DEF With
    <2> QED BY <1>5, <2>1, <2>2 DEF Remove
  <1> QED BY <1>2, <1>3, <1>4, <1>5 DEF Handle

-----------------------------------------------------------------------------
(* Success means stored. *)

LEMMA ReplaceInvNext == TypeOK /\ ReplaceInv /\ [Next]_vars => ReplaceInv'
  <1> SUFFICES ASSUME TypeOK, ReplaceInv, [Next]_vars,
                      NEW k \in Clients, req'[k].pc = "replace"
               PROVE  \/ faults' > 0 \/ req'[k].uid \in deleted'
                      \/ With(req[k].uid)' # {}
    BY DEF ReplaceInv, With
  <1>1. CASE UNCHANGED vars
    BY <1>1 DEF vars, ReplaceInv, With
  <1>2. CASE ListChanges
    BY <1>2 DEF ListChanges, store, ReplaceInv, With
  <1>3. ASSUME NEW c \in Clients, Handle(c)
        PROVE  \/ faults' > 0 \/ req'[k].uid \in deleted'
               \/ With(req[k].uid)' # {}
    <2>1. TypeOK'
      BY <1>3, NextTyped DEF Next
    <2>2. req'[k] # Idle /\ req'[k].uid \in Nat
      <3>1. req'[k] \in {Idle} \cup Request
        BY <2>1 DEF TypeOK
      <3> QED BY <3>1 DEF Idle, Request
    <2>3. ASSUME req'[k].uid = req[k].uid,
                 \/ faults > 0 \/ req[k].uid \in deleted \/ With(req[k].uid) # {}
          PROVE  \/ faults' > 0 \/ req'[k].uid \in deleted' \/ With(req[k].uid)' # {}
      <3>1. /\ deleted \subseteq deleted' /\ faults' >= faults
            /\ \A u \in Nat : With(u) # {} => With(u)' # {} \/ u \in deleted'
        BY <1>3, StoreSteps
      <3>2. faults \in Nat /\ faults' \in Nat
        BY <2>1 DEF TypeOK
      <3> QED BY <2>2, <2>3, <3>1, <3>2 DEF With
    <2>4. CASE k # c
      <3>1. req'[k] = req[k]
        BY <1>3, <2>4, HandleFrame
      <3> QED BY <2>3, <3>1 DEF ReplaceInv
    <2>5. CASE k = c
      <3>1. PutFind(c) /\ req'[c].uid = req[c].uid
        <4>1. ~Begin(c) /\ ~DeleteFind(c) /\ ~PathAuthorization(c)
          BY <2>2, <2>5, NextStatement DEF First
        <4> QED BY <1>3, <2>2, <2>5, <4>1, HandleMoves
      <3>2. With(req[c].uid) # {} \/ faults' = faults + 1
        BY <3>1, <2>5, NextStatement
      <3>3. faults \in Nat
        BY DEF TypeOK
      <3> QED BY <2>3, <2>5, <3>1, <3>2, <3>3
    <2> QED BY <2>4, <2>5
  <1> QED BY <1>1, <1>2, <1>3 DEF Next

\* A POST or PUT answers with success only when the collection has what it sent,
\* or the volume was deleted, or a call had failed: ReplaceOne, which reports no
\* error when it matches nothing, is reached only from a look-up that found the
\* volume, and nothing but DELETE takes it away in between.
THEOREM AnsweredMeansStored == Spec => AnsweredIsStored
  <1> DEFINE A == \A c \in Clients : req[c].pc \in {"insert", "replace"} /\ req'[c] = Idle
                    => \/ \E v \in vols' : v.uid = req[c].uid /\ v.content = req[c].content
                       \/ req[c].uid \in deleted
                       \/ faults' > 0
  <1>1. Init => ReplaceInv
    BY DEF Init, ReplaceInv, Idle
  <1>2. TypeOK /\ ReplaceInv /\ [Next]_vars => [A]_vars
    <2> SUFFICES ASSUME TypeOK, ReplaceInv, Next, NEW k \in Clients,
                        req[k].pc \in {"insert", "replace"}, req'[k] = Idle
                 PROVE  \/ \E v \in vols' : v.uid = req[k].uid /\ v.content = req[k].content
                        \/ req[k].uid \in deleted
                        \/ faults' > 0
      OBVIOUS
    <2>1. req[k] # Idle
      BY DEF Idle
    <2>2. ~ListChanges
      BY <2>1 DEF ListChanges
    <2>3. PICK c \in Clients : Handle(c)
      BY <2>2 DEF Next
    <2>4. Handle(k)
      BY <2>1, <2>3, HandleFrame
    <2>5. CASE Insert(k)
      BY <2>5, InsertShape
    <2>6. CASE Replace(k)
      <3>1. faults \in Nat /\ faults' = faults
        BY <2>6 DEF Replace, counters, TypeOK
      <3>2. req[k].pc = "replace"
        BY <2>6 DEF Replace
      <3>3. faults > 0 \/ req[k].uid \in deleted \/ With(req[k].uid) # {}
        BY <3>2 DEF ReplaceInv
      <3> QED BY <2>6, <3>1, <3>3, ReplaceShape
    <2>7. CASE CallFails(k)
      BY <2>7 DEF CallFails, TypeOK
    <2> QED BY <2>1, <2>4, <2>5, <2>6, <2>7
         DEF Handle, Begin, PathAuthorization, VolumeGetHandler, VolumesListHandler,
             PutFind, DeleteFind, Remove
  <1>3. AnsweredIsStored <=> [][A]_vars
    BY DEF AnsweredIsStored
  <1> HIDE DEF A
  <1> QED BY <1>1, <1>2, <1>3, ReplaceInvNext, VolumeTypeCorrect, PTL DEF Spec

-----------------------------------------------------------------------------
(* Who may write and who may read. *)

\* What PathAuthorization lets through to a write is an administrator's.
LEMMA AuthorizeWrite ==
  ASSUME NEW l, NEW n, NEW u, NEW o \in Ops \ {"get", "list"},
         Authorize(l, n, u, Action(o))
  PROVE  AccessLevel(l, n, u).admin
  <1>1. Action(o) \notin {"read", "list"}
    BY DEF Ops, Action
  <1> QED BY <1>1 DEF Authorize, GetPermissions

LEMMA AuthorizeRead ==
  ASSUME NEW l, NEW n, NEW u, NEW o \in Ops, Authorize(l, n, u, Action(o))
  PROVE  AccessLevel(l, n, u).admin \/ AccessLevel(l, n, u).user
  <1> DEFINE level == AccessLevel(l, n, u)
  <1>1. IF Action(o) \in {"read", "list"} THEN level.user \/ level.admin ELSE level.admin
    BY DEF Authorize, GetPermissions
  <1> HIDE DEF level
  <1>2. level.user \/ level.admin
    BY <1>1
  <1> QED BY <1>2 DEF level

LEMMA AccessInvNext == TypeOK /\ AccessInv /\ [Next]_vars => AccessInv'
  <1> USE DEF Writing
  <1> DEFINE Admin(l, c) == AccessLevel(l, req[c].ws, UserOf[c]).admin
             User(l, c) == AccessLevel(l, req[c].ws, UserOf[c]).user
             P(c) == req[c] # Idle =>
                       /\ list \in seen[c]
                       /\ got[c] = {}
                       /\ req[c].pc \in Writing => \E l \in seen[c] : Admin(l, c)
                       /\ req[c].pc \in {"get", "list"} =>
                            \E l \in seen[c] : Admin(l, c) \/ User(l, c)
  <1>0. AccessInv <=> \A c \in Clients : P(c)
    BY DEF AccessInv
  <1> SUFFICES ASSUME TypeOK, AccessInv, [Next]_vars, NEW k \in Clients
               PROVE  P(k)'
    BY DEF AccessInv
  <1>1. P(k)
    BY <1>0
  <1>2. CASE UNCHANGED vars
    BY <1>1, <1>2 DEF vars
  <1>3. CASE ListChanges
    <2>1. /\ req' = req /\ got' = got
          /\ req[k] # Idle => seen'[k] = seen[k] \cup {list'}
      BY <1>3 DEF ListChanges
    <2> QED BY <1>1, <2>1
  <1>4. ASSUME NEW c \in Clients, Handle(c)
        PROVE  P(k)'
    <2>1. list' = list
      BY <1>4 DEF Handle, Begin, PathAuthorization, VolumeGetHandler, VolumesListHandler,
                  PutFind, Insert, Replace, DeleteFind, Remove, CallFails
    <2>2. CASE k # c
      BY <1>1, <1>4, <2>1, <2>2, HandleFrame
    <2>3. CASE k = c /\ Begin(c)
      <3>1. req'[c].pc = "authorize"
        BY <2>3, NextStatement
      <3>2. seen'[c] = {list} /\ got'[c] = {}
        BY <2>3 DEF Begin, TypeOK
      <3> QED BY <2>1, <2>3, <3>1, <3>2
    <2>4. CASE k = c /\ PathAuthorization(c) /\ req'[c] # Idle
      <3>1. /\ req[c] \in Request /\ req'[c].ws = req[c].ws
            /\ seen'[c] = seen[c] /\ got'[c] = got[c]
        <4>1. ~Begin(c)
          BY <2>4 DEF Begin, PathAuthorization, Idle
        <4> QED BY <1>4, <2>4, <4>1, HandleMoves
      <3>2. req'[c].pc = First(req[c].op)
        BY <2>4, NextStatement
      <3>3. Authorize(list, req[c].ws, UserOf[c], Action(req[c].op))
        BY <2>4, ReplyTyped DEF PathAuthorization
      <3>4. req[c].op \in Ops /\ req[c] # Idle
        BY <3>1, RequestActive DEF Request
      <3>5. list \in seen'[c] /\ got'[c] = {}
        BY <1>1, <2>4, <3>1, <3>4
      <3>6. CASE req[c].op \in {"get", "list"}
        <4>1. req'[c].pc \in {"get", "list"}
          BY <3>2, <3>6 DEF First
        <4>2. Admin(list, c) \/ User(list, c)
          BY <3>3, <3>4, AuthorizeRead
        <4> QED BY <2>1, <2>4, <3>1, <3>5, <4>1, <4>2
      <3>7. CASE req[c].op \notin {"get", "list"}
        <4>1. req'[c].pc = "find"
          BY <3>2, <3>7 DEF First
        <4>2. Admin(list, c)
          BY <3>3, <3>4, <3>7, AuthorizeWrite
        <4> QED BY <2>1, <2>4, <3>1, <3>5, <4>1, <4>2
      <3> QED BY <3>6, <3>7
    <2>5. CASE k = c /\ (PutFind(c) \/ DeleteFind(c)) /\ req'[c] # Idle
      <3>1. /\ req[c] \in Request /\ req'[c].ws = req[c].ws
            /\ seen'[c] = seen[c] /\ got'[c] = got[c]
        <4>1. ~Begin(c)
          BY <2>5 DEF Begin, PutFind, DeleteFind, Idle
        <4> QED BY <1>4, <2>5, <4>1, HandleMoves
      <3>2. req'[c].pc \in {"insert", "replace", "remove"}
        BY <2>5, NextStatement
      <3>3. req[c].pc \in Writing /\ req[c] # Idle
        BY <2>5, <3>1, RequestActive DEF PutFind, DeleteFind
      <3> QED BY <1>1, <2>1, <2>5, <3>1, <3>2, <3>3
    <2>6. CASE k = c /\ req'[c] = Idle
      BY <2>6
    <2> QED BY <1>4, <2>2, <2>3, <2>4, <2>5, <2>6, HandleMoves
  <1> QED BY <1>2, <1>3, <1>4 DEF Next

LEMMA AccessInvInit == Init => AccessInv
  BY DEF Init, AccessInv

\* A step that ends a request or answers it is a step of that request.
LEMMA OwnStep ==
  ASSUME TypeOK, Next, NEW c \in Clients,
         req[c] # Idle, req'[c] = Idle \/ got'[c] # got[c]
  PROVE  Handle(c)
  <1>1. ~ListChanges
    BY DEF ListChanges
  <1>2. PICK k \in Clients : Handle(k)
    BY <1>1 DEF Next
  <1> QED BY <1>2, HandleFrame

\* However the list of workspaces changes under a request, what it changes in
\* the collection its user was allowed to as administrator of the workspace of
\* the path, under a list there was since the request began.
THEOREM OnlyAdminsWrite == Spec => WritesByAdmins
  <1> DEFINE A == \A c \in Clients : req[c] # Idle /\ req'[c] = Idle /\ vols' # vols
                    => \E l \in seen[c] : AccessLevel(l, req[c].ws, UserOf[c]).admin
  <1>1. TypeOK /\ AccessInv /\ [Next]_vars => [A]_vars
    <2> SUFFICES ASSUME TypeOK, AccessInv, Next, NEW c \in Clients,
                        req[c] # Idle, req'[c] = Idle, vols' # vols
                 PROVE  \E l \in seen[c] : AccessLevel(l, req[c].ws, UserOf[c]).admin
      OBVIOUS
    <2>1. Handle(c)
      BY OwnStep
    <2>2. req[c].pc \in Writing
      BY <2>1 DEF Handle, Begin, PathAuthorization, VolumeGetHandler, VolumesListHandler,
           PutFind, Insert, Replace, DeleteFind, Remove, CallFails, store, Writing
    <2> QED BY <2>2 DEF AccessInv
  <1>2. WritesByAdmins <=> [][A]_vars
    BY DEF WritesByAdmins
  <1> HIDE DEF A
  <1> QED BY <1>1, <1>2, AccessInvInit, AccessInvNext, VolumeTypeCorrect, PTL DEF Spec

\* Any access that GetWorkspacePermissions grants is a member's.
LEMMA AccessIsMember ==
  ASSUME NEW l \in Listing, NEW n \in Names, NEW u,
         AccessLevel(l, n, u).admin \/ AccessLevel(l, n, u).user
  PROVE  l[n] # NoWorkspace /\ Member(l[n], u)
  <1> DEFINE w == l[n]
  <1>1. w # NoWorkspace /\ (UserHasAccess(w, u) \/ UserHasAdminAccess(w, u))
    BY DEF AccessLevel
  <1>2. w.roles \in Seq(Seq(Seq(STRING)))
    BY <1>1, SettingsAssumption DEF Listing
  <1>3. PICK i \in DOMAIN w.roles :
          \/ HasOwnership(u, w.roles[i])
          \/ FulfilsAll(w.roles[i], u)
          \/ FulfilsAll([k \in DOMAIN w.roles[i] |-> AdminRole(w.roles[i][k])], u)
    BY <1>1 DEF UserHasAccess, UserHasAdminAccess
  <1> DEFINE list1 == w.roles[i]
             rs == {list1[k] : k \in DOMAIN list1}
             Holds == \/ OwnerRole(u) \in rs
                      \/ rs \subseteq u.roles
                      \/ {AdminRole(r) : r \in rs} \subseteq u.roles
  <1>4. list1 \in Seq(Seq(STRING))
    BY <1>2, <1>3, ElementOfSeq, LenProperties
  <1>5. DOMAIN list1 = 1 .. Len(list1) /\ Len(list1) \in Nat
    BY <1>4, LenProperties
  <1> HIDE DEF list1
  <1>6. ASSUME HasOwnership(u, list1)
        PROVE  rs # {} /\ Holds
    BY <1>6 DEF HasOwnership
  <1>7. ASSUME FulfilsAll(list1, u)
        PROVE  rs # {} /\ Holds
    <2>1. DOMAIN list1 # {}
      <3>1. Len(list1) \in Nat \ {0}
        BY <1>4, <1>7, EmptySeq DEF FulfilsAll
      <3> QED BY <1>5, <3>1
    <2> QED BY <1>7, <2>1 DEF FulfilsAll, UserHasRole
  <1>8. ASSUME FulfilsAll([k \in DOMAIN list1 |-> AdminRole(list1[k])], u)
        PROVE  rs # {} /\ Holds
    <2> DEFINE admins == [k \in DOMAIN list1 |-> AdminRole(list1[k])]
    <2>1. DOMAIN list1 # {}
      <3>1. ASSUME Len(list1) = 0 PROVE admins = <<>>
        BY <1>5, <3>1
      <3>2. admins # <<>>
        BY <1>8 DEF FulfilsAll
      <3> HIDE DEF admins
      <3> QED BY <1>5, <3>1, <3>2
    <2>2. \A k \in DOMAIN list1 : AdminRole(list1[k]) \in u.roles
      BY <1>8 DEF FulfilsAll, UserHasRole
    <2> QED BY <2>1, <2>2
  <1>9. rs # {} /\ Holds
    <2>1. \/ HasOwnership(u, list1) \/ FulfilsAll(list1, u)
          \/ FulfilsAll([k \in DOMAIN list1 |-> AdminRole(list1[k])], u)
      BY <1>3, Zenon DEF list1
    <2> QED BY <1>6, <1>7, <1>8, <2>1
  <1> QED BY <1>1, <1>3, <1>9, Zenon DEF Member, list1

\* However the list changes, an answer shows only volumes of the workspace of
\* the path, and only to a user who was a member of it under a list there was
\* since the request began.
THEOREM OnlyMembersRead == Spec => ReadsByMembers
  <1> DEFINE A == \A c \in Clients : req[c] # Idle /\ got'[c] # {}
                    => /\ \A v \in got'[c] : v.ws = req[c].ws
                       /\ \E l \in seen[c] : /\ l[req[c].ws] # NoWorkspace
                                             /\ Member(l[req[c].ws], UserOf[c])
  <1>1. TypeOK /\ AccessInv /\ [Next]_vars => [A]_vars
    <2> SUFFICES ASSUME TypeOK, AccessInv, Next, NEW c \in Clients,
                        req[c] # Idle, got'[c] # {}
                 PROVE  /\ \A v \in got'[c] : v.ws = req[c].ws
                        /\ \E l \in seen[c] : /\ l[req[c].ws] # NoWorkspace
                                              /\ Member(l[req[c].ws], UserOf[c])
      BY Zenon
    <2>1. got[c] = {}
      BY DEF AccessInv
    <2>2. Handle(c)
      BY <2>1, OwnStep
    <2>3. ASSUME NEW V, Reply(c, V) PROVE got'[c] = V
      BY <2>3 DEF Reply, TypeOK
    <2>4. ~(Insert(c) \/ Replace(c) \/ Remove(c) \/ CallFails(c))
      BY <2>3 DEF Insert, Replace, Remove, CallFails
    <2>5. ~(PathAuthorization(c) \/ PutFind(c) \/ DeleteFind(c))
      BY <2>1, <2>3 DEF PathAuthorization, PutFind, DeleteFind
    <2>6. VolumeGetHandler(c) \/ VolumesListHandler(c)
      BY <2>2, <2>4, <2>5 DEF Handle, Begin
    <2>7. \A v \in got'[c] : v.ws = req[c].ws
      <3>1. CASE VolumeGetHandler(c)
        <4>1. ~Reply(c, {})
          BY <2>3
        <4>2. PICK v \in Found(c) : Reply(c, IF v.ws = req[c].ws THEN {v} ELSE {})
          BY <3>1, <4>1 DEF VolumeGetHandler
        <4>3. got'[c] = IF v.ws = req[c].ws THEN {v} ELSE {}
          BY <2>3, <4>2
        <4> QED BY <4>3
      <3>2. CASE VolumesListHandler(c)
        <4>1. got'[c] = {v \in Listed(c) : v.ws = req[c].ws}
          BY <2>3, <3>2 DEF VolumesListHandler
        <4> QED BY <4>1
      <3> QED BY <2>6, <3>1, <3>2
    <2>8. req[c].pc \in {"get", "list"}
      BY <2>6 DEF VolumeGetHandler, VolumesListHandler
    <2>9. PICK l \in seen[c] : \/ AccessLevel(l, req[c].ws, UserOf[c]).admin
                               \/ AccessLevel(l, req[c].ws, UserOf[c]).user
      BY <2>8 DEF AccessInv
    <2>10. l \in Listing /\ req[c].ws \in Names
      <3>1. req[c] \in Request
        BY DEF TypeOK
      <3> QED BY <3>1 DEF TypeOK, Request
    <2>11. l[req[c].ws] # NoWorkspace /\ Member(l[req[c].ws], UserOf[c])
      BY <2>9, <2>10, AccessIsMember
    <2> QED BY <2>7, <2>11
  <1>2. ReadsByMembers <=> [][A]_vars
    BY Zenon DEF ReadsByMembers
  <1> HIDE DEF A
  <1> QED BY <1>1, <1>2, AccessInvInit, AccessInvNext, VolumeTypeCorrect, PTL DEF Spec

-----------------------------------------------------------------------------
(* One volume per uid. *)

LEMMA UidInvBegin ==
  ASSUME TypeOK, UidInv, NEW c \in Clients, Begin(c)
  PROVE  UidInv'
  <1>1. PICK r \in Request :
          /\ req' = [req EXCEPT ![c] = r]
          /\ r.pc = "authorize" /\ r.content = requests + 1 /\ r.uid \in Uids(r.op)
    BY BeginShape
  <1>2. requests' = requests + 1 /\ requests \in Nat /\ UNCHANGED store
    BY DEF Begin, TypeOK
  <1>3. \A k \in Clients : req'[k] = IF k = c THEN r ELSE req[k]
    BY <1>1 DEF TypeOK
  <1>4. PostedInv'
    BY <1>2 DEF UidInv, PostedInv, With, store
  <1>5. ASSUME NEW k \in Clients PROVE OwnUid(k)'
    <2>1. CASE k = c
      <3>1. r.op = "post" => r.uid = requests + 1 /\ r.uid \notin posted
        BY <1>1, <1>2 DEF Uids, UidInv, PostedInv
      <3>2. r.op = "put" => r.uid \in posted \cup {0}
        BY <1>1 DEF Uids
      <3> QED BY <1>1, <1>2, <1>3, <2>1, <3>1, <3>2 DEF OwnUid, store
    <2>2. CASE k # c
      <3>1. OwnUid(k)
        BY DEF UidInv
      <3> QED BY <1>2, <1>3, <2>2, <3>1 DEF OwnUid, With, store
    <2> QED BY <2>1, <2>2
  <1>6. ASSUME NEW k \in Clients, NEW m \in Clients PROVE OwnNumber(k, m)'
    <2>1. OwnUid(k) /\ OwnUid(m) /\ OwnNumber(k, m)
      BY DEF UidInv
    <2> QED BY <1>1, <1>2, <1>3, <2>1 DEF OwnUid, OwnNumber
  <1>7. OneVolumePerUid'
    BY <1>2 DEF UidInv, OneVolumePerUid, store
  <1> QED BY <1>4, <1>5, <1>6, <1>7 DEF UidInv

\* A step that goes on with a request, or ends it, and writes nothing.
LEMMA UidInvMove ==
  ASSUME TypeOK, UidInv, NEW c \in Clients, Handle(c), ~Begin(c),
         UNCHANGED <<vols, posted, deleted, raced, requests>>
  PROVE  UidInv'
  <1>1. \A k \in Clients \ {c} : req'[k] = req[k]
    BY HandleFrame
  <1>2. PostedInv' /\ OneVolumePerUid'
    BY DEF UidInv, PostedInv, OneVolumePerUid, With
  <1>3. CASE req'[c] = Idle
    <2>1. ASSUME NEW k \in Clients PROVE OwnUid(k)'
      BY <1>1, <1>3 DEF UidInv, OwnUid, With
    <2>2. ASSUME NEW k \in Clients, NEW m \in Clients PROVE OwnNumber(k, m)'
      BY <1>1, <1>3 DEF UidInv, OwnNumber
    <2> QED BY <1>2, <2>1, <2>2 DEF UidInv
  <1>4. CASE req'[c] # Idle
    <2>1. /\ PathAuthorization(c) \/ PutFind(c) \/ DeleteFind(c)
          /\ req[c] \in Request
          /\ req'[c].op = req[c].op
          /\ req'[c].uid = req[c].uid /\ req'[c].content = req[c].content
      BY <1>4, HandleMoves
    <2>2. req[c] # Idle
      BY <2>1 DEF Request, Idle
    <2>3. OwnUid(c)
      BY DEF UidInv
    <2>4. OwnUid(c)'
      <3>1. CASE PathAuthorization(c) \/ DeleteFind(c)
        <4>1. req'[c].pc \in {"find", "get", "list", "remove"}
          BY <1>4, <3>1, NextStatement DEF First
        <4> QED BY <2>1, <2>2, <2>3, <4>1 DEF OwnUid
      <3>2. CASE PutFind(c)
        <4>1. req[c].op \in {"post", "put"}
          BY <3>2 DEF PutFind
        <4>2. req'[c].pc = "insert" => With(req[c].uid) = {}
          BY <3>2, NextStatement
        <4>3. req'[c].pc = "insert" /\ req[c].uid \in posted => req[c].uid \in deleted
          BY <4>2 DEF UidInv, PostedInv
        <4> QED BY <2>1, <2>2, <2>3, <4>1, <4>2, <4>3 DEF OwnUid, With
      <3> QED BY <2>1, <3>1, <3>2
    <2>5. ASSUME NEW k \in Clients PROVE OwnUid(k)'
      BY <1>1, <2>4 DEF UidInv, OwnUid, With
    <2>6. ASSUME NEW k \in Clients, NEW m \in Clients PROVE OwnNumber(k, m)'
      <3>1. OwnNumber(k, m)
        BY DEF UidInv
      <3> QED BY <1>1, <2>1, <2>2, <3>1 DEF OwnNumber
    <2> QED BY <1>2, <2>5, <2>6 DEF UidInv
  <1> QED BY <1>3, <1>4

\* What the request of k is about, seen after a write of another.
StillOwn(k) ==
    req[k] # Idle =>
        /\ req[k].op = "post" => req[k].uid \notin posted'
        /\ req[k].op = "put" => req[k].uid \in posted' \cup {0}
        /\ req[k].pc = "insert" =>
             /\ req[k].uid \in posted' => req[k].uid \in deleted'
             /\ (\E v \in vols' : v.uid = req[k].uid) => req[k].uid \in raced'

\* A step that ends its request and writes: what is left to show.
LEMMA UidInvReply ==
  ASSUME TypeOK, UidInv, NEW c \in Clients, Reply(c, {}), requests' = requests,
         \A k \in Clients \ {c} : StillOwn(k),
         PostedInv', OneVolumePerUid'
  PROVE  UidInv'
  <1>1. req'[c] = Idle /\ \A k \in Clients \ {c} : req'[k] = req[k]
    BY ReplyTyped
  <1>2. ASSUME NEW k \in Clients PROVE OwnUid(k)'
    <2>1. OwnUid(k)
      BY DEF UidInv
    <2> QED BY <1>1, <2>1 DEF OwnUid, StillOwn, With
  <1>3. ASSUME NEW k \in Clients, NEW m \in Clients PROVE OwnNumber(k, m)'
    BY <1>1 DEF UidInv, OwnNumber
  <1> QED BY <1>2, <1>3 DEF UidInv

\* The others' requests when nothing is posted and no uid is new.
LEMMA NoNewUid ==
  ASSUME UidInv, NEW c \in Clients, UNCHANGED <<posted, raced>>,
         deleted \subseteq deleted',
         \A v \in vols' : \E w \in vols : w.uid = v.uid
  PROVE  \A k \in Clients \ {c} : StillOwn(k)
  BY DEF UidInv, OwnUid, StillOwn, With

LEMMA UidInvInsert ==
  ASSUME TypeOK, UidInv, NEW c \in Clients, Insert(c)
  PROVE  UidInv'
  <1>1. PICK n \in Volume : vols' = vols \cup {n} /\ n.uid = req[c].uid
    BY InsertShape
  <1>2. req[c] # Idle /\ req[c].pc = "insert"
    BY DEF Insert, Idle
  <1>3. OwnUid(c)
    BY DEF UidInv
  <1>4. Reply(c, {}) /\ requests' = requests /\ deleted' = deleted
    BY DEF Insert, counters
  <1>5. raced \subseteq raced' /\ (Racing(c) => req[c].uid \in raced')
    BY DEF Insert
  <1>6. ASSUME NEW k \in Clients \ {c}, req[k].pc = "insert",
               \E v \in vols' : v.uid = req[k].uid
        PROVE  req[k].uid \in raced'
    <2>1. CASE req[k].uid = req[c].uid
      BY <1>5, <1>6, <2>1 DEF Racing
    <2>2. CASE req[k].uid # req[c].uid
      <3>1. With(req[k].uid) # {} /\ req[k] # Idle
        BY <1>1, <1>6, <2>2 DEF With, Idle
      <3> QED BY <1>5, <1>6, <3>1 DEF UidInv, OwnUid
    <2> QED BY <2>1, <2>2
  <1>7. CASE req[c].op = "post"
    <2>1. /\ posted' = posted \cup {req[c].uid}
          /\ req[c].uid = req[c].content /\ req[c].uid \in 1 .. requests
          /\ req[c].uid \notin posted
      BY <1>2, <1>3, <1>7 DEF Insert, OwnUid
    <2>2. PostedInv'
      BY <1>1, <1>4, <2>1 DEF UidInv, PostedInv, With
    <2>3. \A v \in vols : v.uid # req[c].uid
      BY <2>1 DEF UidInv, PostedInv
    <2>4. OneVolumePerUid'
      BY <1>1, <1>4, <1>5, <2>1, <2>3 DEF UidInv, OneVolumePerUid
    <2>5. ASSUME NEW k \in Clients \ {c} PROVE StillOwn(k)
      <3>1. OwnUid(k) /\ OwnNumber(c, k)
        BY DEF UidInv
      <3>2. req[k] # Idle /\ req[k].op \in {"post", "put"} => req[k].uid # req[c].uid
        BY <1>2, <2>1, <3>1 DEF OwnUid, OwnNumber
      <3> QED BY <1>4, <1>6, <2>1, <3>1, <3>2 DEF OwnUid, StillOwn
    <2> QED BY <1>4, <2>2, <2>4, <2>5, UidInvReply
  <1>8. CASE req[c].op = "put"
    <2>1. posted' = posted /\ req[c].uid \in posted \cup {0}
      BY <1>2, <1>3, <1>8 DEF Insert, OwnUid
    <2>2. PostedInv'
      BY <1>1, <1>4, <2>1 DEF UidInv, PostedInv, With
    <2>3. ASSUME NEW v \in vols, v.uid = n.uid
          PROVE  n.uid \in raced' /\ (n.uid \in posted => n.uid \in deleted)
      BY <1>1, <1>2, <1>3, <1>5, <2>3 DEF OwnUid, With
    <2>4. OneVolumePerUid'
      BY <1>1, <1>4, <1>5, <2>1, <2>3 DEF UidInv, OneVolumePerUid
    <2>5. ASSUME NEW k \in Clients \ {c} PROVE StillOwn(k)
      BY <1>4, <1>6, <2>1 DEF UidInv, OwnUid, StillOwn
    <2> QED BY <1>4, <2>2, <2>4, <2>5, UidInvReply
  <1> QED BY <1>2, <1>3, <1>7, <1>8 DEF OwnUid

LEMMA UidInvReplace ==
  ASSUME TypeOK, UidInv, NEW c \in Clients, Replace(c)
  PROVE  UidInv'
  <1>1. /\ Reply(c, {}) /\ requests' = requests
        /\ deleted' = deleted /\ posted' = posted /\ raced' = raced
    BY DEF Replace, counters
  <1>2. CASE vols' = vols
    BY <1>1, <1>2, UidInvMove DEF Handle, Replace, Begin, Idle
  <1>3. ASSUME NEW v \in With(req[c].uid), NEW n \in Volume,
               vols' = (vols \ {v}) \cup {n}, n.uid = req[c].uid
        PROVE  UidInv'
    <2>1. v \in vols /\ n.uid = v.uid
      BY <1>3 DEF With
    <2>2. PostedInv'
      <3>1. \A w \in vols' : w.uid \in posted' \cup {0}
        BY <1>1, <1>3, <2>1 DEF UidInv, PostedInv
      <3>2. \A u \in posted' : u \in deleted' \/ With(u)' # {}
        BY <1>1, <1>3, <2>1 DEF UidInv, PostedInv, With
      <3> QED BY <1>1, <3>1, <3>2 DEF UidInv, PostedInv
    <2>3. OneVolumePerUid'
      BY <1>1, <1>3, <2>1 DEF UidInv, OneVolumePerUid
    <2>4. \A w \in vols' : \E x \in vols : x.uid = w.uid
      BY <1>3, <2>1
    <2> QED BY <1>1, <2>2, <2>3, <2>4, NoNewUid, UidInvReply
  <1> QED BY <1>2, <1>3, ReplaceShape

LEMMA UidInvRemove ==
  ASSUME TypeOK, UidInv, NEW c \in Clients, Remove(c)
  PROVE  UidInv'
  <1>1. Reply(c, {}) /\ requests' = requests /\ posted' = posted /\ raced' = raced
    BY DEF Remove, counters
  <1>2. CASE UNCHANGED <<vols, deleted>>
    BY <1>1, <1>2, UidInvMove DEF Handle, Remove, Begin, Idle
  <1>3. ASSUME NEW v \in With(req[c].uid),
               vols' = vols \ {v}, deleted' = deleted \cup {v.uid}
        PROVE  UidInv'
    <2>1. PostedInv'
      BY <1>1, <1>3 DEF UidInv, PostedInv, With
    <2>2. OneVolumePerUid'
      BY <1>1, <1>3 DEF UidInv, OneVolumePerUid
    <2> QED BY <1>1, <1>3, <2>1, <2>2, NoNewUid, UidInvReply
  <1> QED BY <1>2, <1>3 DEF Remove

LEMMA UidInvNext == TypeOK /\ UidInv /\ [Next]_vars => UidInv'
  <1> SUFFICES ASSUME TypeOK, UidInv, [Next]_vars PROVE UidInv'
    OBVIOUS
  <1>1. CASE UNCHANGED vars \/ ListChanges
    <2>1. UNCHANGED <<vols, posted, deleted, raced, req, requests>>
      BY <1>1 DEF vars, ListChanges, store
    <2> QED BY <2>1 DEF UidInv, PostedInv, OwnUid, OwnNumber, OneVolumePerUid, With
  <1>2. ASSUME NEW c \in Clients, Handle(c) PROVE UidInv'
    <2>1. CASE \/ PathAuthorization(c) \/ VolumeGetHandler(c) \/ VolumesListHandler(c)
               \/ PutFind(c) \/ DeleteFind(c) \/ CallFails(c)
      <3>1. UNCHANGED <<vols, posted, deleted, raced, requests>>
        BY <2>1 DEF PathAuthorization, VolumeGetHandler, VolumesListHandler,
                    PutFind, DeleteFind, CallFails, store, counters
      <3>2. ~Begin(c)
        BY <2>1 DEF PathAuthorization, VolumeGetHandler, VolumesListHandler,
                    PutFind, DeleteFind, CallFails, Begin, Idle
      <3> QED BY <1>2, <3>1, <3>2, UidInvMove
    <2> QED BY <1>2, <2>1, UidInvBegin, UidInvInsert, UidInvReplace, UidInvRemove
         DEF Handle
  <1> QED BY <1>1, <1>2 DEF Next

\* Whatever uids clients PUT, and however look-ups, writes and deletions interleave:
\* PutVolume stores a uid twice only after two requests looked it up in vain before
\* either inserted it, and never one that a POST gave out and nobody deleted.
THEOREM UidsUnique == Spec => []OneVolumePerUid
  <1>1. Init => UidInv
    BY DEF Init, UidInv, PostedInv, OwnUid, OwnNumber, OneVolumePerUid
  <1>2. UidInv => OneVolumePerUid
    BY DEF UidInv
  <1> QED BY <1>1, <1>2, UidInvNext, VolumeTypeCorrect, PTL DEF Spec
=============================================================================
