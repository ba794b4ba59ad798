------------------------- MODULE JobLifecycleProofs -------------------------
(***************************************************************************)
(* Theorems about JobLifecycle, for any number of jobs, clients, viewers   *)
(* and faults, with and without broken watches.                            *)
(***************************************************************************)
EXTENDS JobLifecycle, TLAPS

(* The zero values of a watch and of a request have their types. *)
LEMMA ZeroTypes ==
    /\ AnyJob \in Jobs
    /\ Idle \in ReqState
    /\ \A j \in Jobs, p \in {"off", "start", "done", "lost"} :
            NoWatch(j, p) \in WatchState
<1>1. AnyJob \in Jobs
  BY JobAssumption DEF AnyJob
<1>2. <<>> \in Seq(Phase)
  OBVIOUS
<1> QED BY <1>1, <1>2 DEF Idle, ReqState, NoWatch, WatchState

(* Delivering an event of a phase keeps the watches well typed. *)
LEMMA NotifiedType ==
    ASSUME TypeOK, NEW j \in Jobs, NEW p \in Phase
    PROVE  Notified(j, p) \in [Watchers -> WatchState]
<1>1. \A w \in Watchers : [watch[w] EXCEPT !.queue = Append(@, p)] \in WatchState
  <2> TAKE w \in Watchers
  <2>1. watch[w] \in WatchState
    BY DEF TypeOK
  <2>2. Append(watch[w].queue, p) \in Seq(Phase)
    BY <2>1 DEF WatchState
  <2> QED BY <2>1, <2>2 DEF WatchState
<1>2. \A w \in Watchers : watch[w] \in WatchState
  BY DEF TypeOK
<1> QED BY <1>1, <1>2 DEF Notified

(* The first states are well typed. *)
LEMMA TypeInit == Init => TypeOK
<1> SUFFICES ASSUME Init PROVE TypeOK
  OBVIOUS
<1>1. watch \in [Watchers -> WatchState]
  <2>1. \A w \in Watchers : NoWatch(IF w \in Jobs THEN w ELSE AnyJob, "off")
                                \in WatchState
    BY ZeroTypes
  <2> QED BY <2>1 DEF Init
<1>2. <<>> \in Seq(Phase)
  OBVIOUS
<1> QED BY <1>1, <1>2, ZeroTypes DEF Init, TypeOK

(* The variables a process loses when it dies stay well typed. *)
LEMMA ProcessLostType ==
    ASSUME TypeOK, ProcessLost
    PROVE  /\ sub' \in [Jobs -> {"none", "stored", "ready", "created",
                                 "answered", "failed"}]
           /\ req' \in [Clients -> ReqState]
           /\ watch' \in [Watchers -> WatchState]
<1>1. \A w \in Watchers : watch[w] \in WatchState /\ watch[w].job \in Jobs
  BY DEF TypeOK, WatchState
<1>2. \A w \in Watchers : w \notin Viewers => w \in Jobs
  BY DEF Watchers
<1>3. watch' \in [Watchers -> WatchState]
  BY <1>1, <1>2, ZeroTypes DEF ProcessLost
<1>4. req' \in [Clients -> ReqState]
  BY ZeroTypes DEF ProcessLost
<1> QED BY <1>3, <1>4 DEF ProcessLost, TypeOK

(* Every step keeps the types. *)
LEMMA TypeStep ==
    ASSUME TypeOK, [Next]_vars
    PROVE  TypeOK'
<1> USE ZeroTypes
<1>1. ASSUME NEW j \in Jobs, JobStep(j)
      PROVE  TypeOK'
  <2>1. CASE StoreJob(j)
    BY <2>1 DEF StoreJob, submitOnly, TypeOK
  <2>2. CASE Transpile(j)
    BY <2>2 DEF Transpile, submitOnly, TypeOK
  <2>3. CASE CreateWorkflow(j)
    BY <2>3 DEF CreateWorkflow, submitOnly, TypeOK, Phase, Unfinished
  <2>4. CASE StartSaver(j)
    <3>1. watch' \in [Watchers -> WatchState]
      BY <2>4 DEF StartSaver, TypeOK
    <3> QED BY <2>4, <3>1 DEF StartSaver, submitOnly, TypeOK
  <2>5. CASE SubmitFails(j)
    <3>1. faults' \in Nat
      BY <2>5 DEF SubmitFails, TypeOK
    <3>2. "Pending" \in Phase
      BY DEF Phase, Unfinished
    <3>3. argo' \in [Jobs -> Phase \cup {"absent"}]
      BY <2>5, <3>2 DEF SubmitFails, TypeOK
    <3> QED BY <2>5, <3>1, <3>3 DEF SubmitFails, TypeOK
  <2>6. CASE SaveEvents(j)
    <3>1. watch[j] \in WatchState
      BY DEF TypeOK, Watchers
    <3>2. watch[j].got \in Seq(Phase)
      BY <3>1 DEF WatchState
    <3>3. watch' \in [Watchers -> WatchState]
      BY <2>6 DEF SaveEvents, TypeOK
    <3>4. events' \in [Jobs -> Seq(Phase)]
      BY <2>6, <3>2 DEF SaveEvents, TypeOK
    <3> QED BY <2>6, <3>3, <3>4 DEF SaveEvents, watchOnly, TypeOK
  <2>7. CASE SaveFails(j)
    <3>1. watch' \in [Watchers -> WatchState]
      BY <2>7 DEF SaveFails, TypeOK
    <3> QED BY <2>7, <3>1 DEF SaveFails, TypeOK
  <2>8. CASE Advance(j)
    <3>1. PICK p \in Phase : /\ argo' = [argo EXCEPT ![j] = p]
                             /\ watch' = Notified(j, p)
      BY <2>8 DEF Advance, Phase, Unfinished, Completed
    <3>2. watch' \in [Watchers -> WatchState]
      BY <3>1, NotifiedType
    <3> QED BY <2>8, <3>1, <3>2 DEF Advance, TypeOK
  <2> QED BY <1>1, <2>1, <2>2, <2>3, <2>4, <2>5, <2>6, <2>7, <2>8 DEF JobStep
<1>2. ASSUME NEW w \in Watchers, WatchStep(w)
      PROVE  TypeOK'
  <2>1. /\ watch[w] \in WatchState /\ watch[w].job \in Jobs
        /\ watch[w].queue \in Seq(Phase) /\ watch[w].got \in Seq(Phase)
    BY DEF TypeOK, WatchState
  <2>2. CASE OpenWatch(w)
    <3> DEFINE q == IF argo[watch[w].job] = "absent" THEN <<>>
                    ELSE <<argo[watch[w].job]>>
    <3>1. q \in Seq(Phase)
      BY <2>1 DEF TypeOK
    <3>2. watch' = [watch EXCEPT ![w].pc = "open", ![w].queue = q]
      BY <2>2 DEF OpenWatch
    <3> HIDE DEF q
    <3>3. [watch[w] EXCEPT !.pc = "open", !.queue = q] \in WatchState
      BY <2>1, <3>1, Zenon DEF WatchState
    <3>4. watch' = [watch EXCEPT ![w] = [watch[w] EXCEPT !.pc = "open", !.queue = q]]
      BY <3>2 DEF TypeOK
    <3>5. watch' \in [Watchers -> WatchState]
      BY <3>3, <3>4 DEF TypeOK
    <3> QED BY <2>2, <3>5 DEF OpenWatch, watchOnly, TypeOK
  <2>3. CASE Receive(w)
    <3> DEFINE e == Head(watch[w].queue)
               q == IF e \in Completed THEN <<>> ELSE Tail(watch[w].queue)
               g == IF w \in Jobs THEN Append(watch[w].got, e) ELSE watch[w].got
               p == IF e \notin Completed THEN "open"
                    ELSE IF w \in Jobs THEN "save" ELSE "done"
    <3>1. e \in Phase /\ Tail(watch[w].queue) \in Seq(Phase)
      BY <2>1, <2>3 DEF Receive
    <3>2. q \in Seq(Phase) /\ g \in Seq(Phase) /\ p \in {"open", "save", "done"}
      BY <2>1, <3>1
    <3>3. watch' = [watch EXCEPT ![w] =
                        [watch[w] EXCEPT !.queue = q, !.got = g, !.pc = p]]
      BY <2>3 DEF Receive, TypeOK
    <3> HIDE DEF q, g, p
    <3>4. [watch[w] EXCEPT !.queue = q, !.got = g, !.pc = p] \in WatchState
      BY <2>1, <3>2 DEF WatchState
    <3>5. watch' \in [Watchers -> WatchState]
      BY <3>3, <3>4 DEF TypeOK
    <3> QED BY <2>3, <3>5 DEF Receive, watchOnly, TypeOK
  <2>4. CASE WatchBreaks(w)
    <3>1. CASE w \in Jobs
      BY <2>4, <3>1, ProcessLostType DEF WatchBreaks, ProcessLost, TypeOK
    <3>2. CASE w \notin Jobs
      <4>1. NoWatch(watch[w].job, "off") \in WatchState
        BY <2>1
      <4>2. watch' = [watch EXCEPT ![w] = NoWatch(watch[w].job, "off")]
        BY <2>4, <3>2 DEF WatchBreaks
      <4>3. watch' \in [Watchers -> WatchState]
        BY <4>1, <4>2 DEF TypeOK
      <4> QED BY <2>4, <3>2, <4>3 DEF WatchBreaks, TypeOK
    <3> QED BY <3>1, <3>2
  <2> QED BY <1>2, <2>2, <2>3, <2>4 DEF WatchStep
<1>3. ASSUME NEW v \in Viewers, ViewerStep(v)
      PROVE  TypeOK'
  <2>1. v \in Watchers /\ watch[v].job \in Jobs
    BY DEF Watchers, TypeOK, WatchState
  <2>2. watch' \in [Watchers -> WatchState]
    BY <1>3, <2>1 DEF ViewerStep, OpenStream, CloseStream, TypeOK
  <2> QED BY <1>3, <2>2 DEF ViewerStep, OpenStream, CloseStream, watchOnly, TypeOK
<1>4. ASSUME NEW c \in Clients, ClientStep(c)
      PROVE  TypeOK'
  <2>1. req[c] \in ReqState /\ req[c].job \in Jobs
    BY DEF TypeOK, ReqState
  <2>2. req' \in [Clients -> ReqState]
    <3>1. ASSUME NEW p \in {"delDryRun", "delGetJob", "delDocument", "delArgo",
                            "termPatch"},
                 Goto(c, p)
          PROVE  req' \in [Clients -> ReqState]
      <4>1. [req[c] EXCEPT !.pc = p] \in ReqState
        BY <2>1 DEF ReqState
      <4>2. req' = [req EXCEPT ![c] = [req[c] EXCEPT !.pc = p]]
        BY <3>1 DEF Goto
      <4> QED BY <4>1, <4>2 DEF TypeOK
    <3>2. Finish(c) => req' \in [Clients -> ReqState]
      BY DEF Finish, TypeOK
    <3>3. \A j \in Jobs, p \in {"delGet", "termGet"} :
            [req EXCEPT ![c] = [pc |-> p, job |-> j]] \in [Clients -> ReqState]
      BY DEF TypeOK, ReqState
    <3>4. DeleteRequest(c) \/ TerminateRequest(c) => req' \in [Clients -> ReqState]
      BY <3>3 DEF DeleteRequest, TerminateRequest
    <3>5. DeleteGet(c) \/ DeleteDryRun(c) \/ DeleteGetJob(c) \/ TerminateGet(c)
            => req' \in [Clients -> ReqState]
      BY <3>1, <3>2, Zenon DEF DeleteGet, DeleteDryRun, DeleteGetJob, TerminateGet
    <3>6. DeleteDocument(c) \/ DeleteWorkflow(c) \/ TerminatePatch(c) \/ RequestFails(c)
            => req' \in [Clients -> ReqState]
      BY <3>1, <3>2, Zenon DEF DeleteDocument, DeleteWorkflow, TerminatePatch,
                               RequestFails
    <3> QED BY <1>4, <3>4, <3>5, <3>6 DEF ClientStep
  <2>3. CASE UNCHANGED <<db, events, argo, shutdown, watch, gone, sub, faults, panicked>>
    BY <2>2, <2>3 DEF TypeOK
  <2>4. CASE DeleteDocument(c)
    <3>1. <<>> \in Seq(Phase)
      OBVIOUS
    <3> QED BY <2>1, <2>2, <2>4, <3>1 DEF DeleteDocument, requestOnly, TypeOK
  <2>5. CASE DeleteWorkflow(c)
    <3>1. watch' \in [Watchers -> WatchState]
      BY <2>1, <2>5, NotifiedType DEF DeleteWorkflow, TypeOK
    <3>2. argo' \in [Jobs -> Phase \cup {"absent"}] /\ gone' \in SUBSET Jobs
      BY <2>1, <2>5 DEF DeleteWorkflow, TypeOK
    <3> QED BY <2>2, <2>5, <3>1, <3>2 DEF DeleteWorkflow, requestOnly, TypeOK
  <2>6. CASE TerminatePatch(c)
    <3>1. watch' \in [Watchers -> WatchState]
      BY <2>1, <2>6, NotifiedType DEF TerminatePatch, TypeOK
    <3>2. shutdown' \in [Jobs -> BOOLEAN]
      BY <2>1, <2>6 DEF TerminatePatch, TypeOK
    <3> QED BY <2>2, <2>6, <3>1, <3>2 DEF TerminatePatch, requestOnly, TypeOK
  <2> QED BY <1>4, <2>3, <2>4, <2>5, <2>6
          DEF ClientStep, DeleteRequest, DeleteGet, DeleteDryRun, DeleteGetJob,
              TerminateRequest, TerminateGet, RequestFails, requestOnly
<1>5. CASE Crash
  BY <1>5, ProcessLostType DEF Crash, ProcessLost, TypeOK
<1>6. CASE UNCHANGED vars
  BY <1>6 DEF vars, TypeOK
<1> QED BY <1>1, <1>2, <1>3, <1>4, <1>5, <1>6 DEF Next

(***************************************************************************)
(* JobLifecycle is well typed (TypeOK) whatever the jobs, the clients, the *)
(* viewers and the faults.                                                 *)
(***************************************************************************)
THEOREM JobTypeCorrect == Spec => []TypeOK
<1>1. TypeOK /\ [Next]_vars => TypeOK'
  BY TypeStep
<1> QED BY <1>1, TypeInit, PTL DEF Spec

-----------------------------------------------------------------------------
(***************************************************************************)
(* The inductive invariant.  A job is submitted once its POST has tried to *)
(* create the workflow: from then on nothing stores its document or        *)
(* creates its workflow again.                                             *)
(***************************************************************************)
Submitted(j) == sub[j] \in {"created", "answered", "failed"}

\* The document is stored from StoreJob on and stays while the workflow runs.
DocumentInv(j) ==
    /\ sub[j] = "none" => ~db[j]
    /\ ~Submitted(j) => argo[j] = "absent"
    /\ sub[j] \in {"stored", "ready"} => db[j]
    /\ argo[j] \in Unfinished => db[j]

\* What a DELETE has found out stays true until its last step.
DeleteInv(c) ==
    LET j == req[c].job
    IN  /\ req[c].pc \in {"delDryRun", "delGetJob", "delDocument", "delArgo"}
              => Submitted(j) /\ argo[j] \notin Unfinished
        /\ req[c].pc = "delArgo" => ~db[j]

GoneInv(j) == Submitted(j) /\ ~db[j] /\ argo[j] = "absent"

DeleteSafe ==
    /\ \A j \in Jobs : DocumentInv(j)
    /\ \A c \in Clients : DeleteInv(c)
    /\ \A j \in gone : GoneInv(j)

\* A history whose last phase, and no earlier one, is a completed one.
Whole(h) ==
    h # <<>> => /\ h[Len(h)] \in Completed
                /\ \A i \in 1 .. Len(h) - 1 : h[i] \in Unfinished

\* An event saver has no completed phase while it listens, and one, at the
\* end, when it saves.
SaverInv(j) ==
    /\ watch[j].pc \in {"start", "open"} =>
           \A i \in 1 .. Len(watch[j].got) : watch[j].got[i] \in Unfinished
    /\ watch[j].pc = "save" => Whole(watch[j].got)

HistorySafe == \A j \in Jobs : SaverInv(j) /\ Whole(events[j])

\* Where a request that is new, or has ended, or terminates a job is.
Fresh == {"idle", "delGet", "termGet", "termPatch"}

(* Steps that touch neither documents nor workflows, and that only begin or *)
(* end requests, keep DeleteSafe, also if POST handlers fail meanwhile.     *)
LEMMA DeleteSafeFrame ==
    ASSUME TypeOK, DeleteSafe,
           UNCHANGED <<db, argo, gone>>,
           \A j \in Jobs : sub'[j] = sub[j] \/ (sub[j] # "none" /\ sub'[j] = "failed"),
           \A c \in Clients : req'[c] = req[c] \/ req'[c].pc \in Fresh
    PROVE  DeleteSafe'
<1>1. \A j \in Jobs : Submitted(j) => Submitted(j)'
  BY DEF Submitted, TypeOK
<1>2. \A j \in Jobs : DocumentInv(j)'
  BY DEF DeleteSafe, DocumentInv, Submitted, TypeOK
<1>3. ASSUME NEW c \in Clients
      PROVE  DeleteInv(c)'
  <2>1. CASE req'[c] = req[c]
    <3>1. req[c].job \in Jobs
      BY DEF TypeOK, ReqState
    <3> QED BY <1>1, <2>1, <3>1 DEF DeleteSafe, DeleteInv
  <2>2. CASE req'[c].pc \in Fresh
    BY <2>2 DEF Fresh, DeleteInv
  <2> QED BY <2>1, <2>2
<1>4. \A j \in gone' : GoneInv(j)'
  BY <1>1 DEF DeleteSafe, GoneInv, TypeOK
<1> QED BY <1>2, <1>3, <1>4 DEF DeleteSafe

(* The same for steps of which no POST takes notice. *)
LEMMA DeleteSafeKept ==
    ASSUME TypeOK, DeleteSafe,
           UNCHANGED <<db, argo, gone, sub>>,
           \A c \in Clients : req'[c] = req[c] \/ req'[c].pc \in Fresh
    PROVE  DeleteSafe'
<1>1. \A j \in Jobs : sub'[j] = sub[j] \/ (sub[j] # "none" /\ sub'[j] = "failed")
  OBVIOUS
<1>2. UNCHANGED <<db, argo, gone>>
  OBVIOUS
<1> QED BY <1>1, <1>2, DeleteSafeFrame

(* Steps of the POST of one job, and of its workflow, keep DeleteSafe if    *)
(* they keep DocumentInv of that job and what was found out about it.       *)
LEMMA DeleteSafeJob ==
    ASSUME TypeOK, DeleteSafe, NEW j \in Jobs,
           UNCHANGED <<gone, req>>,
           \A i \in Jobs \ {j} : db'[i] = db[i] /\ argo'[i] = argo[i] /\ sub'[i] = sub[i],
           DocumentInv(j)',
           Submitted(j) => /\ Submitted(j)'
                           /\ argo[j] \notin Unfinished => argo'[j] = argo[j]
                           /\ db'[j] = db[j]
    PROVE  DeleteSafe'
<1>1. ASSUME NEW i \in Jobs
      PROVE  DocumentInv(i)'
  <2>1. CASE i = j
    BY <2>1
  <2>2. CASE i # j
    BY <2>2 DEF DeleteSafe, DocumentInv, Submitted
  <2> QED BY <2>1, <2>2
<1>2. \A i \in Jobs : Submitted(i) =>
        /\ Submitted(i)' /\ db'[i] = db[i]
        /\ argo[i] \notin Unfinished => argo'[i] = argo[i]
  BY DEF Submitted
<1>3. ASSUME NEW c \in Clients
      PROVE  DeleteInv(c)'
  <2>1. req[c].job \in Jobs
    BY DEF TypeOK, ReqState
  <2>2. DeleteInv(c)
    BY DEF DeleteSafe
  <2>3. req' = req
    OBVIOUS
  <2> QED BY <1>2, <2>1, <2>2, <2>3 DEF DeleteInv
<1>4. ASSUME NEW i \in gone'
      PROVE  GoneInv(i)'
  <2>1. i \in Jobs /\ GoneInv(i)
    BY DEF DeleteSafe, TypeOK
  <2>2. "absent" \notin Unfinished
    BY DEF Unfinished
  <2> QED BY <1>2, <2>1, <2>2 DEF GoneInv
<1> QED BY <1>1, <1>3, <1>4 DEF DeleteSafe

(* Nothing is stored at first. *)
LEMMA DeleteSafeInit == Init => DeleteSafe
  BY DEF Init, DeleteSafe, DocumentInv, DeleteInv, GoneInv, Submitted, Idle, Unfinished

(* Every step keeps DeleteSafe. *)
LEMMA DeleteSafeStep ==
    ASSUME TypeOK, DeleteSafe, [Next]_vars
    PROVE  DeleteSafe'
<1>1. ASSUME NEW j \in Jobs, JobStep(j)
      PROVE  DeleteSafe'
  <2>1. DocumentInv(j)
    BY DEF DeleteSafe
  <2> DEFINE others == \A i \in Jobs \ {j} :
                          db'[i] = db[i] /\ argo'[i] = argo[i] /\ sub'[i] = sub[i]
  <2>2. CASE StoreJob(j) \/ Transpile(j) \/ CreateWorkflow(j) \/ StartSaver(j)
    <3>1. UNCHANGED <<gone, req>> /\ others
      BY <2>2 DEF StoreJob, Transpile, CreateWorkflow, StartSaver, submitOnly, TypeOK
    <3>2. CASE StoreJob(j)
      <4>1. sub[j] = "none" /\ sub'[j] = "stored" /\ db'[j] /\ argo'[j] = argo[j]
        BY <3>2 DEF StoreJob, TypeOK
      <4>2. DocumentInv(j)'
        BY <2>1, <4>1 DEF DocumentInv, Submitted, Unfinished
      <4> QED BY <3>1, <4>1, <4>2, DeleteSafeJob DEF Submitted
    <3>3. CASE Transpile(j)
      <4>1. sub[j] = "stored" /\ sub'[j] = "ready" /\ db' = db /\ argo' = argo
        BY <3>3 DEF Transpile, TypeOK
      <4>2. DocumentInv(j)'
        BY <2>1, <4>1 DEF DocumentInv, Submitted, Unfinished
      <4> QED BY <3>1, <4>1, <4>2, DeleteSafeJob DEF Submitted
    <3>4. CASE CreateWorkflow(j)
      <4>1. sub[j] = "ready" /\ sub'[j] = "created" /\ db' = db
        BY <3>4 DEF CreateWorkflow, TypeOK
      <4>2. DocumentInv(j)'
        BY <2>1, <4>1 DEF DocumentInv, Submitted
      <4> QED BY <3>1, <4>1, <4>2, DeleteSafeJob DEF Submitted
    <3>5. CASE StartSaver(j)
      <4>1. sub[j] = "created" /\ sub'[j] = "answered" /\ db' = db /\ argo' = argo
        BY <3>5 DEF StartSaver, TypeOK
      <4>2. DocumentInv(j)'
        BY <2>1, <4>1 DEF DocumentInv, Submitted
      <4> QED BY <3>1, <4>1, <4>2, DeleteSafeJob DEF Submitted
    <3> QED BY <2>2, <3>2, <3>3, <3>4, <3>5
  <2>3. CASE SubmitFails(j)
    <3>1. UNCHANGED <<gone, req>> /\ others
      BY <2>3 DEF SubmitFails, TypeOK
    <3>2. sub[j] \in {"stored", "ready"} /\ sub'[j] = "failed" /\ db' = db
      BY <2>3 DEF SubmitFails, TypeOK
    <3>3. DocumentInv(j)'
      BY <2>1, <3>2 DEF DocumentInv, Submitted
    <3> QED BY <3>1, <3>2, <3>3, DeleteSafeJob DEF Submitted
  <2>4. CASE SaveEvents(j) \/ SaveFails(j)
    <3>1. UNCHANGED <<db, argo, gone, sub, req>>
      BY <2>4 DEF SaveEvents, SaveFails, watchOnly
    <3> QED BY <3>1, DeleteSafeKept
  <2>5. CASE Advance(j)
    <3>1. UNCHANGED <<gone, req, sub, db>>
      BY <2>5 DEF Advance
    <3>2. others
      BY <2>5, <3>1 DEF Advance, TypeOK
    <3>3. argo[j] \in Unfinished
      BY <2>5 DEF Advance
    <3>4. Submitted(j)
      BY <2>1, <3>3 DEF DocumentInv, Unfinished
    <3>5. DocumentInv(j)'
      BY <2>1, <3>1, <3>3, <3>4 DEF DocumentInv, Submitted
    <3> QED BY <3>1, <3>2, <3>3, <3>5, DeleteSafeJob DEF Submitted
  <2> QED BY <1>1, <2>2, <2>3, <2>4, <2>5 DEF JobStep
<1>2. ASSUME ProcessLost
      PROVE  DeleteSafe'
  <2>1. \A j \in Jobs : sub'[j] = sub[j] \/ (sub[j] # "none" /\ sub'[j] = "failed")
    <3>1. sub' = [j \in Jobs |-> IF sub[j] \in {"stored", "ready", "created"}
                                 THEN "failed" ELSE sub[j]]
      BY <1>2 DEF ProcessLost
    <3> QED BY <3>1
  <2>2. \A c \in Clients : req'[c].pc \in Fresh
    BY <1>2 DEF ProcessLost, Idle, Fresh
  <2>3. UNCHANGED <<db, argo, gone>>
    BY <1>2 DEF ProcessLost
  <2> QED BY <2>1, <2>2, <2>3, DeleteSafeFrame
<1>3. ASSUME NEW w \in Watchers, WatchStep(w)
      PROVE  DeleteSafe'
  <2>1. CASE OpenWatch(w) \/ Receive(w) \/ (WatchBreaks(w) /\ w \notin Jobs)
    <3>1. UNCHANGED <<db, argo, gone, sub, req>>
      BY <2>1 DEF OpenWatch, Receive, WatchBreaks, watchOnly
    <3> QED BY <3>1, DeleteSafeKept
  <2>2. CASE WatchBreaks(w) /\ w \in Jobs
    BY <1>2, <2>2 DEF WatchBreaks
  <2> QED BY <1>3, <2>1, <2>2 DEF WatchStep
<1>4. ASSUME NEW v \in Viewers, ViewerStep(v)
      PROVE  DeleteSafe'
  <2>1. UNCHANGED <<db, argo, gone, sub, req>>
    BY <1>4 DEF ViewerStep, OpenStream, CloseStream, watchOnly
  <2> QED BY <2>1, DeleteSafeKept
<1>5. ASSUME NEW c \in Clients, ClientStep(c)
      PROVE  DeleteSafe'
  <2>j. PICK j \in Jobs : j = req[c].job
    BY DEF TypeOK, ReqState
  <2> USE <2>j
  <2>1. DocumentInv(j) /\ DeleteInv(c)
    BY DEF DeleteSafe
  <2>2. ASSUME Finish(c), UNCHANGED <<db, argo, gone, sub>>
        PROVE  DeleteSafe'
    <3>1. \A a \in Clients : req'[a] = req[a] \/ req'[a].pc \in Fresh
      BY <2>2 DEF Finish, Idle, Fresh, TypeOK
    <3> QED BY <2>2, <3>1, DeleteSafeKept
  <2>3. CASE DeleteRequest(c) \/ TerminateRequest(c)
    <3>1. UNCHANGED <<db, argo, gone, sub>>
      BY <2>3 DEF DeleteRequest, TerminateRequest, requestOnly
    <3>2. \A a \in Clients : req'[a] = req[a] \/ req'[a].pc \in Fresh
      BY <2>3 DEF DeleteRequest, TerminateRequest, Fresh, TypeOK
    <3> QED BY <3>1, <3>2, DeleteSafeKept
  <2>4. ASSUME NEW p \in {"delDryRun", "delGetJob", "delDocument", "termPatch"},
               Goto(c, p), UNCHANGED <<db, argo, gone, sub>>,
               p # "termPatch" => Submitted(j) /\ argo[j] \notin Unfinished
        PROVE  DeleteSafe'
    <3>1. /\ req'[c].pc = p /\ req'[c].job = j
          /\ \A a \in Clients \ {c} : req'[a] = req[a]
      BY <2>4 DEF Goto, TypeOK, ReqState
    <3>2. \A a \in Clients \ {c} : DeleteInv(a)'
      BY <2>4, <3>1 DEF DeleteSafe, DeleteInv, Submitted
    <3>3. DeleteInv(c)'
      BY <2>4, <3>1 DEF DeleteInv, Submitted
    <3>4. \A i \in Jobs : DocumentInv(i)'
      BY <2>4 DEF DeleteSafe, DocumentInv, Submitted
    <3>5. \A i \in gone' : GoneInv(i)'
      BY <2>4 DEF DeleteSafe, GoneInv, Submitted
    <3> QED BY <3>2, <3>3, <3>4, <3>5 DEF DeleteSafe
  <2>5. CASE DeleteGet(c)
    <3>1. UNCHANGED <<db, argo, gone, sub>>
      BY <2>5 DEF DeleteGet, requestOnly
    <3>2. CASE argo[j] \in Completed
      <4>1. Submitted(j) /\ argo[j] \notin Unfinished
        BY <2>1, <3>2 DEF DocumentInv, Completed, Unfinished
      <4>2. Goto(c, "delDryRun")
        BY <2>5, <3>2 DEF DeleteGet
      <4> QED BY <2>4, <3>1, <4>1, <4>2
    <3>3. CASE argo[j] \notin Completed
      BY <2>2, <2>5, <3>1, <3>3 DEF DeleteGet
    <3> QED BY <3>2, <3>3
  <2>6. CASE DeleteDryRun(c) \/ DeleteGetJob(c) \/ TerminateGet(c)
    <3>1. UNCHANGED <<db, argo, gone, sub>>
      BY <2>6 DEF DeleteDryRun, DeleteGetJob, TerminateGet, requestOnly
    <3>2. req[c].pc \in {"delDryRun", "delGetJob"}
             => Submitted(j) /\ argo[j] \notin Unfinished
      BY <2>1 DEF DeleteInv
    <3>3. \/ Finish(c)
          \/ req[c].pc = "delDryRun" /\ Goto(c, "delGetJob")
          \/ req[c].pc = "delGetJob" /\ Goto(c, "delDocument")
          \/ Goto(c, "termPatch")
      BY <2>6, Zenon DEF DeleteDryRun, DeleteGetJob, TerminateGet
    <3> QED BY <2>2, <2>4, <3>1, <3>2, <3>3
  <2>7. CASE DeleteDocument(c)
    <3>1. Submitted(j) /\ argo[j] \notin Unfinished
      BY <2>1, <2>7 DEF DeleteDocument, DeleteInv
    <3>2. /\ db' = [db EXCEPT ![j] = FALSE]
          /\ UNCHANGED <<argo, gone, sub>>
      BY <2>7 DEF DeleteDocument, requestOnly
    <3>3. Goto(c, "delArgo") \/ Finish(c)
      BY <2>7, Zenon DEF DeleteDocument
    <3>4. /\ \A a \in Clients \ {c} : req'[a] = req[a]
          /\ (req'[c].pc = "delArgo" /\ req'[c].job = j) \/ req'[c].pc = "idle"
      BY <3>3 DEF Goto, Finish, Idle, TypeOK, ReqState
    <3>5. \A i \in Jobs : DocumentInv(i)'
      <4>1. DocumentInv(j)'
        BY <2>1, <3>1, <3>2 DEF DocumentInv, Submitted, TypeOK
      <4>2. \A i \in Jobs \ {j} : DocumentInv(i)'
        BY <3>2 DEF DeleteSafe, DocumentInv, Submitted, TypeOK
      <4> QED BY <4>1, <4>2
    <3>6. \A i \in Jobs : ~db[i] => ~db'[i]
      BY <3>2 DEF TypeOK
    <3>7. ASSUME NEW a \in Clients \ {c}
          PROVE  DeleteInv(a)'
      <4>1. req'[a] = req[a] /\ req[a].job \in Jobs /\ DeleteInv(a)
        BY <3>4 DEF DeleteSafe, TypeOK, ReqState
      <4> QED BY <3>2, <3>6, <4>1 DEF DeleteInv, Submitted
    <3>8. DeleteInv(c)'
      <4>1. ~db'[j]
        BY <2>1, <3>2 DEF TypeOK
      <4> QED BY <3>1, <3>2, <3>4, <4>1 DEF DeleteInv, Submitted
    <3>9. \A i \in gone' : GoneInv(i)'
      BY <3>2, <3>6 DEF DeleteSafe, GoneInv, Submitted, TypeOK
    <3> QED BY <3>5, <3>7, <3>8, <3>9 DEF DeleteSafe
  <2>8. CASE DeleteWorkflow(c)
    <3>1. Submitted(j) /\ ~db[j] /\ argo[j] \notin Unfinished
      BY <2>1, <2>8 DEF DeleteWorkflow, DeleteInv
    <3>2. UNCHANGED <<db, sub>> /\ Finish(c)
      BY <2>8 DEF DeleteWorkflow, requestOnly
    <3>3. CASE argo[j] = "absent"
      <4>1. UNCHANGED <<argo, gone>>
        BY <2>8, <3>3 DEF DeleteWorkflow
      <4> QED BY <2>2, <3>2, <4>1
    <3>4. CASE argo[j] # "absent"
      <4>1. /\ argo' = [argo EXCEPT ![j] = "absent"]
            /\ gone' = gone \cup {j}
        BY <2>8, <3>4 DEF DeleteWorkflow
      <4>2. \A i \in Jobs : argo'[i] = argo[i] \/ argo'[i] = "absent"
        BY <4>1 DEF TypeOK
      <4>3. "absent" \notin Unfinished
        BY DEF Unfinished
      <4>4. \A i \in Jobs : DocumentInv(i)'
        BY <3>2, <4>2, <4>3 DEF DeleteSafe, DocumentInv, Submitted
      <4>5. \A a \in Clients : req'[a] = req[a] \/ req'[a].pc \in Fresh
        BY <3>2 DEF Finish, Idle, Fresh, TypeOK
      <4>6. ASSUME NEW a \in Clients
            PROVE  DeleteInv(a)'
        <5>1. DeleteInv(a) /\ req[a].job \in Jobs
          BY DEF DeleteSafe, TypeOK, ReqState
        <5>2. CASE req'[a] = req[a]
          BY <3>2, <4>2, <4>3, <5>1, <5>2 DEF DeleteInv, Submitted
        <5>3. CASE req'[a].pc \in Fresh
          BY <5>3 DEF DeleteInv, Fresh
        <5> QED BY <4>5, <5>2, <5>3
      <4>7. \A i \in gone' : GoneInv(i)'
        <5>1. GoneInv(j)'
          BY <2>1, <3>1, <3>2, <4>1 DEF GoneInv, Submitted, TypeOK
        <5>2. \A i \in gone : GoneInv(i)'
          BY <3>2, <4>2 DEF DeleteSafe, GoneInv, Submitted, TypeOK
        <5> QED BY <4>1, <5>1, <5>2
      <4> QED BY <4>4, <4>6, <4>7 DEF DeleteSafe
    <3> QED BY <3>3, <3>4
  <2>9. CASE TerminatePatch(c) \/ RequestFails(c)
    BY <2>2, <2>9 DEF TerminatePatch, RequestFails, requestOnly
  <2> QED BY <1>5, <2>3, <2>5, <2>6, <2>7, <2>8, <2>9 DEF ClientStep
<1>6. CASE Crash
  BY <1>2, <1>6 DEF Crash
<1>7. CASE UNCHANGED vars
  BY <1>7, DeleteSafeKept DEF vars
<1> QED BY <1>1, <1>3, <1>4, <1>5, <1>6, <1>7 DEF Next

LEMMA DeleteSafeIsInvariant == Spec => []DeleteSafe
<1>1. TypeOK /\ DeleteSafe /\ [Next]_vars => DeleteSafe'
  BY DeleteSafeStep
<1> QED BY <1>1, DeleteSafeInit, JobTypeCorrect, PTL DEF Spec

(***************************************************************************)
(* A workflow that has not finished has its document, whatever requests,   *)
(* failures, crashes and broken watches interleave: the submit handler     *)
(* stores it first, and a DELETE refuses a job that is in progress.        *)
(***************************************************************************)
THEOREM RunningJobsRecorded == Spec => []RunningJobRecorded
<1>1. DeleteSafe => RunningJobRecorded
  BY DEF DeleteSafe, DocumentInv, RunningJobRecorded
<1> QED BY <1>1, DeleteSafeIsInvariant, PTL

(***************************************************************************)
(* A job whose DELETE was answered 200 stays deleted, in the database and  *)
(* in Argo, whatever other requests and event savers were under way.       *)
(***************************************************************************)
THEOREM DeletedStaysDeleted == Spec => []DeletedForGood
<1>1. DeleteSafe => DeletedForGood
  BY DEF DeleteSafe, GoneInv, DeletedForGood
<1> QED BY <1>1, DeleteSafeIsInvariant, PTL

-----------------------------------------------------------------------------
(* What an event saver keeps *)

(* Appending the next phase to unfinished ones: still listening if it is    *)
(* unfinished, whole if it is a completed one.                              *)
LEMMA HistoryAppend ==
    ASSUME NEW h \in Seq(Phase), NEW e \in Phase,
           \A i \in 1 .. Len(h) : h[i] \in Unfinished
    PROVE  /\ e \in Completed => Whole(Append(h, e))
           /\ e \notin Completed =>
                \A i \in 1 .. Len(Append(h, e)) : Append(h, e)[i] \in Unfinished
<1>1. Len(h) \in Nat
  OBVIOUS
<1>2. /\ Len(Append(h, e)) = Len(h) + 1
      /\ \A i \in 1 .. Len(h) : Append(h, e)[i] = h[i]
      /\ Append(h, e)[Len(h) + 1] = e
  OBVIOUS
<1>3. e \notin Completed => e \in Unfinished
  BY DEF Phase
<1>4. \A i \in 1 .. Len(Append(h, e)) - 1 : Append(h, e)[i] \in Unfinished
  BY <1>1, <1>2
<1>5. \A i \in 1 .. Len(h) + 1 : i \in 1 .. Len(h) \/ i = Len(h) + 1
  BY <1>1
<1> QED BY <1>1, <1>2, <1>3, <1>4, <1>5 DEF Whole

(* A watch that is not saving anything is no danger. *)
LEMMA EmptySaver ==
    ASSUME NEW j \in Jobs, NEW i \in Jobs,
           NEW p \in {"start", "done", "lost"}, watch'[i] = NoWatch(j, p)
    PROVE  SaverInv(i)'
  BY DEF SaverInv, NoWatch

(* Event savers that are left alone, or only get another event queued, keep *)
(* their invariant.                                                         *)
LEMMA SaverKept ==
    ASSUME NEW j \in Jobs, SaverInv(j),
           watch'[j].pc = watch[j].pc, watch'[j].got = watch[j].got
    PROVE  SaverInv(j)'
  BY DEF SaverInv

(* Delivering an event changes neither the place nor the history of a watch. *)
LEMMA NotifiedKeeps ==
    ASSUME TypeOK, NEW j \in Jobs, NEW p, NEW w \in Watchers
    PROVE  /\ Notified(j, p)[w].pc = watch[w].pc
           /\ Notified(j, p)[w].got = watch[w].got
<1>1. watch[w] \in WatchState
  BY DEF TypeOK
<1> DEFINE q == Append(watch[w].queue, p)
<1>2. Notified(j, p)[w] = IF watch[w].pc = "open" /\ watch[w].job = j
                          THEN [watch[w] EXCEPT !.queue = q] ELSE watch[w]
  BY DEF Notified
<1> HIDE DEF q
<1>3. /\ [watch[w] EXCEPT !.queue = q].pc = watch[w].pc
      /\ [watch[w] EXCEPT !.queue = q].got = watch[w].got
  BY <1>1 DEF WatchState
<1> QED BY <1>2, <1>3

(* There is no history at first. *)
LEMMA HistorySafeInit == Init => HistorySafe
<1> SUFFICES ASSUME Init, NEW j \in Jobs PROVE SaverInv(j) /\ Whole(events[j])
  BY DEF HistorySafe
<1>1. events[j] = <<>>
  BY DEF Init
<1>2. watch[j] = NoWatch(j, "off")
  BY DEF Init, Watchers
<1> QED BY <1>1, <1>2 DEF SaverInv, Whole, NoWatch

(* Every step keeps HistorySafe. *)
LEMMA HistorySafeStep ==
    ASSUME TypeOK, HistorySafe, [Next]_vars
    PROVE  HistorySafe'
<1>1. \A j \in Jobs : j \in Watchers /\ SaverInv(j) /\ Whole(events[j])
  BY DEF HistorySafe, Watchers
<1>2. ASSUME UNCHANGED events,
             \A j \in Jobs : \/ /\ watch'[j].pc = watch[j].pc
                                /\ watch'[j].got = watch[j].got
                             \/ \E p \in {"start", "done", "lost"} :
                                    watch'[j] = NoWatch(j, p)
      PROVE  HistorySafe'
  BY <1>1, <1>2, SaverKept, EmptySaver DEF HistorySafe
<1>3. ASSUME UNCHANGED <<events, watch>>
      PROVE  HistorySafe'
  BY <1>2, <1>3
<1>4. ASSUME UNCHANGED events, NEW j \in Jobs, NEW p, watch' = Notified(j, p)
      PROVE  HistorySafe'
  BY <1>1, <1>2, <1>4, NotifiedKeeps
<1>5. ASSUME ProcessLost
      PROVE  HistorySafe'
  <2>1. \A j \in Jobs : j \notin Viewers
    BY JobAssumption
  <2>2. \A j \in Jobs : watch'[j] = IF watch[j].pc \in {"start", "open", "save"}
                                    THEN NoWatch(j, "lost") ELSE watch[j]
    BY <1>1, <1>5, <2>1 DEF ProcessLost
  <2>3. UNCHANGED events
    BY <1>5 DEF ProcessLost
  <2> QED BY <1>2, <2>2, <2>3
<1>6. ASSUME NEW j \in Jobs, JobStep(j)
      PROVE  HistorySafe'
  <2>1. CASE StoreJob(j) \/ Transpile(j) \/ CreateWorkflow(j) \/ SubmitFails(j)
    BY <1>3, <2>1 DEF StoreJob, Transpile, CreateWorkflow, SubmitFails, submitOnly
  <2>2. CASE StartSaver(j) \/ SaveFails(j)
    <3>1. PICK p \in {"start", "lost"} : watch' = [watch EXCEPT ![j] = NoWatch(j, p)]
      BY <2>2 DEF StartSaver, SaveFails
    <3>2. \A i \in Jobs : watch'[i] = IF i = j THEN NoWatch(j, p) ELSE watch[i]
      BY <1>1, <3>1 DEF TypeOK
    <3>3. UNCHANGED events
      BY <2>2 DEF StartSaver, SaveFails, submitOnly
    <3> QED BY <1>2, <3>2, <3>3
  <2>3. CASE SaveEvents(j)
    <3>1. \A i \in Jobs : watch'[i] = IF i = j THEN NoWatch(j, "done") ELSE watch[i]
      BY <1>1, <2>3 DEF SaveEvents, TypeOK
    <3>2. \A i \in Jobs : SaverInv(i)'
      BY <1>1, <3>1, SaverKept, EmptySaver
    <3>3. Whole(watch[j].got)
      BY <1>1, <2>3 DEF SaveEvents, SaverInv
    <3>4. \A i \in Jobs : events'[i] = events[i] \/ events'[i] = watch[j].got
      BY <2>3 DEF SaveEvents, TypeOK
    <3>5. \A i \in Jobs : Whole(events'[i])
      BY <1>1, <3>3, <3>4
    <3> QED BY <3>2, <3>5 DEF HistorySafe, Whole
  <2>4. CASE Advance(j)
    BY <1>4, <2>4 DEF Advance
  <2> QED BY <1>6, <2>1, <2>2, <2>3, <2>4 DEF JobStep
<1>7. ASSUME NEW w \in Watchers, WatchStep(w)
      PROVE  HistorySafe'
  <2>1. watch[w] \in WatchState /\ watch \in [Watchers -> WatchState]
    BY DEF TypeOK
  <2>2. CASE OpenWatch(w)
    <3>1. PICK q : watch' = [watch EXCEPT ![w].pc = "open", ![w].queue = q]
      BY <2>2 DEF OpenWatch
    <3>2. watch'[w].pc = "open" /\ watch'[w].got = watch[w].got
      BY <2>1, <3>1 DEF WatchState
    <3>3. \A j \in Jobs : j # w => watch'[j] = watch[j]
      BY <1>1, <2>1, <3>1
    <3>4. UNCHANGED events /\ watch[w].pc = "start"
      BY <2>2 DEF OpenWatch
    <3>5. \A j \in Jobs : SaverInv(j)'
      <4>1. ASSUME NEW j \in Jobs, j = w
            PROVE  SaverInv(j)'
        BY <1>1, <3>2, <3>4, <4>1 DEF SaverInv
      <4> QED BY <1>1, <3>3, <4>1, SaverKept
    <3> QED BY <1>1, <3>4, <3>5 DEF HistorySafe
  <2>3. CASE Receive(w)
    <3> DEFINE e == Head(watch[w].queue)
               g == IF w \in Jobs THEN Append(watch[w].got, e) ELSE watch[w].got
               p == IF e \notin Completed THEN "open"
                    ELSE IF w \in Jobs THEN "save" ELSE "done"
    <3>1. PICK q : watch' = [watch EXCEPT ![w].queue = q, ![w].got = g, ![w].pc = p]
      BY <2>3 DEF Receive
    <3>2. e \in Phase /\ watch[w].got \in Seq(Phase)
      BY <2>1, <2>3 DEF Receive, WatchState
    <3>3. watch'[w].pc = p /\ watch'[w].got = g
      <4> HIDE DEF p, g
      <4> QED BY <2>1, <3>1 DEF WatchState
    <3>4. \A j \in Jobs : j # w => watch'[j] = watch[j]
      <4> HIDE DEF p, g
      <4> QED BY <1>1, <2>1, <3>1
    <3>5. UNCHANGED events /\ watch[w].pc = "open"
      BY <2>3 DEF Receive
    <3>6. ASSUME NEW j \in Jobs, j = w
          PROVE  SaverInv(j)'
      <4>1. \A i \in 1 .. Len(watch[w].got) : watch[w].got[i] \in Unfinished
        BY <1>1, <3>5, <3>6 DEF SaverInv
      <4>2. g = Append(watch[w].got, e)
        BY <3>6
      <4>3. CASE e \in Completed
        <5>1. Whole(g) /\ p = "save"
          BY <3>2, <3>6, <4>1, <4>2, <4>3, HistoryAppend
        <5> HIDE DEF p, g
        <5> QED BY <3>3, <3>6, <5>1 DEF SaverInv, Whole
      <4>4. CASE e \notin Completed
        <5>1. (\A i \in 1 .. Len(g) : g[i] \in Unfinished) /\ p = "open"
          BY <3>2, <4>1, <4>2, <4>4, HistoryAppend
        <5> HIDE DEF p, g
        <5> QED BY <3>3, <3>6, <5>1 DEF SaverInv
      <4> QED BY <4>3, <4>4
    <3>7. \A j \in Jobs : SaverInv(j)'
      BY <1>1, <3>4, <3>6, SaverKept
    <3> QED BY <1>1, <3>5, <3>7 DEF HistorySafe
  <2>4. CASE WatchBreaks(w)
    <3>1. CASE w \in Jobs
      BY <1>5, <2>4, <3>1 DEF WatchBreaks
    <3>2. CASE w \notin Jobs
      <4>1. watch' = [watch EXCEPT ![w] = NoWatch(watch[w].job, "off")]
        BY <2>4, <3>2 DEF WatchBreaks
      <4>2. \A j \in Jobs : watch'[j] = watch[j]
        BY <1>1, <2>1, <3>2, <4>1
      <4>3. UNCHANGED events
        BY <2>4, <3>2 DEF WatchBreaks
      <4> QED BY <1>2, <4>2, <4>3
    <3> QED BY <3>1, <3>2
  <2> QED BY <1>7, <2>2, <2>3, <2>4 DEF WatchStep
<1>8. ASSUME NEW v \in Viewers, ViewerStep(v)
      PROVE  HistorySafe'
  <2>1. v \in Watchers /\ v \notin Jobs
    BY JobAssumption DEF Watchers
  <2>2. PICK x : watch' = [watch EXCEPT ![v] = x]
    BY <1>8 DEF ViewerStep, OpenStream, CloseStream
  <2>3. \A j \in Jobs : watch'[j] = watch[j]
    BY <1>1, <2>1, <2>2 DEF TypeOK
  <2>4. UNCHANGED events
    BY <1>8 DEF ViewerStep, OpenStream, CloseStream
  <2> QED BY <1>2, <2>3, <2>4
<1>9. ASSUME NEW c \in Clients, ClientStep(c)
      PROVE  HistorySafe'
  <2>j. PICK j \in Jobs : j = req[c].job
    BY DEF TypeOK, ReqState
  <2>1. CASE UNCHANGED <<events, watch>>
    BY <1>3, <2>1
  <2>2. CASE DeleteDocument(c)
    <3>1. UNCHANGED watch
      BY <2>2 DEF DeleteDocument
    <3>2. \A i \in Jobs : events'[i] = events[i] \/ events'[i] = <<>>
      BY <2>2 DEF DeleteDocument, TypeOK
    <3>3. \A i \in Jobs : SaverInv(i)'
      BY <1>1, <3>1, SaverKept
    <3>4. \A i \in Jobs : Whole(events'[i])
      BY <1>1, <3>2 DEF Whole
    <3> QED BY <3>3, <3>4 DEF HistorySafe, Whole
  <2>3. CASE DeleteWorkflow(c) \/ TerminatePatch(c)
    <3>1. UNCHANGED watch \/ watch' = Notified(j, argo[j])
      BY <2>j, <2>3, Zenon DEF DeleteWorkflow, TerminatePatch
    <3>2. UNCHANGED events
      BY <2>3 DEF DeleteWorkflow, TerminatePatch
    <3> QED BY <1>3, <1>4, <3>1, <3>2
  <2> QED BY <1>9, <2>1, <2>2, <2>3
          DEF ClientStep, DeleteRequest, DeleteGet, DeleteDryRun, DeleteGetJob,
              TerminateRequest, TerminateGet, RequestFails
<1>10. CASE Crash
  BY <1>5, <1>10 DEF Crash
<1>11. CASE UNCHANGED vars
  BY <1>3, <1>11 DEF vars
<1> QED BY <1>6, <1>7, <1>8, <1>9, <1>10, <1>11 DEF Next

(***************************************************************************)
(* The history stored for a job ends with its only completed phase         *)
(* (SavedHistoryWhole), whatever terminate patches, deletions, faults and  *)
(* crashes its EventSaver lives through.                                   *)
(***************************************************************************)
THEOREM HistoryIsWhole == Spec => []SavedHistoryWhole
<1>1. TypeOK /\ HistorySafe /\ [Next]_vars => HistorySafe'
  BY HistorySafeStep
<1>2. HistorySafe => SavedHistoryWhole
  BY DEF HistorySafe, SavedHistoryWhole, Whole
<1> QED BY <1>1, <1>2, HistorySafeInit, JobTypeCorrect, PTL DEF Spec

-----------------------------------------------------------------------------
(***************************************************************************)
(* What an open watch waits for.  Watches end only at a completed phase    *)
(* (EventSaver, StartEventLoop), so for a workflow that has completed one  *)
(* has to be in the queue: Kubernetes begins a watch with the object as it *)
(* is, and every later change of it is an event.                           *)
(***************************************************************************)
HasCompleted(q) == \E i \in DOMAIN q : q[i] \in Completed

\* An open watch on a completed workflow has its completed phase still to come.
CompletionOnItsWay ==
    \A w \in Watchers :
        watch[w].pc = "open" /\ argo[watch[w].job] \in Completed => HasCompleted(watch[w].queue)

(* Queues at either end. *)
LEMMA QueueFacts ==
    ASSUME NEW q \in Seq(Phase)
    PROVE  /\ \A p \in Phase : HasCompleted(q) \/ p \in Completed => HasCompleted(Append(q, p))
           /\ q # <<>> /\ HasCompleted(q) /\ Head(q) \notin Completed => HasCompleted(Tail(q))
           /\ \A p \in Completed : HasCompleted(<<p>>)
<1>1. ASSUME NEW p \in Phase, HasCompleted(q) \/ p \in Completed
      PROVE  HasCompleted(Append(q, p))
  <2>1. CASE HasCompleted(q)
    <3>1. PICK i \in 1 .. Len(q) : q[i] \in Completed
      BY <2>1 DEF HasCompleted
    <3>2. i \in 1 .. Len(Append(q, p)) /\ Append(q, p)[i] = q[i]
      OBVIOUS
    <3> QED BY <3>1, <3>2 DEF HasCompleted
  <2>2. CASE p \in Completed
    <3>1. Len(q) + 1 \in DOMAIN Append(q, p) /\ Append(q, p)[Len(q) + 1] = p
      OBVIOUS
    <3> QED BY <2>2, <3>1 DEF HasCompleted
  <2> QED BY <1>1, <2>1, <2>2
<1>2. ASSUME q # <<>>, HasCompleted(q), Head(q) \notin Completed
      PROVE  HasCompleted(Tail(q))
  <2>1. PICK i \in 1 .. Len(q) : q[i] \in Completed
    BY <1>2 DEF HasCompleted
  <2>2. i # 1 /\ Len(q) \in Nat
    BY <1>2, <2>1
  <2>3. i - 1 \in 1 .. Len(Tail(q)) /\ Tail(q)[i - 1] = q[i]
    BY <1>2, <2>2
  <2>4. i - 1 \in DOMAIN Tail(q)
    BY <1>2, <2>3
  <2> QED BY <2>1, <2>3, <2>4 DEF HasCompleted
<1>3. \A p \in Completed : HasCompleted(<<p>>)
  BY DEF HasCompleted
<1> QED BY <1>1, <1>2, <1>3

(* Every step keeps CompletionOnItsWay. *)
LEMMA CompletionStep ==
    ASSUME TypeOK, CompletionOnItsWay, [Next]_vars
    PROVE  CompletionOnItsWay'
<1>1. \A w \in Watchers : /\ watch[w] \in WatchState /\ watch[w].job \in Jobs
                          /\ watch[w].queue \in Seq(Phase)
  BY DEF TypeOK, WatchState
<1>2. ASSUME \A i \in Jobs : argo'[i] \in Completed => argo[i] \in Completed,
             \A w \in Watchers : watch'[w] = watch[w] \/ watch'[w].pc # "open"
      PROVE  CompletionOnItsWay'
  BY <1>1, <1>2 DEF CompletionOnItsWay, HasCompleted
<1>3. ASSUME NEW j \in Jobs, NEW p \in Phase, watch' = Notified(j, p),
             \A i \in Jobs : argo'[i] \in Completed =>
                 argo[i] \in Completed \/ (i = j /\ p \in Completed)
      PROVE  CompletionOnItsWay'
  <2> SUFFICES ASSUME NEW w \in Watchers, watch'[w].pc = "open",
                      argo'[watch'[w].job] \in Completed
               PROVE  HasCompleted(watch'[w].queue)
    BY DEF CompletionOnItsWay, HasCompleted
  <2>1. watch'[w] = IF watch[w].pc = "open" /\ watch[w].job = j
                    THEN [watch[w] EXCEPT !.queue = Append(watch[w].queue, p)] ELSE watch[w]
    BY <1>3 DEF Notified
  <2>2. watch'[w].job = watch[w].job /\ watch'[w].pc = watch[w].pc
    BY <1>1, <2>1 DEF WatchState
  <2>3. CASE watch[w].job = j
    <3>1. watch'[w].queue = Append(watch[w].queue, p)
      BY <1>1, <2>1, <2>2, <2>3 DEF WatchState
    <3>2. HasCompleted(watch[w].queue) \/ p \in Completed
      BY <1>3, <2>2, <2>3 DEF CompletionOnItsWay
    <3> QED BY <1>1, <3>1, <3>2, QueueFacts
  <2>4. CASE watch[w].job # j
    <3>1. watch'[w] = watch[w] /\ argo[watch[w].job] \in Completed
      BY <1>1, <1>3, <2>1, <2>2, <2>4
    <3> QED BY <3>1 DEF CompletionOnItsWay
  <2> QED BY <2>3, <2>4
<1>4. ASSUME ProcessLost
      PROVE  CompletionOnItsWay'
  <2>1. \A w \in Watchers : watch'[w] = watch[w] \/ watch'[w].pc # "open"
    BY <1>4 DEF ProcessLost, NoWatch
  <2>2. argo' = argo
    BY <1>4 DEF ProcessLost
  <2> QED BY <1>2, <2>1, <2>2
<1>5. ASSUME NEW j \in Jobs, JobStep(j)
      PROVE  CompletionOnItsWay'
  <2>1. CASE StoreJob(j) \/ Transpile(j) \/ CreateWorkflow(j) \/ SubmitFails(j)
    <3>1. watch' = watch
      BY <2>1 DEF StoreJob, Transpile, CreateWorkflow, SubmitFails
    <3>2. argo' = argo \/ argo' = [argo EXCEPT ![j] = "Pending"]
      BY <2>1 DEF StoreJob, Transpile, CreateWorkflow, SubmitFails
    <3>3. \A i \in Jobs : argo'[i] \in Completed => argo[i] \in Completed
      BY <3>2 DEF TypeOK, Completed
    <3> QED BY <1>2, <3>1, <3>3
  <2>2. CASE StartSaver(j) \/ SaveEvents(j) \/ SaveFails(j)
    <3>1. argo' = argo
      BY <2>2 DEF StartSaver, SaveEvents, SaveFails, watchOnly
    <3>2. \E p \in {"start", "done", "lost"} : watch' = [watch EXCEPT ![j] = NoWatch(j, p)]
      BY <2>2 DEF StartSaver, SaveEvents, SaveFails
    <3>3. \A w \in Watchers : watch'[w] = watch[w] \/ watch'[w].pc # "open"
      BY <3>2 DEF TypeOK, NoWatch
    <3> QED BY <1>2, <3>1, <3>3
  <2>3. CASE Advance(j)
    <3>1. PICK p \in Phase : argo' = [argo EXCEPT ![j] = p] /\ watch' = Notified(j, p)
      BY <2>3 DEF Advance, Phase, Unfinished, Completed
    <3>2. \A i \in Jobs : argo'[i] \in Completed =>
             argo[i] \in Completed \/ (i = j /\ p \in Completed)
      BY <3>1 DEF TypeOK
    <3> QED BY <1>3, <3>1, <3>2
  <2> QED BY <1>5, <2>1, <2>2, <2>3 DEF JobStep
<1>6. ASSUME NEW w \in Watchers, WatchStep(w)
      PROVE  CompletionOnItsWay'
  <2>1. CASE OpenWatch(w)
    <3> DEFINE q == IF argo[watch[w].job] = "absent" THEN <<>> ELSE <<argo[watch[w].job]>>
    <3>1. watch' = [watch EXCEPT ![w].pc = "open", ![w].queue = q] /\ argo' = argo
      BY <2>1 DEF OpenWatch, watchOnly
    <3>2. argo[watch[w].job] \in Completed => HasCompleted(q)
      BY QueueFacts DEF Completed, HasCompleted
    <3> HIDE DEF q
    <3>3. watch'[w].job = watch[w].job /\ watch'[w].queue = q
      BY <1>1, <3>1 DEF TypeOK, WatchState
    <3>4. \A v \in Watchers \ {w} : watch'[v] = watch[v]
      BY <3>1 DEF TypeOK
    <3> SUFFICES ASSUME NEW v \in Watchers, watch'[v].pc = "open",
                        argo'[watch'[v].job] \in Completed
                 PROVE  HasCompleted(watch'[v].queue)
      BY DEF CompletionOnItsWay, HasCompleted
    <3>5. CASE v = w
      BY <3>1, <3>2, <3>3, <3>5
    <3>6. CASE v # w
      BY <3>1, <3>4, <3>6 DEF CompletionOnItsWay
    <3> QED BY <3>5, <3>6
  <2>2. CASE Receive(w)
    <3> DEFINE e == Head(watch[w].queue)
               q == IF e \in Completed THEN <<>> ELSE Tail(watch[w].queue)
               g == IF w \in Jobs THEN Append(watch[w].got, e) ELSE watch[w].got
               p == IF e \notin Completed THEN "open"
                    ELSE IF w \in Jobs THEN "save" ELSE "done"
    <3>1. /\ watch' = [watch EXCEPT ![w].queue = q, ![w].got = g, ![w].pc = p]
          /\ argo' = argo /\ watch[w].pc = "open" /\ watch[w].queue # <<>>
      BY <2>2 DEF Receive, watchOnly
    <3>2. p = "open" /\ argo[watch[w].job] \in Completed => HasCompleted(q)
      <4> SUFFICES ASSUME p = "open", argo[watch[w].job] \in Completed
                   PROVE  HasCompleted(q)
        OBVIOUS
      <4>1. e \notin Completed /\ q = Tail(watch[w].queue)
        OBVIOUS
      <4>2. HasCompleted(watch[w].queue)
        BY <3>1 DEF CompletionOnItsWay
      <4> QED BY <1>1, <3>1, <4>1, <4>2, QueueFacts
    <3> HIDE DEF q, g, p
    <3>3. watch'[w].job = watch[w].job /\ watch'[w].queue = q /\ watch'[w].pc = p
      BY <1>1, <3>1 DEF TypeOK, WatchState
    <3>4. \A v \in Watchers \ {w} : watch'[v] = watch[v]
      BY <3>1 DEF TypeOK
    <3> SUFFICES ASSUME NEW v \in Watchers, watch'[v].pc = "open",
                        argo'[watch'[v].job] \in Completed
                 PROVE  HasCompleted(watch'[v].queue)
      BY DEF CompletionOnItsWay, HasCompleted
    <3>5. CASE v = w
      BY <3>1, <3>2, <3>3, <3>5
    <3>6. CASE v # w
      BY <3>1, <3>4, <3>6 DEF CompletionOnItsWay
    <3> QED BY <3>5, <3>6
  <2>3. CASE WatchBreaks(w)
    <3>1. CASE w \in Jobs
      BY <1>4, <2>3, <3>1 DEF WatchBreaks
    <3>2. CASE w \notin Jobs
      <4>1. watch' = [watch EXCEPT ![w] = NoWatch(watch[w].job, "off")] /\ argo' = argo
        BY <2>3, <3>2 DEF WatchBreaks
      <4>2. \A v \in Watchers : watch'[v] = watch[v] \/ watch'[v].pc # "open"
        BY <4>1 DEF TypeOK, NoWatch
      <4> QED BY <1>2, <4>1, <4>2
    <3> QED BY <3>1, <3>2
  <2> QED BY <1>6, <2>1, <2>2, <2>3 DEF WatchStep
<1>7. ASSUME NEW v \in Viewers, ViewerStep(v)
      PROVE  CompletionOnItsWay'
  <2>1. PICK x : watch' = [watch EXCEPT ![v] = x] /\ x.pc # "open"
    <3>1. CASE OpenStream(v)
      <4>1. PICK j \in Jobs : watch' = [watch EXCEPT ![v] = NoWatch(j, "start")]
        BY <3>1 DEF OpenStream
      <4>2. NoWatch(j, "start").pc # "open"
        BY DEF NoWatch
      <4> QED BY <4>1, <4>2, Zenon
    <3>2. CASE CloseStream(v)
      <4>1. watch' = [watch EXCEPT ![v] = NoWatch(watch[v].job, "off")]
        BY <3>2 DEF CloseStream
      <4>2. NoWatch(watch[v].job, "off").pc # "open"
        BY DEF NoWatch
      <4> QED BY <4>1, <4>2, Zenon
    <3> QED BY <1>7, <3>1, <3>2 DEF ViewerStep
  <2>2. argo' = argo
    BY <1>7 DEF ViewerStep, OpenStream, CloseStream, watchOnly
  <2>3. \A w \in Watchers : watch'[w] = watch[w] \/ watch'[w].pc # "open"
    BY <2>1 DEF TypeOK
  <2> QED BY <1>2, <2>2, <2>3
<1>8. ASSUME NEW c \in Clients, ClientStep(c)
      PROVE  CompletionOnItsWay'
  <2>1. PICK j \in Jobs : j = req[c].job
    BY DEF TypeOK, ReqState
  <2>2. \A i \in Jobs : argo'[i] \in Completed => argo[i] \in Completed
    BY <1>8, <2>1 DEF ClientStep, DeleteRequest, DeleteGet, DeleteDryRun, DeleteGetJob,
        DeleteDocument, DeleteWorkflow, TerminateRequest, TerminateGet, TerminatePatch,
        RequestFails, Completed, TypeOK
  <2>3. watch' = watch \/ (argo[j] # "absent" /\ watch' = Notified(j, argo[j]))
    BY <1>8, <2>1, Zenon DEF ClientStep, DeleteRequest, DeleteGet, DeleteDryRun, DeleteGetJob,
        DeleteDocument, DeleteWorkflow, TerminateRequest, TerminateGet, TerminatePatch,
        RequestFails
  <2>4. argo[j] # "absent" => argo[j] \in Phase
    BY DEF TypeOK
  <2> QED BY <1>2, <1>3, <2>2, <2>3, <2>4
<1>9. CASE Crash
  BY <1>4, <1>9 DEF Crash
<1>10. CASE UNCHANGED vars
  BY <1>2, <1>10 DEF vars
<1> QED BY <1>5, <1>6, <1>7, <1>8, <1>9, <1>10 DEF Next

(***************************************************************************)
(* An open watch on a completed workflow, of an EventSaver or of an event  *)
(* stream, still has a completed phase to receive, whenever it was opened  *)
(* and however terminate patches and DELETE interleave: it never waits for *)
(* an event that does not come.  This is the safety part of StreamEnds and *)
(* EventsGetSaved.                                                         *)
(***************************************************************************)
THEOREM NobodyWaitsInVain == Spec => []CompletionOnItsWay
<1>1. Init => CompletionOnItsWay
  BY DEF Init, CompletionOnItsWay, NoWatch
<1> QED BY <1>1, CompletionStep, JobTypeCorrect, PTL DEF Spec
=============================================================================
