---------------------------- MODULE JobLifecycle ----------------------------
(***************************************************************************)
(* A job of rest/jobs.go lives in two places: a document in the Jobs       *)
(* collection and an Argo workflow named after its uid.  POST /jobs/       *)
(* stores the document, then creates the workflow, then starts a goroutine *)
(* (EventSaver) that watches the workflow and stores its events when it    *)
(* has completed.  DELETE /jobs/{id} removes both, POST .../terminate      *)
(* shuts the workflow down, GET .../events/ streams its events.            *)
(*                                                                         *)
(* The Kubernetes API and the Argo controller are external: a workflow     *)
(* goes from Pending over Running to Succeeded or Failed, a watch starts   *)
(* with the current object and then delivers every change in order.        *)
(***************************************************************************)
EXTENDS Naturals, Sequences

CONSTANTS
    Jobs,         \* uids
    Clients,      \* clients that delete or terminate jobs
    Viewers,      \* clients that follow the event stream of a job
    MaxFaults,    \* bound on crashes and on calls whose outcome is lost
    WatchErrors   \* may a watch fail to open, or be closed by the API server?

ASSUME JobAssumption ==
    /\ Jobs # {}
    /\ Jobs \cap Viewers = {}
    /\ MaxFaults \in Nat
    /\ WatchErrors \in BOOLEAN

VARIABLES
    db,        \* db[j]: is the job document stored?
    events,    \* events[j]: field "events" of the document
    argo,      \* argo[j]: phase of the Argo workflow, or "absent"
    shutdown,  \* shutdown[j]: has the workflow been told to terminate?
    sub,       \* sub[j]: where the POST that submits j is
    watch,     \* watch[w]: EventSaver of job w, or event stream of viewer w
    req,       \* req[c]: the DELETE or terminate request of c
    gone,      \* jobs for which a DELETE was answered 200
    faults,    \* faults so far
    panicked   \* has a goroutine panicked (and taken the server with it)?

vars == <<db, events, argo, shutdown, sub, watch, req, gone, faults, panicked>>

Unfinished == {"Pending", "Running"}      \* Status.FinishedAt is zero
Completed  == {"Succeeded", "Failed"}     \* Phase.Completed()
Phase      == Unfinished \cup Completed

Watchers == Jobs \cup Viewers

WatchState == [pc : {"off", "start", "open", "save", "done", "lost"},
               job : Jobs, queue : Seq(Phase), got : Seq(Phase)]

ReqState == [pc : {"idle", "delGet", "delDryRun", "delGetJob", "delDocument",
                   "delArgo", "termGet", "termPatch"},
             job : Jobs]

AnyJob == CHOOSE j \in Jobs : TRUE

\* The watch of w on job j, before it is opened.
NoWatch(j, p) == [pc |-> p, job |-> j, queue |-> <<>>, got |-> <<>>]

Idle == [pc |-> "idle", job |-> AnyJob]

Init ==
    /\ db = [j \in Jobs |-> FALSE]
    /\ events = [j \in Jobs |-> <<>>]
    /\ argo = [j \in Jobs |-> "absent"]
    /\ shutdown = [j \in Jobs |-> FALSE]
    /\ sub = [j \in Jobs |-> "none"]
    /\ watch = [w \in Watchers |-> NoWatch(IF w \in Jobs THEN w ELSE AnyJob, "off")]
    /\ req = [c \in Clients |-> Idle]
    /\ gone = {}
    /\ faults = 0
    /\ panicked = FALSE

-----------------------------------------------------------------------------
(* JobsSubmitHandler *)

submitOnly == <<events, shutdown, req, gone, faults, panicked>>

\* InitializeJob takes a fresh uid, StoreJob inserts the document.
StoreJob(j) ==
    /\ sub[j] = "none"
    /\ sub' = [sub EXCEPT ![j] = "stored"]
    /\ db' = [db EXCEPT ![j] = TRUE]
    /\ UNCHANGED <<argo, watch, submitOnly>>

\* DereferenceComponent and GetArgoWorkflow only read.
Transpile(j) ==
    /\ sub[j] = "stored"
    /\ sub' = [sub EXCEPT ![j] = "ready"]
    /\ UNCHANGED <<db, argo, watch, submitOnly>>

\* wfi.Create
CreateWorkflow(j) ==
    /\ sub[j] = "ready"
    /\ sub' = [sub EXCEPT ![j] = "created"]
    /\ argo' = [argo EXCEPT ![j] = "Pending"]
    /\ UNCHANGED <<db, watch, submitOnly>>

\* go EventSaver(...), then 201.
StartSaver(j) ==
    /\ sub[j] = "created"
    /\ sub' = [sub EXCEPT ![j] = "answered"]
    /\ watch' = [watch EXCEPT ![j] = NoWatch(j, "start")]
    /\ UNCHANGED <<db, argo, submitOnly>>

\* Dereferencing, transpiling or Create fails: the handler returns an error
\* and the document stays.  Create may fail after the API server did it.
SubmitFails(j) ==
    /\ sub[j] \in {"stored", "ready"}
    /\ sub' = [sub EXCEPT ![j] = "failed"]
    /\ \/ UNCHANGED <<argo, faults>>
       \/ /\ sub[j] = "ready"
          /\ faults < MaxFaults
          /\ faults' = faults + 1
          /\ argo' = [argo EXCEPT ![j] = "Pending"]
    /\ UNCHANGED <<db, events, shutdown, watch, req, gone, panicked>>

-----------------------------------------------------------------------------
(* Watches *)

\* The open watches on job j after the event "workflow j is in phase p".
Notified(j, p) ==
    [w \in Watchers |->
        IF watch[w].pc = "open" /\ watch[w].job = j
        THEN [watch[w] EXCEPT !.queue = Append(@, p)] ELSE watch[w]]

\* The process dies: requests, watches and event savers are gone and nothing
\* restarts them.
ProcessLost ==
    /\ sub' = [j \in Jobs |-> IF sub[j] \in {"stored", "ready", "created"}
                              THEN "failed" ELSE sub[j]]
    /\ req' = [c \in Clients |-> Idle]
    /\ watch' = [w \in Watchers |->
          IF w \in Viewers THEN NoWatch(watch[w].job, "off")
          ELSE IF watch[w].pc \in {"start", "open", "save"}
          THEN NoWatch(w, "lost") ELSE watch[w]]
    /\ UNCHANGED <<db, events, argo, shutdown, gone>>

Crash ==
    /\ faults < MaxFaults
    /\ faults' = faults + 1
    /\ ProcessLost
    /\ UNCHANGED panicked

watchOnly == <<db, argo, shutdown, sub, req, gone, faults, panicked>>

\* Mutant: the watch starts after the object as it is.
OpenWatchFromNow(w) ==
    /\ watch[w].pc = "start"
    /\ watch' = [watch EXCEPT ![w].pc = "open"]
    /\ UNCHANGED <<events, watchOnly>>

\* wfi.Watch / CreateWorkflowWatch: the first event is the object as it is.
OpenWatch(w) ==
    /\ watch[w].pc = "start"
    /\ LET j == watch[w].job
       IN  watch' = [watch EXCEPT ![w].pc = "open",
                        ![w].queue = IF argo[j] = "absent" THEN <<>>
                                     ELSE <<argo[j]>>]
    /\ UNCHANGED <<events, watchOnly>>

\* Mutant: the loop ends when the workflow has left Pending.
ReceiveEager(w) ==
    /\ watch[w].pc = "open"
    /\ watch[w].queue # <<>>
    /\ LET e == Head(watch[w].queue)
       IN  watch' = [watch EXCEPT
              ![w].queue = Tail(@),
              ![w].got = IF w \in Jobs THEN Append(@, e) ELSE @,
              ![w].pc = IF e = "Pending" THEN "open"
                        ELSE IF w \in Jobs THEN "save" ELSE "done"]
    /\ UNCHANGED <<events, watchOnly>>

\* Mutant: the loop does not look at the phase.
ReceiveForever(w) ==
    /\ watch[w].pc = "open"
    /\ watch[w].queue # <<>>
    /\ watch' = [watch EXCEPT ![w].queue = Tail(@)]
    /\ UNCHANGED <<events, watchOnly>>

\* One turn of the loop of EventSaver, which keeps the event, or of
\* StartEventLoop, which sends it on: stop after a completed phase.
Receive(w) ==
    /\ watch[w].pc = "open"
    /\ watch[w].queue # <<>>
    /\ LET e == Head(watch[w].queue)
       IN  watch' = [watch EXCEPT
              ![w].queue = IF e \in Completed THEN <<>> ELSE Tail(@),
              ![w].got = IF w \in Jobs THEN Append(@, e) ELSE @,
              ![w].pc = IF e \notin Completed THEN "open"
                        ELSE IF w \in Jobs THEN "save" ELSE "done"]
    /\ UNCHANGED <<events, watchOnly>>

\* Mutant: UpdateOne with the option upsert.
SaveEventsUpsert(j) ==
    /\ watch[j].pc = "save"
    /\ events' = [events EXCEPT ![j] = watch[j].got]
    /\ db' = [db EXCEPT ![j] = TRUE]
    /\ watch' = [watch EXCEPT ![j] = NoWatch(j, "done")]
    /\ UNCHANGED <<argo, shutdown, sub, req, gone, faults, panicked>>

\* AddJobEvents: UpdateOne without upsert, a missing document is no error.
SaveEvents(j) ==
    /\ watch[j].pc = "save"
    /\ events' = IF db[j] THEN [events EXCEPT ![j] = watch[j].got] ELSE events
    /\ watch' = [watch EXCEPT ![j] = NoWatch(j, "done")]
    /\ UNCHANGED watchOnly

\* AddJobEvents fails: the error is logged.
SaveFails(j) ==
    /\ watch[j].pc = "save"
    /\ faults < MaxFaults
    /\ faults' = faults + 1
    /\ watch' = [watch EXCEPT ![j] = NoWatch(j, "lost")]
    /\ UNCHANGED <<db, events, argo, shutdown, sub, req, gone, panicked>>

\* Watch returns an error, or the API server closes the channel.  The stream
\* handler returns; EventSaver calls a method of the nil watch, respectively
\* dereferences the nil workflow, and the panic ends the process.
WatchBreaks(w) ==
    /\ WatchErrors
    /\ watch[w].pc = "start" \/ (watch[w].pc = "open" /\ watch[w].queue = <<>>)
    /\ IF w \in Jobs
       THEN ProcessLost /\ panicked' = TRUE
       ELSE /\ watch' = [watch EXCEPT ![w] = NoWatch(watch[w].job, "off")]
            /\ UNCHANGED <<db, events, argo, shutdown, sub, req, gone, panicked>>
    /\ UNCHANGED faults

\* JobsEventstreamHandler: the workflow must be listed.
OpenStream(v) ==
    /\ watch[v].pc = "off"
    /\ \E j \in Jobs :
        /\ argo[j] # "absent"
        /\ watch' = [watch EXCEPT ![v] = NoWatch(j, "start")]
    /\ UNCHANGED <<events, watchOnly>>

\* The client disconnects: ctx.Done().
CloseStream(v) ==
    /\ watch[v].pc \in {"start", "open"}
    /\ watch' = [watch EXCEPT ![v] = NoWatch(watch[v].job, "off")]
    /\ UNCHANGED <<events, watchOnly>>

-----------------------------------------------------------------------------
(* JobDeleteHandler, DeleteJob *)

requestOnly == <<sub, faults, panicked>>

Goto(c, p) == req' = [req EXCEPT ![c].pc = p]
Finish(c) == req' = [req EXCEPT ![c] = Idle]

\* getWorkspaceByJobUID: 404 unless the workflow is listed.
DeleteRequest(c) ==
    /\ req[c].pc = "idle"
    /\ \E j \in Jobs : /\ argo[j] # "absent"
                       /\ req' = [req EXCEPT ![c] = [pc |-> "delGet", job |-> j]]
    /\ UNCHANGED <<db, events, argo, shutdown, watch, gone, requestOnly>>

\* Mutant: a job in progress is deleted too.
DeleteGetUnlocked(c) ==
    /\ req[c].pc = "delGet"
    /\ IF argo[req[c].job] # "absent" THEN Goto(c, "delDryRun") ELSE Finish(c)
    /\ UNCHANGED <<db, events, argo, shutdown, watch, gone, requestOnly>>

\* Get: 404 if absent, 423 "job in progress" if not finished.
DeleteGet(c) ==
    /\ req[c].pc = "delGet"
    /\ IF argo[req[c].job] \in Completed THEN Goto(c, "delDryRun") ELSE Finish(c)
    /\ UNCHANGED <<db, events, argo, shutdown, watch, gone, requestOnly>>

\* "Dry run delete from argo to check if it works"
DeleteDryRun(c) ==
    /\ req[c].pc = "delDryRun"
    /\ IF argo[req[c].job] # "absent" THEN Goto(c, "delGetJob") ELSE Finish(c)
    /\ UNCHANGED <<db, events, argo, shutdown, watch, gone, requestOnly>>

\* DeleteDocument, first part: GetJob outside the transaction.
DeleteGetJob(c) ==
    /\ req[c].pc = "delGetJob"
    /\ IF db[req[c].job] THEN Goto(c, "delDocument") ELSE Finish(c)
    /\ UNCHANGED <<db, events, argo, shutdown, watch, gone, requestOnly>>

\* DeleteDocument, second part: the transaction; "document not found" if a
\* concurrent DELETE was first.
DeleteDocument(c) ==
    LET j == req[c].job
    IN  /\ req[c].pc = "delDocument"
        /\ IF db[j] THEN Goto(c, "delArgo") ELSE Finish(c)
        /\ db' = [db EXCEPT ![j] = FALSE]
        /\ events' = [events EXCEPT ![j] = <<>>]
        /\ UNCHANGED <<argo, shutdown, watch, gone, requestOnly>>

\* Mutant: the DELETED event carries no workflow.
DeleteWorkflowBare(c) ==
    LET j == req[c].job
    IN  /\ req[c].pc = "delArgo"
        /\ argo[j] # "absent"
        /\ argo' = [argo EXCEPT ![j] = "absent"]
        /\ watch' = Notified(j, "absent")
        /\ gone' = gone \cup {j}
        /\ Finish(c)
        /\ UNCHANGED <<db, events, shutdown, requestOnly>>

\* The last step: remove the workflow.  Watches get a DELETED event carrying
\* the object.  One that Kubernetes still collects (foreground propagation) counts
\* as absent.
DeleteWorkflow(c) ==
    LET j == req[c].job
    IN  /\ req[c].pc = "delArgo"
        /\ IF argo[j] # "absent"
           THEN /\ argo' = [argo EXCEPT ![j] = "absent"]
                /\ watch' = Notified(j, argo[j])
                /\ gone' = gone \cup {j}
           ELSE UNCHANGED <<argo, watch, gone>>
        /\ Finish(c)
        /\ UNCHANGED <<db, events, shutdown, requestOnly>>

\* A call of the request fails, the caller gets an error and may try again.
RequestFails(c) ==
    /\ req[c].pc # "idle"
    /\ Finish(c)
    /\ UNCHANGED <<db, events, argo, shutdown, watch, gone, requestOnly>>

-----------------------------------------------------------------------------
(* JobTerminateHandler, TerminateJob *)

TerminateRequest(c) ==
    /\ req[c].pc = "idle"
    /\ \E j \in Jobs : /\ argo[j] # "absent"
                       /\ req' = [req EXCEPT ![c] = [pc |-> "termGet", job |-> j]]
    /\ UNCHANGED <<db, events, argo, shutdown, watch, gone, requestOnly>>

\* "job %s already stopped" if FinishedAt is set.
TerminateGet(c) ==
    /\ req[c].pc = "termGet"
    /\ IF argo[req[c].job] \in Unfinished THEN Goto(c, "termPatch") ELSE Finish(c)
    /\ UNCHANGED <<db, events, argo, shutdown, watch, gone, requestOnly>>

\* util.TerminateWorkflow patches spec.shutdown; the workflow may have
\* finished or been removed since.  A patch that changes nothing makes no
\* event.
TerminatePatch(c) ==
    LET j == req[c].job
    IN  /\ req[c].pc = "termPatch"
        /\ IF argo[j] # "absent"
           THEN /\ shutdown' = [shutdown EXCEPT ![j] = TRUE]
                /\ watch' = IF shutdown[j] THEN watch ELSE Notified(j, argo[j])
           ELSE UNCHANGED <<shutdown, watch>>
        /\ Finish(c)
        /\ UNCHANGED <<db, events, argo, gone, requestOnly>>

-----------------------------------------------------------------------------
(* The Argo workflow controller *)

Advance(j) ==
    /\ argo[j] \in Unfinished
    /\ \E p \in (IF shutdown[j] THEN {"Failed"}
                 ELSE IF argo[j] = "Pending" THEN {"Running", "Failed"}
                 ELSE Completed) :
        /\ argo' = [argo EXCEPT ![j] = p]
        /\ watch' = Notified(j, p)
    /\ UNCHANGED <<db, events, shutdown, sub, req, gone, faults, panicked>>

-----------------------------------------------------------------------------
JobStep(j) ==
    \/ StoreJob(j) \/ Transpile(j) \/ CreateWorkflow(j) \/ StartSaver(j)
    \/ SubmitFails(j) \/ SaveEvents(j) \/ SaveFails(j) \/ Advance(j)

WatchStep(w) == OpenWatch(w) \/ Receive(w) \/ WatchBreaks(w)

ViewerStep(v) == OpenStream(v) \/ CloseStream(v)

ClientStep(c) ==
    \/ DeleteRequest(c) \/ DeleteGet(c) \/ DeleteDryRun(c) \/ DeleteGetJob(c)
    \/ DeleteDocument(c) \/ DeleteWorkflow(c)
    \/ TerminateRequest(c) \/ TerminateGet(c) \/ TerminatePatch(c)
    \/ RequestFails(c)

Next ==
    \/ \E j \in Jobs : JobStep(j)
    \/ \E w \in Watchers : WatchStep(w)
    \/ \E v \in Viewers : ViewerStep(v)
    \/ \E c \in Clients : ClientStep(c)
    \/ Crash

\* The goroutines of watches run and the API server answers them.
Fairness == /\ \A w \in Watchers : WF_vars(OpenWatch(w)) /\ WF_vars(Receive(w))
            /\ \A j \in Jobs : WF_vars(SaveEvents(j))

Spec == Init /\ [][Next]_vars
FairSpec == Spec /\ Fairness

-----------------------------------------------------------------------------
(* Properties *)

\* Every variable has its type.
TypeOK ==
    /\ db \in [Jobs -> BOOLEAN]
    /\ events \in [Jobs -> Seq(Phase)]
    /\ argo \in [Jobs -> Phase \cup {"absent"}]
    /\ shutdown \in [Jobs -> BOOLEAN]
    /\ sub \in [Jobs -> {"none", "stored", "ready", "created", "answered", "failed"}]
    /\ watch \in [Watchers -> WatchState]
    /\ req \in [Clients -> ReqState]
    /\ gone \in SUBSET Jobs
    /\ faults \in Nat
    /\ panicked \in BOOLEAN

\* A workflow that has not finished has its job document: the document is
\* stored before the workflow is created (jobs.go:125) and DELETE refuses a
\* job in progress (jobs.go:239), whatever requests, failures and crashes
\* come between its check and its writes.
RunningJobRecorded == \A j \in Jobs : argo[j] \in Unfinished => db[j]

\* A job whose DELETE was answered 200 is gone from both places and stays
\* gone: neither a late EventSaver (jobs.go:211) nor another request brings
\* the document or the workflow back.
DeletedForGood == \A j \in gone : ~db[j] /\ argo[j] = "absent"

\* The stored history of a job is whole: it ends with the completed phase and
\* has no completed phase before, although EventSaver (jobs.go:179) collects
\* it in memory from a watch that DELETED events and terminate patches reach
\* too.
SavedHistoryWhole ==
    \A j \in Jobs : events[j] # <<>> =>
        /\ events[j][Len(events[j])] \in Completed
        /\ \A i \in 1 .. Len(events[j]) - 1 : events[j][i] \in Unfinished

\* Once a workflow has completed under an event saver that is neither killed
\* nor refused by the database, its events get stored, unless the job is
\* deleted first (jobs.go:171, 179).
EventsGetSaved ==
    \A j \in Jobs :
        argo[j] \in Completed /\ watch[j].pc \in {"start", "open", "save"}
            ~> events[j] # <<>> \/ ~db[j] \/ watch[j].pc = "lost"

\* An event stream of a workflow that completes ends by itself
\* (StartEventLoop, jobs.go:387): the viewer is not left waiting.
StreamEnds ==
    \A v \in Viewers : \A j \in Jobs :
        watch[v].pc = "open" /\ watch[v].job = j /\ argo[j] \in Completed
            ~> watch[v].pc # "open"

\* "object is probably metav1.Status, `FromObject` can deal with anything"
\* (jobs.go:195): what a watch delivers, or its end, does not bring the
\* server down.
SaverNeverPanics == ~panicked
=============================================================================
