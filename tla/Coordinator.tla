---------------------------- MODULE Coordinator ----------------------------
(***************************************************************************)
(* The scheduler of the service (api/services/scheduler.py) on top of the  *)
(* project databases: SimulationCoordinator and its dispatch loop, the     *)
(* worker thread of each run (RuntimeRunExecutor.execute and               *)
(* RuntimeSession.run_to_completion), the stop request of the HTTP API     *)
(* (api/routes/workbench.py) and the start, shutdown and crash of the      *)
(* process (api/app.py).                                                   *)
(*                                                                         *)
(* The event loop runs one handler at a time; a handler that calls the     *)
(* store several times is broken into steps here, because the worker       *)
(* threads write to the databases between them.                            *)
(***************************************************************************)
EXTENDS WorkbenchStore

CONSTANTS
  N,           \* max_concurrent_projects
  Signature,   \* the runtime signature of a scenario
  Editing,     \* bound: projects whose drafts and inputs change while runs go on
  Disruptions  \* bound: what may go wrong

ASSUME CoordinatorAssumption ==
  /\ N \in Nat \ {0}
  /\ DOMAIN Signature = Scenarios
  /\ Editing \subseteq Projects
  /\ Disruptions \subseteq {"crash", "shutdown", "fault", "unmount"}

VARIABLES
  proc,     \* the service process: "down", "up" or "stopping"
  loop,     \* the dispatch loop: an unexpected exception ends it silently
  online,   \* projects whose directory is available
  jobs,     \* _active: the run a project owns, 0 if none
  thread,   \* where the worker of an item is, or what it returned
  stopreq,  \* how far a stop request got: the event, then the session's flag
  todo,     \* candidates the current dispatch pass still has to look at
  hold      \* the item whose stop handler has still to write, 0 if none

coordVars == <<proc, loop, online, jobs, thread, stopreq, todo, hold>>
vars == <<storeVars, coordVars>>

Results == {"completed", "failed", "stopped"}
InSession == {"initialize", "run", "solving", "exporting"}
Working == {"prepare"} \cup InSession

\* Every variable keeps its range: a dispatch pass looks at queued rows only,
\* and a stop handler at a run that is still owned.
CoordinatorTypeOK ==
  /\ proc \in {"down", "up", "stopping"}
  /\ loop \in {"on", "dead"}
  /\ online \in SUBSET Projects
  /\ jobs \in [Projects -> {0} \cup Items]
  /\ thread \in [Items -> {"none", "task"} \cup Working \cup Results]
  /\ stopreq \in [Items -> {"no", "event", "session"}]
  /\ todo \in SUBSET {i \in Items : queue[i].status = "queued"}
  /\ hold \in {0} \cup {jobs[p] : p \in Projects}

-----------------------------------------------------------------------------
Project(i) == ProjectOf[queue[i].scenario]
Owns(p, i) == jobs[p] = i /\ i # 0
Owned == {p \in Projects : jobs[p] # 0}

\* No handler is in the middle of its calls.
LoopFree == todo = {} /\ hold = 0

Serving == proc = "up" /\ LoopFree

\* Only runs with the signature of those that are going on may start.
AnySignature(i) == TRUE  \* mutant
Compatible(i) ==
  \A p \in Owned : Signature[queue[jobs[p]].scenario] = Signature[queue[i].scenario]

Room == Cardinality(Owned) < N

Candidate(i) == \E p \in online \ Owned : IsHead(i, p)

-----------------------------------------------------------------------------
\* The dispatch loop

\* A pass takes the next queued row of every project without a job ...
DispatchBegin ==
  /\ Serving
  /\ loop = "on"
  /\ Room
  /\ todo' = {i \in Items : Candidate(i)}
  /\ todo' # {}
  /\ UNCHANGED <<storeVars, proc, loop, online, jobs, thread, stopreq, hold>>

\* ... and looks at them in the order they were enqueued.
DispatchSkip ==
  /\ todo # {}
  /\ ~Room \/ ~Compatible(Min(todo))
  /\ todo' = IF Room THEN todo \ {Min(todo)} ELSE {}
  /\ UNCHANGED <<storeVars, proc, loop, online, jobs, thread, stopreq, hold>>

DispatchClaim ==
  LET i == Min(todo)
      claimed == queue'[i].status = "starting"
  IN  /\ todo # {}
      /\ Room /\ Compatible(i)
      /\ ClaimQueueItem(i)
      /\ todo' = todo \ {i}
      /\ jobs' = IF claimed THEN [jobs EXCEPT ![Project(i)] = i] ELSE jobs
      /\ thread' = IF claimed THEN [thread EXCEPT ![i] = "task"] ELSE thread
      /\ UNCHANGED <<proc, loop, online, stopreq, hold>>

\* An error other than a WorkbenchError, before or after the claim is
\* committed (disk full, database locked), ends the loop task.
DispatchDies ==
  /\ "fault" \in Disruptions
  /\ todo # {}
  /\ Room /\ Compatible(Min(todo))
  /\ \/ UNCHANGED storeVars
     \/ ClaimQueueItem(Min(todo)) /\ queue'[Min(todo)].status = "starting"
  /\ loop' = "dead"
  /\ todo' = {}
  /\ UNCHANGED <<proc, online, jobs, thread, stopreq, hold>>

\* The task of a claimed run starts the worker thread.
TaskStart(i) ==
  /\ thread[i] = "task"
  /\ LoopFree
  /\ UpdateRun(i, "starting")
  /\ thread' = [thread EXCEPT ![i] = "prepare"]
  /\ UNCHANGED <<proc, loop, online, jobs, stopreq, todo, hold>>

FinishDuringHandlers(p) ==  \* mutant: the loop does not wait for a handler
  LET i == jobs[p]
  IN  /\ i # 0 /\ thread[i] \in Results
      /\ FinishRun(i, thread[i])
      /\ jobs' = [jobs EXCEPT ![p] = 0]
      /\ thread' = [thread EXCEPT ![i] = "none"]
      /\ UNCHANGED <<proc, loop, online, stopreq, todo, hold>>

FinishKeepsJob(p) ==  \* mutant: the job is not popped
  LET i == jobs[p]
  IN  /\ i # 0 /\ thread[i] \in Results
      /\ LoopFree
      /\ FinishRun(i, thread[i])
      /\ thread' = [thread EXCEPT ![i] = "none"]
      /\ UNCHANGED <<proc, loop, online, jobs, stopreq, todo, hold>>

\* The worker returned: its result becomes the end of the run.
Finish(p) ==
  LET i == jobs[p]
  IN  /\ i # 0 /\ thread[i] \in Results
      /\ LoopFree
      /\ FinishRun(i, thread[i])
      /\ jobs' = [jobs EXCEPT ![p] = 0]
      /\ thread' = [thread EXCEPT ![i] = "none"]
      /\ UNCHANGED <<proc, loop, online, stopreq, todo, hold>>

\* The database refuses the final write, which is logged; the job is gone.
FinishFails(p) ==
  LET i == jobs[p]
  IN  /\ "fault" \in Disruptions
      /\ i # 0 /\ thread[i] \in Results
      /\ LoopFree
      /\ jobs' = [jobs EXCEPT ![p] = 0]
      /\ thread' = [thread EXCEPT ![i] = "none"]
      /\ UNCHANGED <<storeVars, proc, loop, online, stopreq, todo, hold>>

-----------------------------------------------------------------------------
\* The worker thread of item i

Goes(i, to) ==
  /\ thread' = [thread EXCEPT ![i] = to]
  /\ UNCHANGED <<proc, loop, online, jobs, stopreq, todo, hold>>

\* The inputs are materialised and the session is registered.
Prepared(i) == thread[i] = "prepare" /\ Goes(i, "initialize") /\ UNCHANGED storeVars

PreparationFails(i) ==
  thread[i] \in {"prepare", "initialize"} /\ Goes(i, "failed") /\ UNCHANGED storeVars

Initialized(i) == thread[i] = "initialize" /\ Goes(i, "run") /\ UpdateRun(i, "starting")

RunBegins(i) == thread[i] = "run" /\ Goes(i, "solving") /\ UpdateRun(i, "running")

\* The flag is read by the progress callback and after the last step.
StopSeen(i) ==
  thread[i] = "solving" /\ stopreq[i] = "session" /\ Goes(i, "stopped") /\ UpdateRun(i, "stopped")

Solved(i) ==
  thread[i] = "solving" /\ stopreq[i] # "session" /\ Goes(i, "exporting") /\ UNCHANGED storeVars

RunFails(i) ==
  thread[i] \in {"solving", "exporting"} /\ Goes(i, "failed") /\ UpdateRun(i, "failed")

RunCompletes(i) == thread[i] = "exporting" /\ Goes(i, "completed") /\ UpdateRun(i, "completed")

\* A worker whose task was cut off returns to nobody.
ReturnsToNobody(i) ==
  thread[i] \in Results /\ ~(\E p \in Projects : Owns(p, i)) /\ Goes(i, "none") /\ UNCHANGED storeVars

StopThreadAtStart(i) ==  \* mutant: looks at the event once, not until it is set
  /\ stopreq[i] = "event"
  /\ thread[i] = "initialize"
  /\ stopreq' = [stopreq EXCEPT ![i] = "session"]
  /\ UNCHANGED <<storeVars, proc, loop, online, jobs, thread, todo, hold>>

\* The stop thread hands the event on to the session.
StopThread(i) ==
  /\ stopreq[i] = "event"
  /\ thread[i] \in InSession
  /\ stopreq' = [stopreq EXCEPT ![i] = "session"]
  /\ UNCHANGED <<storeVars, proc, loop, online, jobs, thread, todo, hold>>

-----------------------------------------------------------------------------
\* Stop requests

\* A request to stop sets the event, and the flag once there is a session.
Told(i) == IF thread[i] \in InSession \/ stopreq[i] = "session" THEN "session" ELSE "event"

StopBegin(i) ==
  /\ Serving
  /\ runs[i].status \in Active
  /\ Owns(Project(i), i)
  /\ stopreq' = [stopreq EXCEPT ![i] = Told(i)]
  /\ hold' = i
  /\ UNCHANGED <<storeVars, proc, loop, online, jobs, thread, todo>>

StopEnd ==
  /\ hold # 0
  /\ UpdateRun(hold, "stopping")
  /\ hold' = 0
  /\ UNCHANGED <<proc, loop, online, jobs, thread, stopreq, todo>>

-----------------------------------------------------------------------------
\* The process

\* A shutdown tells every job to stop and waits 1.5 s for them ...
Shutdown ==
  /\ "shutdown" \in Disruptions
  /\ Serving
  /\ proc' = "stopping"
  /\ stopreq' = [i \in Items |-> IF \E p \in Projects : Owns(p, i) THEN Told(i) ELSE stopreq[i]]
  /\ UNCHANGED <<storeVars, loop, online, jobs, thread, todo, hold>>

\* ... then cancels the tasks that are left.  Their threads go on.
Cut(p) ==
  LET i == jobs[p]
  IN  /\ proc = "stopping"
      /\ i # 0 /\ thread[i] \in Working
      /\ FinishRun(i, "interrupted")
      /\ jobs' = [jobs EXCEPT ![p] = 0]
      /\ UNCHANGED <<proc, loop, online, thread, stopreq, todo, hold>>

\* The process ends, by a crash or a kill or at the end of a shutdown.
ProcessEnds ==
  /\ \/ "crash" \in Disruptions /\ proc = "up"
     \/ proc = "stopping"
  /\ proc' = "down"
  /\ jobs' = [p \in Projects |-> 0]
  /\ thread' = [i \in Items |-> "none"]
  /\ stopreq' = [i \in Items |-> "no"]
  /\ todo' = {}
  /\ hold' = 0
  /\ UNCHANGED <<storeVars, loop, online>>

Start ==
  /\ proc = "down"
  /\ RecoverInterruptedRuns(online)
  /\ proc' = "up"
  /\ loop' = "on"
  /\ UNCHANGED <<online, jobs, thread, stopreq, todo, hold>>

\* The directory of a project goes away while the service is down.
Unmount(p) ==
  /\ "unmount" \in Disruptions
  /\ proc = "down"
  /\ p \in online
  /\ online' = online \ {p}
  /\ UNCHANGED <<storeVars, proc, loop, jobs, thread, stopreq, todo, hold>>

Mount(p) ==
  /\ p \notin online
  /\ online' = online \cup {p}
  /\ UNCHANGED <<storeVars, proc, loop, jobs, thread, stopreq, todo, hold>>

\* An edit in one of the projects of the bound.
EditRequest ==
  /\ Editing # {}
  /\ DraftRequest
  /\ \A s \in Scenarios : scenarios'[s] # scenarios[s] => ProjectOf[s] \in Editing
  /\ \A a \in Assets : uploads'[a] # uploads[a] => HomeOf[a] \in Editing
  /\ \A r \in Revisions : revisions'[r] # revisions[r] => \A a \in revisions'[r].bind : HomeOf[a] \in Editing

\* The other requests of the API, on projects that are available.
Request ==
  /\ Serving
  /\ QueueRequest \/ EditRequest
  /\ \A i \in Items : queue'[i] # queue[i] => ProjectOf[queue'[i].scenario] \in online
  /\ UNCHANGED coordVars

-----------------------------------------------------------------------------
CoordinatorInit ==
  /\ StoreInit
  /\ proc = "down"
  /\ loop = "on"
  /\ online = Projects
  /\ jobs = [p \in Projects |-> 0]
  /\ thread = [i \in Items |-> "none"]
  /\ stopreq = [i \in Items |-> "no"]
  /\ todo = {}
  /\ hold = 0

Dispatch == DispatchBegin \/ DispatchSkip \/ DispatchClaim \/ DispatchDies

Worker(i) ==
  \/ Prepared(i) \/ PreparationFails(i) \/ Initialized(i) \/ RunBegins(i)
  \/ StopSeen(i) \/ Solved(i) \/ RunFails(i) \/ RunCompletes(i)
  \/ ReturnsToNobody(i)

CoordinatorNext ==
  \/ Dispatch
  \/ \E i \in Items : TaskStart(i) \/ Worker(i) \/ StopThread(i) \/ StopBegin(i)
  \/ \E p \in Projects : Finish(p) \/ FinishFails(p) \/ Cut(p) \/ Unmount(p) \/ Mount(p)
  \/ StopEnd \/ Shutdown \/ ProcessEnds \/ Start \/ Request

CoordinatorSpec == CoordinatorInit /\ [][CoordinatorNext]_vars

\* The event loop runs its callbacks in turn and the threads are scheduled;
\* a stop flag is read at every step of the solver.  Nothing here makes the
\* solver end by itself, nor the process stay up, nor anyone send a request.
Fairness ==
  /\ SF_vars(DispatchBegin)
  /\ WF_vars(DispatchSkip) /\ WF_vars(DispatchClaim) /\ WF_vars(StopEnd)
  /\ \A p \in Projects : SF_vars(Finish(p))
  /\ \A i \in Items :
       /\ SF_vars(TaskStart(i))
       /\ WF_vars(StopThread(i))
       /\ WF_vars(Prepared(i)) /\ WF_vars(Initialized(i)) /\ WF_vars(RunBegins(i))
       /\ WF_vars(StopSeen(i)) /\ WF_vars(RunCompletes(i))

FairCoordinatorSpec == CoordinatorSpec /\ Fairness

\* Every run ends: the solver reaches t_end or fails.
SolverEnds == \A i \in Items : WF_vars(Solved(i) \/ RunFails(i))

-----------------------------------------------------------------------------
\* Properties

\* While the service is up, the rows that are marked active are exactly those
\* the scheduler owns: nothing is shown as running that nobody runs, and no
\* job runs behind a row that could be retried, deleted or claimed again.
ActiveRowsOwned ==
  proc = "up" => \A i \in Items : queue[i].status \in Active <=> \E p \in Projects : Owns(p, i)

\* "Serialize runs per project": the workers alive, those that a shutdown cut
\* off included, are at most N, of different projects and of one signature.
AdmissionGate ==
  LET alive == {i \in Items : thread[i] # "none"}
  IN  /\ Cardinality(alive) <= N
      /\ \A i, j \in alive : i # j =>
           /\ Project(i) # Project(j)
           /\ Signature[queue[i].scenario] = Signature[queue[j].scenario]

\* While the service is up, a row that ended stays ended the way it ended: no
\* late write of a worker or of a stop handler revives it.
TerminalIsFinal ==
  [][proc = "up" => \A i \in Items :
       queue[i].status \in Terminal => queue'[i].status = queue[i].status]_vars

\* "Assets used by an active calculation cannot be deleted": no upload is
\* deleted while a worker that was frozen on it is alive, although the check
\* looks at the run status that the worker itself writes.
DeletionSparesLiveRuns ==
  [][\A a \in Assets, i \in Items :
       /\ uploads[a] = "present" /\ uploads'[a] = "deleted"
       /\ thread[i] \in {"task"} \cup Working
       => a \notin revisions[runs[i].revision].bind]_vars

\* "Service restart marks starting, running, and stopping work as interrupted."
RestartInterrupts ==
  [][proc = "down" /\ proc' = "up" => \A i \in Items : queue'[i].status \notin Active]_vars

\* A stop request that was accepted ends the run, however its event, the
\* session's creation and the status writes interleave, and even if the
\* solver never ends by itself.
StopIsHonoured ==
  \A i \in Items :
    (stopreq[i] # "no" /\ proc = "up") ~> (queue[i].status \in Terminal \/ proc # "up")

\* Another row is claimed while row i waits for its turn.
Overtaken(i) ==
  /\ queue[i].status = "queued"
  /\ \E j \in Items \ {i} : queue[j].status = "queued" /\ queue'[j].status = "starting"

Reachable(i) == proc = "up" /\ loop = "on" /\ Project(i) \in online

\* A released row that waits for its project, a slot or a matching signature
\* is claimed, refused or withdrawn, if every run ends and other rows do not
\* overtake it for ever - which a later batch may, since its places start at
\* 1 again, and so may the projects with a signature that is running.
\* (_dispatch_available, queue_candidates)
ReleasedIsServed == SolverEnds =>
  \A i \in Items : <>[][~Overtaken(i)]_vars =>
    (queue[i].status = "queued" /\ Reachable(i)) ~> (queue[i].status # "queued" \/ ~Reachable(i))
=============================================================================
