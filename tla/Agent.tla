--------------------------------- MODULE Agent ---------------------------------
(***************************************************************************)
(* One node: the agent process (internal/agent), its containerd executor   *)
(* (internal/runtime/containerd_linux.go) and containerd, run against the  *)
(* life of the node's assignments as Lifecycle describes it.               *)
(*                                                                         *)
(* The agent has one main goroutine, which polls and calls Stop and Start, *)
(* and per assignment a goroutine that gets its container going (worker)   *)
(* and one that waits for its process to exit (watcher).  They share the   *)
(* executor's watching map and the agent's tracked map, each under a       *)
(* mutex.  A step is one critical section or one call to containerd or to  *)
(* the controller.  Heartbeats change only the age of the node's row,      *)
(* which Lifecycle does not show; a failed one is logged and that is all.  *)
(*                                                                         *)
(* Faults: a report to the controller gets lost, an image cannot be        *)
(* pulled, containerd dies and comes back, the agent dies, the node        *)
(* reboots, the controller restores an older snapshot.  There are at most  *)
(* MaxFaults of them, so liveness means: once faults cease.                *)
(***************************************************************************)
EXTENDS Lifecycle, Functions

CONSTANTS
    Self,        \* this node
    MaxFaults    \* bound: how many faults ever happen

ASSUME AgentAssumption ==
    /\ Self \in NodeID
    /\ MaxFaults \in Nat

VARIABLES
    jobs,        \* the IDs that are attempts of jobs; the others are replicas
    loop,        \* what the main goroutine does next
    desired,     \* syncAssignments' desired, those not yet looked at
    doomed,      \* containers found that are not desired and not yet stopped
    current,     \* the assignment Stop or a repeated report is about, as a set
    note,        \* in Stop: whether the task was running; else the phase to report
    held,        \* in Stop: whether there was a watch when it began
    tracked,     \* Agent.tracked
    watching,    \* ContainerdExecutor.watching: ID -> last phase reported, stopping
    worker,      \* ID -> what the goroutine started by Start does next
    watcher,     \* ID -> what watchExit does next; its subscription from StartTask on
    containers,  \* containerd: ID -> state of the container's task
    containerd,  \* whether containerd answers
    starts,      \* history: how often a process was started for the ID
    signalled,   \* history: jobs whose task Stop sent SIGTERM and has not deleted
    finished,    \* history: jobs whose process exited with code 0 of its own accord
    yielded,     \* history: jobs whose process exited with code 0 after SIGTERM
    abandoned,   \* history: jobs whose Stop sent SIGTERM and then failed or died
    restored,    \* history: whether the controller ever went back to a snapshot
    faults       \* faults so far

mainVars == <<loop, desired, doomed, current, note, held>>
exitVars == <<signalled, finished, yielded, abandoned>>
runtimeVars == <<containers, containerd, starts, exitVars>>
background == <<jobs, restored, faults>>
vars == <<lifecycleVars, mainVars, tracked, watching, worker, watcher, runtimeVars, background>>

StopSteps == {"kill", "wait", "reap", "delete", "reportStopped"}
MainSteps == {"off", "idle", "list", "stop", "start", "repeat"} \cup StopSteps
WorkerSteps == {"none", "load", "create", "attach", "subscribe", "newTask", "startTask",
                "running", "sendRunning", "failed", "sendFailed", "forget"}
WatcherSteps == {"none", "waiting", "rewait", "Succeeded", "Failed", "sendSucceeded", "sendFailed"}
TaskStates == {"none", "created", "running", "exit0", "exit1"}

NoOne == [i \in ID |-> "none"]
NoWatch == [i \in {} |-> 0]

Put(map, key, value) == [k \in DOMAIN map \cup {key} |-> IF k = key THEN value ELSE map[k]]
Without(map, key) == Restrict(map, DOMAIN map \ {key})

TaskOf(i) == IF i \in DOMAIN containers THEN containers[i] ELSE "gone"
Exited(i) == TaskOf(i) \in {"exit0", "exit1"}
Unfinished(i) == TaskOf(i) \in {"created", "running"}

CountFault == faults < MaxFaults /\ faults' = faults + 1
Fault == CountFault /\ UNCHANGED <<jobs, restored>>

Init ==
    /\ LifecycleInit
    /\ jobs \in SUBSET ID /\ restored = FALSE
    /\ loop = "off" /\ desired = {} /\ doomed = {} /\ current = {}
    /\ note = "" /\ held = FALSE
    /\ tracked = {} /\ watching = NoWatch
    /\ worker = NoOne /\ watcher = NoOne
    /\ containers = NoWatch /\ containerd = TRUE
    /\ starts = [i \in ID |-> 0] /\ signalled = {} /\ finished = {} /\ yielded = {}
    /\ abandoned = {}
    /\ faults = 0

--------------------------------------------------------------------------------
(* Reports *)

\* The reporter's call reaches the controller or is lost.
Deliver(i, reported) ==
    \/ Report(i, reported) /\ UNCHANGED background
    \/ Fault /\ UNCHANGED lifecycleVars

track(i) == tracked' = tracked \cup {i}
untrack(i) == tracked' = tracked \ {i}

\* Slip: the assignment stays tracked.
untrackNever(i, reported) == UNCHANGED tracked

\* Once finished, stop tracking.
untrackFinal(i, reported) == IF reported \in Terminal THEN untrack(i) ELSE UNCHANGED tracked

\* The reporter closure.
Send(i, reported) ==
    /\ Deliver(i, reported)
    /\ untrackFinal(i, reported)

\* The critical section of reportFor: remember the phase if someone listens.
Remember(i, reported) ==
    watching' = IF i \in DOMAIN watching
                THEN [watching EXCEPT ![i].phase = reported] ELSE watching

forget(i) == watching' = Without(watching, i)

--------------------------------------------------------------------------------
(* The main goroutine: Run and syncAssignments *)

\* Run registers the node; when that fails the process exits and is restarted.
Boot ==
    /\ loop = "off"
    /\ Register(Self)
    /\ loop' = "idle"
    /\ UNCHANGED <<desired, doomed, current, note, held, tracked, watching, worker, watcher,
                   runtimeVars, background>>

\* handleNodeAssignments hands out active assignments only.
fetched == {i \in ID : phase[i] \in Active}

FetchAssignments ==
    /\ loop = "idle"
    /\ desired' = fetched
    /\ loop' = "list"
    /\ UNCHANGED <<lifecycleVars, doomed, current, note, held, tracked, watching, worker, watcher,
                   runtimeVars, background>>

\* Slip: only what this process knows is looked at.
heldTracked == DOMAIN containers \cap tracked

heldByRuntime == DOMAIN containers

\* Slip: what this process did not start is not wanted.
unwantedUntracked == heldByRuntime \ tracked

unwanted == heldByRuntime \ desired

List ==
    /\ loop = "list"
    /\ \/ containerd /\ doomed' = unwanted /\ loop' = "stop" /\ UNCHANGED desired
       \/ ~ containerd /\ loop' = "idle" /\ desired' = {} /\ UNCHANGED doomed
    /\ UNCHANGED <<lifecycleVars, current, note, held, tracked, watching, worker, watcher,
                   runtimeVars, background>>

--------------------------------------------------------------------------------
(* Stop *)

Stop(i) ==
    /\ loop = "stop" /\ i \in doomed
    /\ doomed' = doomed \ {i}
    /\ current' = {i}
    /\ held' = (i \in DOMAIN watching)
    /\ watching' = IF i \in DOMAIN watching THEN [watching EXCEPT ![i].stopping = TRUE] ELSE watching
    /\ loop' = "kill"
    /\ UNCHANGED <<lifecycleVars, desired, note, tracked, worker, watcher, runtimeVars, background>>

\* Stop returns: the watch goes in any case, tracking only when it succeeded.
StopReturns(i, ok) ==
    /\ forget(i)
    /\ IF ok THEN untrack(i) ELSE UNCHANGED tracked
    /\ loop' = "stop" /\ current' = {} /\ note' = "" /\ held' = FALSE

\* What Stop has told to exit and will not delete.
Abandons == abandoned' = abandoned \cup (current \cap signalled)

\* A call to containerd fails: the error is logged and the loop goes on.  A task
\* that runs, as it may after the wait for its exit broke, is not deleted.
StopFails(i) ==
    /\ loop \in {"kill", "reap", "delete"} /\ i \in current
    /\ \/ ~ containerd
       \/ loop = "reap" /\ Unfinished(i)
       \/ loop = "delete" /\ TaskOf(i) # "none"
    /\ StopReturns(i, FALSE)
    /\ Abandons
    /\ UNCHANGED <<lifecycleVars, desired, doomed, worker, watcher, containers, containerd, starts,
                   signalled, finished, yielded, background>>

\* killTask up to SIGTERM, which the process may take as it likes.
Kill(i) ==
    /\ loop = "kill" /\ i \in current /\ containerd
    /\ IF Unfinished(i)
       THEN note' = "cut" /\ signalled' = signalled \cup ({i} \cap jobs) /\ loop' = "wait"
       ELSE /\ loop' = IF Exited(i) THEN "reap" ELSE "delete"
            /\ UNCHANGED <<note, signalled>>
    /\ UNCHANGED <<lifecycleVars, desired, doomed, current, held, tracked, watching, worker, watcher,
                   containers, containerd, starts, finished, yielded, abandoned, background>>

\* The grace period is over: SIGKILL.
KillHard(i) ==
    /\ loop = "wait" /\ i \in current /\ Unfinished(i)
    /\ containers' = [containers EXCEPT ![i] = "exit1"]
    /\ UNCHANGED <<lifecycleVars, mainVars, tracked, watching, worker, watcher, containerd, starts,
                   exitVars, background>>

\* killTask's exitCh delivers.
Waited(i) ==
    /\ loop = "wait" /\ i \in current /\ ~ Unfinished(i)
    /\ loop' = "reap"
    /\ UNCHANGED <<lifecycleVars, desired, doomed, current, note, held, tracked, watching, worker, watcher,
                   runtimeVars, background>>

\* killTask deletes the task.
Reap(i) ==
    /\ loop = "reap" /\ i \in current /\ containerd /\ ~ Unfinished(i)
    /\ containers' = [containers EXCEPT ![i] = "none"]
    /\ signalled' = signalled \ {i}
    /\ loop' = "delete"
    /\ UNCHANGED <<lifecycleVars, desired, doomed, current, note, held, tracked, watching, worker,
                   watcher, containerd, starts, finished, yielded, abandoned, background>>

\* The container and its snapshot go; containerd refuses while there is a task.
DeleteContainer(i) ==
    /\ loop = "delete" /\ i \in current /\ containerd
    /\ TaskOf(i) = "none"
    /\ containers' = Without(containers, i)
    /\ IF note = "cut" /\ held
       THEN loop' = "reportStopped" /\ UNCHANGED <<current, note, held, tracked, watching>>
       ELSE StopReturns(i, TRUE)
    /\ UNCHANGED <<lifecycleVars, desired, doomed, worker, watcher, containerd, starts, exitVars,
                   background>>

ReportStopped(i) ==
    /\ loop = "reportStopped" /\ i \in current
    /\ Deliver(i, "Stopped")
    /\ StopReturns(i, TRUE)
    /\ UNCHANGED <<desired, doomed, worker, watcher, runtimeVars>>

StopsDone ==
    /\ loop = "stop" /\ doomed = {}
    /\ loop' = "start"
    /\ UNCHANGED <<lifecycleVars, desired, doomed, current, note, held, tracked, watching, worker,
                   watcher, runtimeVars, background>>

--------------------------------------------------------------------------------
(* Start *)

\* Already tracked; known to the executor with nothing or something to repeat; new.
\* Only after a restore may goroutines of an earlier Start still be there: bound,
\* they finish first, and two that wait for the same exit count as one.
Start(i) ==
    /\ loop = "start" /\ i \in desired
    /\ desired' = desired \ {i}
    /\ track(i)
    /\ \/ /\ i \in tracked
          /\ UNCHANGED <<loop, current, note, watching, worker>>
       \/ /\ i \notin tracked /\ i \in DOMAIN watching /\ watching[i].phase = ""
          /\ UNCHANGED <<loop, current, note, watching, worker>>
       \/ /\ i \notin tracked /\ i \in DOMAIN watching /\ watching[i].phase # ""
          /\ current' = {i} /\ note' = watching[i].phase
          /\ loop' = "repeat"
          /\ UNCHANGED <<watching, worker>>
       \/ /\ i \notin tracked /\ i \notin DOMAIN watching
          /\ worker[i] = "none" /\ watcher[i] \in {"none", "waiting", "rewait"}
          /\ watching' = Put(watching, i, [phase |-> "", stopping |-> FALSE])
          /\ worker' = [worker EXCEPT ![i] = "load"]
          /\ UNCHANGED <<loop, current, note>>
    /\ UNCHANGED <<lifecycleVars, doomed, held, watcher, runtimeVars, background>>

\* Start on a known assignment repeats its last report.
Repeat(i) ==
    /\ loop = "repeat" /\ i \in current
    /\ Send(i, note)
    /\ loop' = "start" /\ current' = {} /\ note' = ""
    /\ UNCHANGED <<desired, doomed, held, watching, worker, watcher, runtimeVars>>

SyncDone ==
    /\ loop = "start" /\ desired = {}
    /\ loop' = "idle"
    /\ UNCHANGED <<lifecycleVars, desired, doomed, current, note, held, tracked, watching, worker,
                   watcher, runtimeVars, background>>

--------------------------------------------------------------------------------
(* The goroutine of Start: run, create, startTask, attach *)

WorkerTo(i, from, to) == worker[i] = from /\ worker' = [worker EXCEPT ![i] = to]

LoadContainer(i) ==
    /\ containerd
    /\ WorkerTo(i, "load", IF i \in DOMAIN containers THEN "attach" ELSE "create")
    /\ UNCHANGED <<lifecycleVars, mainVars, tracked, watching, watcher, runtimeVars, background>>

\* Pulling the image takes long; the container appears at the end of it.
CreateContainer(i) ==
    /\ containerd
    /\ WorkerTo(i, "create", "newTask")
    /\ containers' = Put(containers, i, "none")
    /\ UNCHANGED <<lifecycleVars, mainVars, tracked, watching, watcher, containerd, starts, exitVars,
                   background>>

PullFails(i) ==
    /\ WorkerTo(i, "create", "failed")
    /\ Fault
    /\ UNCHANGED <<lifecycleVars, mainVars, tracked, watching, watcher, runtimeVars>>

NewTask(i) ==
    /\ containerd
    /\ TaskOf(i) = "none"
    /\ WorkerTo(i, "newTask", "startTask")
    /\ containers' = [containers EXCEPT ![i] = "created"]
    /\ UNCHANGED <<lifecycleVars, mainVars, tracked, watching, watcher, containerd, starts, exitVars,
                   background>>

\* Wait is registered before the process starts.
StartTask(i) ==
    /\ containerd
    /\ TaskOf(i) = "created"
    /\ WorkerTo(i, "startTask", "running")
    /\ containers' = [containers EXCEPT ![i] = "running"]
    /\ watcher' = [watcher EXCEPT ![i] = "waiting"]
    /\ starts' = [starts EXCEPT ![i] = @ + 1]
    /\ signalled' = signalled \ {i}
    /\ UNCHANGED <<lifecycleVars, mainVars, tracked, watching, containerd, finished, yielded,
                   abandoned, background>>

\* Slip: a process that is gone is started again, whatever it was.
attachTaskAlways(i) == IF TaskOf(i) \in {"none", "gone"} THEN "newTask" ELSE "subscribe"

\* What attach does with the task it finds: a container without a process, as a
\* reboot leaves it, is started again if it is a replica and failed if a job.
attachTask(i) ==
    IF TaskOf(i) \notin {"none", "gone"} THEN "subscribe"
    ELSE IF i \in jobs THEN "failed" ELSE "newTask"

Attach(i) ==
    /\ containerd
    /\ WorkerTo(i, "attach", attachTask(i))
    /\ UNCHANGED <<lifecycleVars, mainVars, tracked, watching, watcher, runtimeVars, background>>

\* attach's Wait and Status: a process that has exited already is not reported Running.
Subscribe(i) ==
    /\ containerd
    /\ TaskOf(i) \notin {"none", "gone"}
    /\ WorkerTo(i, "subscribe", IF Exited(i) THEN "none" ELSE "running")
    /\ watcher' = [watcher EXCEPT ![i] = "waiting"]
    /\ UNCHANGED <<lifecycleVars, mainVars, tracked, watching, runtimeVars, background>>

\* A call fails: containerd is away, or Stop took container or task away.  The
\* task of a failed start is deleted if containerd still answers.
RunFails(i) ==
    /\ worker[i] \in {"load", "create", "attach", "subscribe", "newTask", "startTask"}
    /\ \/ ~ containerd
       \/ worker[i] = "subscribe" /\ TaskOf(i) \in {"none", "gone"}
       \/ worker[i] = "newTask" /\ TaskOf(i) # "none"
       \/ worker[i] = "startTask" /\ TaskOf(i) # "created"
    /\ containers' = IF worker[i] = "startTask" /\ containerd /\ i \in DOMAIN containers
                     THEN [containers EXCEPT ![i] = "none"] ELSE containers
    /\ worker' = [worker EXCEPT ![i] = "failed"]
    /\ UNCHANGED <<lifecycleVars, mainVars, tracked, watching, watcher, containerd, starts, exitVars,
                   background>>

\* reportFor(Running) and reportFor(Failed), up to the call.
WorkerReports(i) ==
    /\ \/ /\ WorkerTo(i, "running", IF i \in DOMAIN watching THEN "sendRunning" ELSE "none")
          /\ Remember(i, "Running")
       \/ /\ WorkerTo(i, "failed", IF i \in DOMAIN watching THEN "sendFailed" ELSE "forget")
          /\ Remember(i, "Failed")
    /\ UNCHANGED <<lifecycleVars, mainVars, tracked, watcher, runtimeVars, background>>

WorkerSends(i) ==
    /\ \/ WorkerTo(i, "sendRunning", "none") /\ Send(i, "Running")
       \/ WorkerTo(i, "sendFailed", "forget") /\ Send(i, "Failed")
    /\ UNCHANGED <<mainVars, watching, watcher, runtimeVars>>

WorkerForgets(i) ==
    /\ WorkerTo(i, "forget", "none")
    /\ forget(i)
    /\ UNCHANGED <<lifecycleVars, mainVars, tracked, watcher, runtimeVars, background>>

--------------------------------------------------------------------------------
(* watchExit and rewait *)

WatcherTo(i, to) == watcher' = [watcher EXCEPT ![i] = to]

\* Slip: an exit that Stop has caused is the watcher's too.
InChargeOfAll(i) == i \in DOMAIN watching

\* Nobody else reports for it: it is watched and not being stopped.
InCharge(i) == i \in DOMAIN watching /\ ~ watching[i].stopping

\* Slip: a replica that exits counts as stopped.
phaseOnExitStopped(i) ==
    IF i \notin jobs THEN "Stopped" ELSE IF TaskOf(i) = "exit0" THEN "Succeeded" ELSE "Failed"

\* A job succeeds with code 0; a replica should never exit on its own.
phaseOnExit(i) == IF TaskOf(i) = "exit0" /\ i \in jobs THEN "Succeeded" ELSE "Failed"

\* The process has exited; the goroutine reads this once the worker is done.
SeeExit(i) ==
    /\ watcher[i] = "waiting" /\ worker[i] = "none"
    /\ ~ Unfinished(i)
    /\ WatcherTo(i, IF InCharge(i) THEN phaseOnExit(i) ELSE "none")
    /\ UNCHANGED <<lifecycleVars, mainVars, tracked, watching, worker, runtimeVars, background>>

\* The stream broke with containerd: subscribe again once it is back.
Rewait(i) ==
    /\ watcher[i] = "rewait" /\ worker[i] = "none"
    /\ \/ ~ InCharge(i) /\ WatcherTo(i, "none")
       \/ /\ InCharge(i) /\ containerd
          /\ WatcherTo(i, IF TaskOf(i) = "gone" THEN "none"
                          ELSE IF TaskOf(i) = "none" THEN "Failed" ELSE "waiting")
    /\ UNCHANGED <<lifecycleVars, mainVars, tracked, watching, worker, runtimeVars, background>>

WatcherReports(i) ==
    /\ watcher[i] \in {"Succeeded", "Failed"}
    /\ Remember(i, watcher[i])
    /\ WatcherTo(i, IF i \notin DOMAIN watching THEN "none"
                    ELSE IF watcher[i] = "Succeeded" THEN "sendSucceeded" ELSE "sendFailed")
    /\ UNCHANGED <<lifecycleVars, mainVars, tracked, worker, runtimeVars, background>>

WatcherSends(i) ==
    /\ \/ watcher[i] = "sendSucceeded" /\ Send(i, "Succeeded")
       \/ watcher[i] = "sendFailed" /\ Send(i, "Failed")
    /\ WatcherTo(i, "none")
    /\ UNCHANGED <<mainVars, watching, worker, runtimeVars>>

--------------------------------------------------------------------------------
(* Processes, faults and the control plane *)

\* A process exits, with 0 or not, on its own or because Stop told it to, and
\* whether or not the agent that told it is still there.
Exit(i) ==
    /\ TaskOf(i) = "running"
    /\ \/ /\ containers' = [containers EXCEPT ![i] = "exit0"]
          /\ IF i \in signalled THEN yielded' = yielded \cup {i} /\ UNCHANGED finished
                                ELSE finished' = finished \cup ({i} \cap jobs) /\ UNCHANGED yielded
       \/ containers' = [containers EXCEPT ![i] = "exit1"] /\ UNCHANGED <<finished, yielded>>
    /\ UNCHANGED <<lifecycleVars, mainVars, tracked, watching, worker, watcher, containerd, starts,
                   signalled, abandoned, background>>

\* Processes hang off their shims and outlive containerd; exit streams do not, and
\* killTask takes the end of its stream for the exit.
ContainerdCrash ==
    /\ containerd
    /\ containerd' = FALSE
    /\ watcher' = [i \in ID |-> IF watcher[i] = "waiting" THEN "rewait" ELSE watcher[i]]
    /\ loop' = IF loop = "wait" THEN "reap" ELSE loop
    /\ Fault
    /\ UNCHANGED <<lifecycleVars, desired, doomed, current, note, held, tracked, watching, worker,
                   containers, starts, exitVars>>

ContainerdStart ==
    /\ ~ containerd
    /\ containerd' = TRUE
    /\ UNCHANGED <<lifecycleVars, mainVars, tracked, watching, worker, watcher, containers, starts,
                   exitVars, background>>

ProcessGone ==
    /\ loop' = "off" /\ desired' = {} /\ doomed' = {} /\ current' = {} /\ note' = "" /\ held' = FALSE
    /\ tracked' = {} /\ watching' = NoWatch /\ worker' = NoOne /\ watcher' = NoOne
    /\ Abandons

\* The agent dies; containers stay.
AgentCrash ==
    /\ loop # "off"
    /\ ProcessGone
    /\ Fault
    /\ UNCHANGED <<lifecycleVars, containers, containerd, starts, signalled, finished, yielded>>

\* The node loses power: every process and task goes, containers stay on disk.
Reboot ==
    /\ ProcessGone
    /\ containers' = [i \in DOMAIN containers |-> "none"]
    /\ containerd' = TRUE
    /\ signalled' = {}
    /\ Fault
    /\ UNCHANGED <<lifecycleVars, starts, finished, yielded>>

\* The controller hands the node work, gives it up or removes it at any time.
ControlStep ==
    /\ \E i \in ID : (Self \in known /\ Assign(i)) \/ Lose(i) \/ (i \in Rows /\ Remove({i}))
    /\ UNCHANGED <<mainVars, tracked, watching, worker, watcher, runtimeVars, background>>

RollbackStep ==
    /\ \/ TakeSnapshot /\ UNCHANGED background
       \/ RestoreSnapshot /\ CountFault /\ restored' = TRUE /\ UNCHANGED jobs
    /\ UNCHANGED <<mainVars, tracked, watching, worker, watcher, runtimeVars>>

--------------------------------------------------------------------------------
MainStep ==
    \/ Boot \/ FetchAssignments \/ List \/ StopsDone \/ SyncDone
    \/ \E i \in ID :
          \/ Stop(i) \/ StopFails(i) \/ Kill(i) \/ KillHard(i) \/ Waited(i) \/ Reap(i)
          \/ DeleteContainer(i) \/ ReportStopped(i) \/ Start(i) \/ Repeat(i)

WorkerStep(i) ==
    \/ LoadContainer(i) \/ CreateContainer(i) \/ PullFails(i) \/ NewTask(i) \/ StartTask(i)
    \/ Attach(i) \/ Subscribe(i) \/ RunFails(i) \/ WorkerReports(i) \/ WorkerSends(i) \/ WorkerForgets(i)

WatcherStep(i) == SeeExit(i) \/ Rewait(i) \/ WatcherReports(i) \/ WatcherSends(i)

FaultStep == ContainerdCrash \/ AgentCrash \/ Reboot

Next ==
    \/ MainStep
    \/ \E i \in ID : WorkerStep(i) \/ WatcherStep(i) \/ Exit(i)
    \/ ContainerdStart \/ FaultStep \/ ControlStep

Fairness ==
    /\ WF_vars(MainStep)
    /\ \A i \in ID : WF_vars(WorkerStep(i)) /\ WF_vars(WatcherStep(i))
    /\ WF_vars(ContainerdStart)

\* The controller keeps its database.
Spec == Init /\ [][Next]_vars /\ Fairness

\* It may also lose it and go back to a snapshot.
RollbackSpec == Init /\ [][Next \/ RollbackStep]_vars /\ Fairness

--------------------------------------------------------------------------------
(* Properties *)

\* Maps, steps and histories are of their types.  While the main goroutine is in
\* Stop or repeats a report it is about one assignment, at other times about none.
TypeOK ==
    /\ known \subseteq NodeID
    /\ phase \in [ID -> {Unassigned, Removed} \cup Active \cup Terminal]
    /\ jobs \subseteq ID /\ restored \in BOOLEAN
    /\ loop \in MainSteps
    /\ desired \subseteq ID /\ doomed \subseteq ID
    /\ current \in IF loop \in StopSteps \cup {"repeat"} THEN {{i} : i \in ID} ELSE {{}}
    /\ note \in {"", "cut"} \cup Reportable /\ held \in BOOLEAN
    /\ tracked \subseteq ID
    /\ DOMAIN watching \subseteq ID
    /\ \A i \in DOMAIN watching : watching[i] \in [phase : {""} \cup Reportable, stopping : BOOLEAN]
    /\ worker \in [ID -> WorkerSteps] /\ watcher \in [ID -> WatcherSteps]
    /\ DOMAIN containers \subseteq ID /\ \A i \in DOMAIN containers : containers[i] \in TaskStates
    /\ containerd \in BOOLEAN
    /\ starts \in [ID -> Nat]
    /\ signalled \subseteq ID /\ finished \subseteq ID
    /\ yielded \subseteq ID /\ abandoned \subseteq ID
    /\ faults \in 0 .. MaxFaults

\* An attempt of a job that counts is run at most once (attach): not again after a
\* reboot, an agent's or containerd's restart, a repeated Start or a lost report.
\* An attempt that was given up may be: a Stop can overtake a slow LoadContainer;
\* and so may one that a restored snapshot makes active again.
JobRunsOnce ==
    ~ restored => \A i \in jobs : phase[i] \in Active \cup {"Succeeded"} => starts[i] <= 1

\* The controller is told the truth: what it holds as Succeeded is a job whose
\* process exited with 0 of its own accord, through every repeated report and new
\* agent process, also when a restore makes active what is being stopped.  The exit
\* with 0 that Stop's SIGTERM brings about passes for a success in one case only:
\* that Stop died with its agent or failed before it deleted the task, and a restore
\* made the attempt active again, so that a later attach reads the exit code.
SuccessIsReal ==
    \A i \in ID :
        phase[i] = "Succeeded" =>
            /\ i \in jobs
            /\ i \in finished \/ (restored /\ i \in yielded \cap abandoned)

\* Only what the controller has given up is stopped, although the list that
\* syncAssignments works from is old by the time it acts on it.  A restore can
\* make it active again meanwhile.
StopsOnlyUnwanted ==
    loop \in StopSteps /\ ~ restored => \A i \in current : phase[i] \notin Active

\* What the controller has given up is reaped: no container of it stays, those
\* included whose image was still being pulled when the agent looked, or that a
\* previous agent process started.
Reaped ==
    \A i \in ID : <>[](phase[i] \notin Active) => <>[](i \notin DOMAIN containers)

\* An assignment that stays active has a task that has not exited.  So an exit
\* gets reported, lost reports of it are repeated, and failed starts are retried or
\* reported.  After a restore it may have none: a failed Stop keeps it tracked.
ActiveMeansTask ==
    \A i \in ID :
        <>[](phase[i] \in Active /\ ~ restored) => <>[]Unfinished(i)

\* Start runs the assignment or attaches to it (Executor): an assignment that stays
\* active is running in the end.
ActiveMeansRunning ==
    \A i \in ID : <>[](phase[i] \in Active) => <>[](TaskOf(i) = "running")

\* A replica that keeps running is shown as Running by the controller.
RunningIsReported ==
    \A i \in ID :
        <>[](phase[i] \in Active /\ TaskOf(i) = "running") => <>[](phase[i] = "Running")

\* The controller knows every node whose agent keeps running.
RunningNodeIsKnown == <>[](loop # "off") => <>[](Self \in known)
================================================================================
