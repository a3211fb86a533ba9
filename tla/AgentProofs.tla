------------------------------ MODULE AgentProofs ------------------------------
(***************************************************************************)
(* The agent tells the truth about jobs, stops only what is unwanted and   *)
(* runs an attempt once, for every number of assignments and faults.       *)
(*                                                                         *)
(* The inductive invariant says for each assignment what its goroutines,   *)
(* its watch, its container and the main goroutine's lists may be, given   *)
(* its phase: nothing at all before it is assigned (Fresh), a success only *)
(* where a job's process exited with 0 (Honest), of its own accord unless  *)
(* the Stop that told it to went wrong (Followed) and a snapshot was       *)
(* restored (Unforced), no wish to stop what is active (Sparing), and at   *)
(* most one goroutine that can start a process, once (Single).             *)
(***************************************************************************)
EXTENDS Agent, TLAPS

USE DEF exitVars

Watched(i) == i \in DOMAIN watching
Marked(i) == i \in doomed \/ (loop \in StopSteps /\ i \in current)

\* The snapshot holds rows, lists are empty when they are not being worked through,
\* and what is repeated is a phase.
Orderly ==
    /\ saved.known \subseteq NodeID
    /\ DOMAIN saved.phases \subseteq ID
    /\ \A i \in DOMAIN saved.phases : saved.phases[i] \in Active \cup Terminal
    /\ loop \notin {"stop"} \cup StopSteps => doomed = {}
    /\ loop = "repeat" => note \in Reportable

\* Nobody has heard of an assignment that was not made yet.
Fresh(i) ==
    phase[i] = Unassigned =>
        /\ i \notin DOMAIN containers /\ starts[i] = 0
        /\ i \notin signalled /\ i \notin yielded
        /\ worker[i] = "none" /\ watcher[i] = "none" /\ ~ Watched(i)
        /\ i \notin desired /\ i \notin doomed /\ i \notin current

\* A success that is stored, remembered or about to be sent is a job's, and not
\* one that a Stop which goes on has caused.
Real(i) == i \in jobs /\ (i \in finished \/ (i \in yielded /\ i \in abandoned))
Honest(i) ==
    /\ phase[i] = "Succeeded" => Real(i)
    /\ i \in DOMAIN saved.phases /\ saved.phases[i] = "Succeeded" => Real(i)
    /\ Watched(i) /\ watching[i].phase = "Succeeded" => Real(i)
    /\ loop = "repeat" /\ i \in current /\ note = "Succeeded" => Real(i)
    /\ watcher[i] \in {"Succeeded", "sendSucceeded"} => Real(i)
    /\ TaskOf(i) = "exit0" /\ i \in jobs => i \in finished \/ (i \in yielded /\ i \in signalled)

\* A Stop that sent SIGTERM goes on to delete the task unless it is abandoned, and
\* while it does, the watch says so.
Followed(i) ==
    /\ i \in signalled /\ i \notin abandoned /\ TaskOf(i) \in {"running", "exit0", "exit1"} =>
          loop \in {"wait", "reap"} /\ i \in current
    /\ loop \in StopSteps /\ i \in current /\ Watched(i) => watching[i].stopping = TRUE

\* Without a restore no process of an active assignment was told to stop, and
\* what succeeded did so before anybody could tell it to.
Unforced(i) ==
    ~ restored =>
        /\ phase[i] \in Active => i \notin signalled /\ i \notin yielded
        /\ phase[i] = "Succeeded" => i \in finished

\* What is marked to be stopped is not desired and, unless a restore makes it so,
\* not active.  What became active since the list was fetched has no container.
Sparing(i) ==
    /\ Marked(i) => i \notin desired
    /\ ~ restored =>
          /\ Marked(i) => phase[i] \notin Active
          /\ loop = "list" /\ phase[i] \in Active /\ i \notin desired =>
                i \notin DOMAIN containers /\ worker[i] = "none"

\* Of an active assignment: its goroutines have their watch, the watcher follows
\* the worker, and a job's process is started only if it never was.
SingleActive(i) ==
    /\ worker[i] # "none" \/ watcher[i] # "none" => Watched(i)
    /\ watcher[i] # "none" => worker[i] \in {"none", "running", "sendRunning"}
    /\ watcher[i] \notin {"none", "waiting", "rewait"} => worker[i] = "none"
    /\ Watched(i) /\ watching[i].phase = "Succeeded" => worker[i] = "none"
    /\ loop = "repeat" /\ i \in current /\ note = "Succeeded" => Watched(i) /\ worker[i] = "none"
    /\ i \in jobs =>
          /\ starts[i] \in {0, 1}
          /\ starts[i] = 1 => i \in DOMAIN containers
          /\ worker[i] \in {"create", "newTask", "startTask"} => starts[i] = 0

\* Of one that succeeded: nothing is left that could start it.
SingleDone(i) ==
    /\ worker[i] = "none"
    /\ i \in desired => Watched(i)
    /\ i \in jobs => starts[i] \in {0, 1}

Single(i) ==
    ~ restored =>
        /\ phase[i] \in Active => SingleActive(i)
        /\ phase[i] = "Succeeded" => SingleDone(i)

Sound(i) == Fresh(i) /\ Honest(i) /\ Followed(i) /\ Unforced(i) /\ Sparing(i) /\ Single(i)

Careful == TypeOK /\ Orderly /\ \A i \in ID : Sound(i)

--------------------------------------------------------------------------------
(* Frames *)

\* What a step leaves of an assignment it is not about.
Same(j) ==
    /\ phase'[j] = phase[j] /\ starts'[j] = starts[j]
    /\ worker'[j] = worker[j] /\ watcher'[j] = watcher[j]
    /\ (Watched(j)' <=> Watched(j)) /\ (Watched(j) => watching'[j] = watching[j])
    /\ (j \in DOMAIN containers' <=> j \in DOMAIN containers)
    /\ j \in DOMAIN containers => containers'[j] = containers[j]
    /\ (j \in signalled' <=> j \in signalled)
    /\ j \in finished => j \in finished'
    /\ (j \in yielded' <=> j \in yielded)
    /\ (j \in abandoned' <=> j \in abandoned)

\* Steps of goroutines and of containerd leave other assignments sound.
LEMMA SameIsSound ==
    ASSUME Careful, NEW j \in ID, Same(j), UNCHANGED <<mainVars, saved, jobs, restored>>
    PROVE  Sound(j)'
<1>1. UNCHANGED <<loop, desired, doomed, current, note, saved, jobs, restored>>
  BY DEF mainVars
<1>2. Sound(j)
  BY DEF Careful
<1>3. Fresh(j)'
  BY <1>1, <1>2 DEF Sound, Fresh, Same
<1>4. Honest(j)'
  BY <1>1, <1>2 DEF Sound, Honest, Unforced, Followed, Real, Same, TaskOf, Watched
<1>5. Unforced(j)' /\ Followed(j)'
  BY <1>1, <1>2 DEF Sound, Unforced, Followed, Same, TaskOf, Watched
<1>6. Sparing(j)'
  BY <1>1, <1>2 DEF Sound, Sparing, Marked, Same
<1>7. Single(j)'
  BY <1>1, <1>2 DEF Sound, Single, SingleActive, SingleDone, Same, Watched
<1>. QED BY <1>3, <1>4, <1>5, <1>6, <1>7 DEF Sound

--------------------------------------------------------------------------------
(* The goroutine of Start *)

\* Getting a container, a task and a process.
LEMMA RunSound ==
    ASSUME Careful, NEW i \in ID,
           LoadContainer(i) \/ CreateContainer(i) \/ PullFails(i) \/ NewTask(i) \/ StartTask(i)
           \/ Attach(i) \/ Subscribe(i) \/ RunFails(i)
    PROVE  Sound(i)'
<1>1. /\ UNCHANGED <<loop, desired, doomed, current, note, saved, jobs, restored, phase, watching,
                     finished, yielded, abandoned>>
      /\ signalled' \subseteq signalled
  BY DEF LoadContainer, CreateContainer, PullFails, NewTask, StartTask, Attach, Subscribe, RunFails,
         mainVars, lifecycleVars, runtimeVars, background, Fault
<1>2. Sound(i) /\ TypeOK
  BY DEF Careful
<1>3. worker[i] # "none"
  BY DEF LoadContainer, CreateContainer, PullFails, NewTask, StartTask, Attach, Subscribe, RunFails,
         WorkerTo
<1>. USE DEF Sound, Fresh, Honest, Unforced, Followed, Sparing, Single, SingleActive, SingleDone,
             Marked, Watched, TypeOK,
             WorkerTo, TaskOf, Real
<1>4. CASE LoadContainer(i)
  <2>1. /\ UNCHANGED <<containers, starts, signalled, watcher>>
        /\ worker[i] = "load"
        /\ IF i \in DOMAIN containers THEN worker'[i] = "attach" ELSE worker'[i] = "create"
    BY <1>2, <1>4 DEF LoadContainer, runtimeVars
  <2>2. Fresh(i)' /\ Sparing(i)'
    BY <1>1, <1>2, <1>3, <2>1
  <2>3. Honest(i)' /\ Unforced(i)'
    BY <1>1, <1>2, <2>1
  <2>4. Followed(i)'
    BY <1>1, <1>2, <2>1
  <2>5. Single(i)'
    BY <1>1, <1>2, <1>3, <2>1
  <2>. QED BY <2>2, <2>3, <2>4, <2>5
<1>5. CASE CreateContainer(i)
  BY <1>1, <1>2, <1>3, <1>5 DEF CreateContainer, Put
<1>6. CASE PullFails(i)
  BY <1>1, <1>2, <1>3, <1>6 DEF PullFails, runtimeVars
<1>7. CASE NewTask(i)
  BY <1>1, <1>2, <1>3, <1>7 DEF NewTask
<1>8. CASE StartTask(i)
  <2>1. /\ i \in DOMAIN containers /\ DOMAIN containers' = DOMAIN containers
        /\ containers'[i] = "running"
        /\ watcher'[i] = "waiting" /\ worker[i] = "startTask" /\ worker'[i] = "running"
        /\ starts'[i] = starts[i] + 1 /\ starts[i] \in Nat /\ i \notin signalled'
    BY <1>2, <1>8 DEF StartTask
  <2>2. Fresh(i)' /\ Honest(i)' /\ Unforced(i)' /\ Sparing(i)'
    BY <1>1, <1>2, <2>1
  <2>3. Followed(i)'
    BY <1>1, <1>2, <2>1
  <2>4. phase[i] \in Active /\ ~ restored /\ i \in jobs => starts'[i] = 1
    <3>. SUFFICES ASSUME phase[i] \in Active, ~ restored, i \in jobs PROVE starts'[i] = 1
      OBVIOUS
    <3>1. SingleActive(i)
      BY <1>2
    <3>2. starts[i] = 0
      BY <2>1, <3>1
    <3>. QED BY <2>1, <3>2
  <2>5. Single(i)'
    BY <1>1, <1>2, <2>1, <2>4
  <2>. QED BY <2>2, <2>3, <2>5
<1>9. CASE Attach(i)
  <2>1. /\ UNCHANGED <<containers, starts, signalled, watcher>>
        /\ worker[i] = "attach"
        /\ worker'[i] \in {"subscribe", "failed"} \/ (worker'[i] = "newTask" /\ i \notin jobs)
    BY <1>2, <1>9 DEF Attach, attachTask, runtimeVars
  <2>2. Fresh(i)' /\ Sparing(i)'
    BY <1>1, <1>2, <1>3, <2>1
  <2>3. Honest(i)' /\ Unforced(i)'
    BY <1>1, <1>2, <2>1
  <2>4. Followed(i)'
    BY <1>1, <1>2, <2>1
  <2>5. Single(i)'
    BY <1>1, <1>2, <1>3, <2>1
  <2>. QED BY <2>2, <2>3, <2>4, <2>5
<1>10. CASE RunFails(i)
  <2>1. /\ signalled' = signalled /\ worker'[i] = "failed" /\ watcher' = watcher /\ starts' = starts
        /\ worker[i] \in {"load", "create", "attach", "subscribe", "newTask", "startTask"}
        /\ DOMAIN containers' = DOMAIN containers
        /\ containers'[i] \in {containers[i], "none"}
    BY <1>2, <1>10 DEF RunFails
  <2>2. Followed(i)' /\ Honest(i)'
    BY <1>1, <1>2, <2>1
  <2>3. Fresh(i)' /\ Unforced(i)' /\ Sparing(i)'
    BY <1>1, <1>2, <2>1
  <2>4. Single(i)'
    BY <1>1, <1>2, <2>1
  <2>. QED BY <2>2, <2>3, <2>4
<1>11. CASE Subscribe(i)
  <2>1. /\ UNCHANGED <<containers, starts, signalled>>
        /\ worker[i] = "subscribe" /\ worker'[i] \in {"none", "running"}
        /\ watcher'[i] = "waiting" /\ i \in DOMAIN containers
    BY <1>2, <1>11 DEF Subscribe, Exited, runtimeVars
  <2>2. Fresh(i)' /\ Sparing(i)'
    BY <1>1, <1>2, <1>3, <2>1
  <2>3. Honest(i)' /\ Unforced(i)'
    BY <1>1, <1>2, <2>1
  <2>4. Followed(i)'
    BY <1>1, <1>2, <2>1
  <2>5. Single(i)'
    BY <1>1, <1>2, <1>3, <2>1
  <2>. QED BY <2>2, <2>3, <2>4, <2>5
<1>. QED BY <1>4, <1>5, <1>6, <1>7, <1>8, <1>9, <1>10, <1>11

\* Faults are counted up to their bound.
LEMMA FaultCounted ==
    ASSUME TypeOK, CountFault
    PROVE  faults' \in 0 .. MaxFaults
<1>1. faults \in 0 .. MaxFaults
  BY DEF TypeOK
<1>. QED BY <1>1, AgentAssumption DEF CountFault

\* What reportFor's critical section does to the watches.
LEMMA Remembered ==
    ASSUME TypeOK, NEW i \in ID, NEW reported \in Reportable, Remember(i, reported)
    PROVE  /\ DOMAIN watching' = DOMAIN watching
           /\ Watched(i) => watching'[i].phase = reported
           /\ \A j \in DOMAIN watching : watching'[j].stopping = watching[j].stopping
           /\ \A j \in DOMAIN watching \ {i} : watching'[j] = watching[j]
           /\ \A j \in DOMAIN watching' :
                 watching'[j] \in [phase : {""} \cup Reportable, stopping : BOOLEAN]
<1>1. CASE ~ Watched(i)
  BY <1>1 DEF Remember, Watched, TypeOK
<1>2. CASE Watched(i)
  <2>1. watching[i] \in [phase : {""} \cup Reportable, stopping : BOOLEAN]
    BY <1>2 DEF Watched, TypeOK
  <2>2. watching' = [watching EXCEPT ![i] = [watching[i] EXCEPT !.phase = reported]]
    BY <1>2 DEF Remember, Watched
  <2>. QED BY <1>2, <2>1, <2>2 DEF Watched, TypeOK
<1>. QED BY <1>1, <1>2

\* A report is applied to its assignment, if that is active, or is lost.
LEMMA DeliverSteps ==
    ASSUME Careful, NEW i \in ID, NEW reported, Deliver(i, reported)
    PROVE  /\ UNCHANGED <<known, saved, jobs, restored>>
           /\ \A j \in ID \ {i} : phase'[j] = phase[j]
           /\ phase'[i] = phase[i] \/ (phase[i] \in Active /\ phase'[i] = reported)
           /\ phase' \in [ID -> {Unassigned, Removed} \cup Active \cup Terminal \cup {reported}]
           /\ faults' \in 0 .. MaxFaults
<1>. USE DEF Careful, TypeOK
<1>1. CASE Report(i, reported) /\ UNCHANGED background
  <2>1. UNCHANGED <<known, saved, jobs, restored, faults>>
    BY <1>1 DEF Report, background
  <2>2. phase' = phase \/ (phase[i] \in Active /\ phase' = [phase EXCEPT ![i] = reported])
    BY <1>1 DEF Report
  <2>. QED BY <2>1, <2>2
<1>2. CASE Fault /\ UNCHANGED lifecycleVars
  <2>1. UNCHANGED <<known, phase, saved, jobs, restored>>
    BY <1>2 DEF Fault, lifecycleVars
  <2>2. faults' \in 0 .. MaxFaults
    BY <1>2, FaultCounted DEF Fault
  <2>. QED BY <2>1, <2>2
<1>. QED BY <1>1, <1>2 DEF Deliver

\* What a worker reports, and that it forgets the watch of a failed start.
LEMMA WorkerReportSound ==
    ASSUME Careful, NEW i \in ID, WorkerReports(i) \/ WorkerSends(i) \/ WorkerForgets(i)
    PROVE  Sound(i)'
<1>1. UNCHANGED <<loop, desired, doomed, current, note, saved, jobs, restored, watcher, containers,
                  starts, signalled, finished, yielded, abandoned>>
  BY DeliverSteps
     DEF WorkerReports, WorkerSends, WorkerForgets, Send, mainVars, lifecycleVars, runtimeVars,
         background
<1>2. Sound(i) /\ TypeOK
  BY DEF Careful
<1>. USE DEF Sound, Fresh, Honest, Unforced, Followed, Sparing, Single, SingleActive, SingleDone,
             Marked, Watched, TypeOK,
             WorkerTo, TaskOf, Real
<1>3. CASE WorkerReports(i)
  <2>1. phase' = phase
    BY <1>3 DEF WorkerReports, lifecycleVars
  <2>2. worker[i] \in {"running", "failed"} /\ worker'[i] \in {"none", "sendRunning", "sendFailed", "forget"}
    BY <1>2, <1>3 DEF WorkerReports
  <2>3. /\ worker[i] = "running" => worker'[i] \in {"none", "sendRunning"}
        /\ worker[i] = "running" /\ Watched(i) => watching'[i].phase = "Running"
        /\ worker[i] = "failed" /\ Watched(i) => watching'[i].phase = "Failed"
        /\ DOMAIN watching' = DOMAIN watching
        /\ Watched(i) => watching'[i].stopping = watching[i].stopping
    <3>1. \/ worker[i] = "running" /\ worker'[i] \in {"none", "sendRunning"} /\ Remember(i, "Running")
          \/ worker[i] = "failed" /\ Remember(i, "Failed")
      BY <1>2, <1>3 DEF WorkerReports
    <3>2. "Running" \in Reportable /\ "Failed" \in Reportable
      BY DEF Reportable
    <3>3. CASE Remember(i, "Running") /\ worker[i] = "running"
      BY <1>2, <3>1, <3>2, <3>3, Remembered
    <3>4. CASE Remember(i, "Failed") /\ worker[i] = "failed"
      BY <1>2, <3>1, <3>2, <3>4, Remembered
    <3>. QED BY <3>1, <3>3, <3>4
  <2>4. Fresh(i)' /\ Honest(i)' /\ Unforced(i)' /\ Sparing(i)'
    BY <1>1, <1>2, <2>1, <2>2, <2>3
  <2>5. Single(i)'
    BY <1>1, <1>2, <2>1, <2>2, <2>3
  <2>6. Followed(i)'
    BY <1>1, <1>2, <2>3
  <2>. QED BY <2>4, <2>5, <2>6
<1>4. CASE WorkerSends(i)
  <2>1. watching' = watching /\ worker[i] # "none"
    BY <1>4 DEF WorkerSends
  <2>2. CASE worker[i] = "sendRunning"
    <3>1. Deliver(i, "Running") /\ worker'[i] = "none"
      BY <1>2, <1>4, <2>2 DEF WorkerSends, Send
    <3>2. phase'[i] = phase[i] \/ (phase[i] \in Active /\ phase'[i] = "Running")
      BY <3>1, DeliverSteps
    <3>3. Followed(i)'
      BY <1>1, <1>2, <2>1, <2>2, <3>1, <3>2 DEF Active, Unassigned
    <3>4. Fresh(i)' /\ Honest(i)' /\ Unforced(i)' /\ Sparing(i)'
      BY <1>1, <1>2, <2>1, <2>2, <3>1, <3>2 DEF Active, Unassigned
    <3>5. Single(i)'
      BY <1>1, <1>2, <2>1, <2>2, <3>1, <3>2 DEF Active, Unassigned
    <3>. QED BY <3>3, <3>4, <3>5
  <2>3. CASE worker[i] = "sendFailed"
    <3>1. Deliver(i, "Failed") /\ worker'[i] = "forget"
      BY <1>2, <1>4, <2>3 DEF WorkerSends, Send
    <3>2. phase'[i] = phase[i] \/ (phase[i] \in Active /\ phase'[i] = "Failed")
      BY <3>1, DeliverSteps
    <3>3. Followed(i)'
      BY <1>1, <1>2, <2>1, <2>3, <3>1, <3>2 DEF Active, Unassigned
    <3>4. Fresh(i)' /\ Honest(i)' /\ Unforced(i)' /\ Sparing(i)'
      BY <1>1, <1>2, <2>1, <2>3, <3>1, <3>2 DEF Active, Unassigned
    <3>5. Single(i)'
      BY <1>1, <1>2, <2>1, <2>3, <3>1, <3>2 DEF Active, Unassigned
    <3>. QED BY <3>3, <3>4, <3>5
  <2>. QED BY <1>4, <2>2, <2>3 DEF WorkerSends
<1>5. CASE WorkerForgets(i)
  <2>1. /\ phase' = phase /\ worker[i] = "forget" /\ worker'[i] = "none"
        /\ ~ Watched(i)'
    BY <1>2, <1>5 DEF WorkerForgets, lifecycleVars, forget, Without, Restrict
  <2>. QED BY <1>1, <1>2, <2>1
<1>. QED BY <1>3, <1>4, <1>5

--------------------------------------------------------------------------------
(* watchExit and rewait *)

\* A watcher reports what the process did, after the worker is done.
LEMMA WatcherSound ==
    ASSUME Careful, NEW i \in ID, WatcherStep(i)
    PROVE  Sound(i)'
<1>1. UNCHANGED <<loop, desired, doomed, current, note, saved, jobs, restored, worker, containers,
                  starts, signalled, finished, yielded, abandoned>>
  BY DeliverSteps
     DEF WatcherStep, SeeExit, Rewait, WatcherReports, WatcherSends, Send, mainVars, lifecycleVars,
         runtimeVars, background
<1>2. Sound(i) /\ TypeOK
  BY DEF Careful
<1>. USE DEF Sound, Fresh, Honest, Unforced, Followed, Sparing, Single, SingleActive, SingleDone,
             Marked, Watched, TypeOK,
             WatcherTo, TaskOf, Real
<1>3. CASE SeeExit(i)
  <2>1. /\ watcher[i] = "waiting" /\ worker[i] = "none" /\ UNCHANGED <<phase, watching>>
        /\ watcher'[i] \in {"none", "Succeeded", "Failed"}
        /\ watcher'[i] = "Succeeded" => TaskOf(i) = "exit0" /\ i \in jobs
        /\ watcher'[i] # "none" => Watched(i) /\ watching[i].stopping # TRUE
    BY <1>2, <1>3 DEF SeeExit, InCharge, phaseOnExit, lifecycleVars
  <2>2. watcher'[i] = "Succeeded" => Real(i)
    BY <1>2, <2>1 DEF StopSteps
  <2>3. Followed(i)'
    BY <1>1, <1>2, <2>1, <2>2
  <2>4. Fresh(i)' /\ Honest(i)' /\ Unforced(i)' /\ Sparing(i)'
    BY <1>1, <1>2, <2>1, <2>2
  <2>5. Single(i)'
    BY <1>1, <1>2, <2>1, <2>2
  <2>. QED BY <2>3, <2>4, <2>5
<1>4. CASE Rewait(i)
  <2>1. /\ watcher[i] = "rewait" /\ worker[i] = "none" /\ UNCHANGED <<phase, watching>>
        /\ watcher'[i] \in {"none", "Failed", "waiting"}
        /\ watcher'[i] # "none" => Watched(i)
    BY <1>2, <1>4 DEF Rewait, InCharge, lifecycleVars
  <2>2. Followed(i)'
    BY <1>1, <1>2, <2>1
  <2>3. Fresh(i)' /\ Honest(i)' /\ Unforced(i)' /\ Sparing(i)'
    BY <1>1, <1>2, <2>1
  <2>4. Single(i)'
    BY <1>1, <1>2, <2>1
  <2>. QED BY <2>2, <2>3, <2>4
<1>5. CASE WatcherReports(i)
  <2>1. /\ watcher[i] \in {"Succeeded", "Failed"} /\ phase' = phase
        /\ Remember(i, watcher[i])
        /\ watcher'[i] \in {"none", "sendSucceeded", "sendFailed"}
        /\ watcher'[i] = "sendSucceeded" => watcher[i] = "Succeeded"
        /\ watcher'[i] # "none" => Watched(i)
    BY <1>2, <1>5 DEF WatcherReports, lifecycleVars
  <2>2. /\ DOMAIN watching' = DOMAIN watching
        /\ Watched(i) => watching'[i].phase = watcher[i]
        /\ Watched(i) => watching'[i].stopping = watching[i].stopping
    BY <1>2, <2>1, Remembered DEF Reportable
  <2>3. Followed(i)'
    BY <1>1, <1>2, <2>1, <2>2
  <2>4. Fresh(i)' /\ Honest(i)' /\ Unforced(i)' /\ Sparing(i)'
    BY <1>1, <1>2, <2>1, <2>2
  <2>5. Single(i)'
    BY <1>1, <1>2, <2>1, <2>2
  <2>. QED BY <2>3, <2>4, <2>5
<1>6. CASE WatcherSends(i)
  <2>1. watching' = watching /\ watcher'[i] = "none"
    BY <1>2, <1>6 DEF WatcherSends
  <2>2. CASE watcher[i] = "sendSucceeded"
    <3>1. phase'[i] = phase[i] \/ (phase[i] \in Active /\ phase'[i] = "Succeeded")
      BY <1>6, <2>2, DeliverSteps DEF WatcherSends, Send
    <3>2. Followed(i)'
      BY <1>1, <1>2, <2>1, <2>2, <3>1 DEF Active, Unassigned
    <3>3. Fresh(i)' /\ Honest(i)' /\ Unforced(i)' /\ Sparing(i)'
      BY <1>1, <1>2, <2>1, <2>2, <3>1 DEF Active, Unassigned
    <3>4. Single(i)'
      BY <1>1, <1>2, <2>1, <2>2, <3>1 DEF Active, Unassigned
    <3>. QED BY <3>2, <3>3, <3>4
  <2>3. CASE watcher[i] = "sendFailed"
    <3>1. phase'[i] = phase[i] \/ (phase[i] \in Active /\ phase'[i] = "Failed")
      BY <1>6, <2>3, DeliverSteps DEF WatcherSends, Send
    <3>2. Followed(i)'
      BY <1>1, <1>2, <2>1, <2>3, <3>1 DEF Active, Unassigned
    <3>3. Fresh(i)' /\ Honest(i)' /\ Unforced(i)' /\ Sparing(i)'
      BY <1>1, <1>2, <2>1, <2>3, <3>1 DEF Active, Unassigned
    <3>4. Single(i)'
      BY <1>1, <1>2, <2>1, <2>3, <3>1 DEF Active, Unassigned
    <3>. QED BY <3>2, <3>3, <3>4
  <2>. QED BY <1>6, <2>2, <2>3 DEF WatcherSends
<1>. QED BY <1>3, <1>4, <1>5, <1>6 DEF WatcherStep

--------------------------------------------------------------------------------
(* Goroutines together *)

\* Sending changes one phase and what is tracked.
LEMMA SendTyped ==
    ASSUME Careful, NEW i \in ID, NEW reported \in Reportable, Send(i, reported)
    PROVE  /\ phase' \in [ID -> {Unassigned, Removed} \cup Active \cup Terminal]
           /\ tracked' \subseteq ID /\ faults' \in 0 .. MaxFaults
           /\ UNCHANGED <<known, saved, jobs, restored>>
           /\ \A j \in ID \ {i} : phase'[j] = phase[j]
<1>1. Deliver(i, reported) /\ tracked' \subseteq ID
  BY DEF Send, untrackFinal, untrack, Careful, TypeOK
<1>2. reported \in Active \cup Terminal
  BY DEF Reportable, Active, Terminal
<1>3. {Unassigned, Removed} \cup Active \cup Terminal \cup {reported}
        = {Unassigned, Removed} \cup Active \cup Terminal
  BY <1>2
<1>. QED BY <1>1, <1>3, DeliverSteps

\* A step of a worker or a watcher keeps the types and leaves other assignments.
LEMMA GoroutineTyped ==
    ASSUME Careful, NEW i \in ID, WorkerStep(i) \/ WatcherStep(i)
    PROVE  /\ TypeOK' /\ UNCHANGED <<mainVars, saved, jobs, restored>>
           /\ \A j \in ID \ {i} : Same(j)
<1>. USE DEF Careful, Same, Watched
<1>1. CASE LoadContainer(i) \/ PullFails(i)
  <2>1. /\ UNCHANGED <<lifecycleVars, mainVars, tracked, watching, watcher, runtimeVars>>
        /\ UNCHANGED <<jobs, restored>> /\ faults' \in 0 .. MaxFaults
    BY <1>1, FaultCounted DEF LoadContainer, PullFails, Fault, background, TypeOK
  <2>2. worker' \in [ID -> WorkerSteps] /\ \A j \in ID \ {i} : worker'[j] = worker[j]
    BY <1>1 DEF LoadContainer, PullFails, WorkerTo, WorkerSteps, TypeOK
  <2>. QED BY <2>1, <2>2 DEF TypeOK, lifecycleVars, mainVars, runtimeVars
<1>2. CASE CreateContainer(i)
  <2>1. UNCHANGED <<lifecycleVars, mainVars, tracked, watching, watcher, containerd, starts, signalled,
                    finished, yielded, abandoned, background>>
    BY <1>2 DEF CreateContainer
  <2>2. worker' \in [ID -> WorkerSteps] /\ \A j \in ID \ {i} : worker'[j] = worker[j]
    BY <1>2 DEF CreateContainer, WorkerTo, WorkerSteps, TypeOK
  <2>3. /\ DOMAIN containers' = DOMAIN containers \cup {i} /\ containers'[i] = "none"
        /\ \A j \in DOMAIN containers \ {i} : containers'[j] = containers[j]
    BY <1>2 DEF CreateContainer, Put
  <2>4. DOMAIN containers' \subseteq ID /\ \A j \in DOMAIN containers' : containers'[j] \in TaskStates
    BY <2>3 DEF TypeOK, TaskStates
  <2>5. TypeOK'
    BY <2>1, <2>2, <2>4 DEF TypeOK, lifecycleVars, mainVars, background
  <2>. QED BY <2>1, <2>2, <2>3, <2>5 DEF lifecycleVars, background
<1>3. CASE NewTask(i)
  BY <1>3 DEF NewTask, WorkerTo, WorkerSteps, TaskStates, TypeOK, lifecycleVars, mainVars, background
<1>4. CASE StartTask(i)
  <2>1. /\ UNCHANGED <<lifecycleVars, mainVars, tracked, watching, containerd, finished, yielded, abandoned,
                       background>>
        /\ signalled' = signalled \ {i}
    BY <1>4 DEF StartTask
  <2>2. worker' \in [ID -> WorkerSteps] /\ \A j \in ID \ {i} : worker'[j] = worker[j]
    BY <1>4 DEF StartTask, WorkerTo, WorkerSteps, TypeOK
  <2>3. watcher' \in [ID -> WatcherSteps] /\ \A j \in ID \ {i} : watcher'[j] = watcher[j]
    BY <1>4 DEF StartTask, WatcherSteps, TypeOK
  <2>4. /\ starts' \in [ID -> Nat] /\ \A j \in ID \ {i} : starts'[j] = starts[j]
    <3>1. starts \in [ID -> Nat]
      BY DEF TypeOK
    <3>2. starts' = [starts EXCEPT ![i] = starts[i] + 1]
      BY <1>4 DEF StartTask
    <3>. QED BY <3>1, <3>2
  <2>5. /\ DOMAIN containers' = DOMAIN containers
        /\ \A j \in DOMAIN containers : containers'[j] \in {containers[j], "running"}
        /\ \A j \in DOMAIN containers \ {i} : containers'[j] = containers[j]
    BY <1>4 DEF StartTask
  <2>6. TypeOK'
    BY <2>1, <2>2, <2>3, <2>4, <2>5 DEF TypeOK, TaskStates, lifecycleVars, mainVars, background
  <2>. QED BY <2>1, <2>2, <2>3, <2>4, <2>5, <2>6 DEF lifecycleVars, background
<1>5. CASE Attach(i) \/ Subscribe(i)
  <2>1. UNCHANGED <<lifecycleVars, mainVars, tracked, watching, runtimeVars, background>>
    BY <1>5 DEF Attach, Subscribe
  <2>2. worker' \in [ID -> WorkerSteps] /\ \A j \in ID \ {i} : worker'[j] = worker[j]
    BY <1>5 DEF Attach, attachTask, Subscribe, WorkerTo, WorkerSteps, TypeOK
  <2>3. watcher' \in [ID -> WatcherSteps] /\ \A j \in ID \ {i} : watcher'[j] = watcher[j]
    BY <1>5 DEF Attach, Subscribe, WatcherSteps, TypeOK
  <2>. QED BY <2>1, <2>2, <2>3 DEF TypeOK, lifecycleVars, mainVars, runtimeVars, background
<1>6. CASE RunFails(i)
  BY <1>6 DEF RunFails, WorkerSteps, TaskStates, TypeOK, lifecycleVars, mainVars, background
<1>7. CASE WorkerReports(i)
  <2>1. UNCHANGED <<lifecycleVars, mainVars, tracked, watcher, runtimeVars, background>>
    BY <1>7 DEF WorkerReports
  <2>2. worker' \in [ID -> WorkerSteps] /\ \A j \in ID \ {i} : worker'[j] = worker[j]
    BY <1>7 DEF WorkerReports, WorkerTo, WorkerSteps, TypeOK
  <2>3. \E reported \in Reportable : Remember(i, reported)
    BY <1>7 DEF WorkerReports, Reportable
  <2>. QED BY <2>1, <2>2, <2>3, Remembered DEF TypeOK, lifecycleVars, mainVars, runtimeVars, background
<1>8. CASE WorkerSends(i)
  <2>1. UNCHANGED <<mainVars, watching, watcher, runtimeVars>>
    BY <1>8 DEF WorkerSends
  <2>2. worker' \in [ID -> WorkerSteps] /\ \A j \in ID \ {i} : worker'[j] = worker[j]
    BY <1>8 DEF WorkerSends, WorkerTo, WorkerSteps, TypeOK
  <2>3. \E reported \in Reportable : Send(i, reported)
    BY <1>8 DEF WorkerSends, Reportable
  <2>. QED BY <2>1, <2>2, <2>3, SendTyped DEF TypeOK, mainVars, runtimeVars
<1>9. CASE WorkerForgets(i)
  <2>1. UNCHANGED <<lifecycleVars, mainVars, tracked, watcher, runtimeVars, background>>
    BY <1>9 DEF WorkerForgets
  <2>2. worker' \in [ID -> WorkerSteps] /\ \A j \in ID \ {i} : worker'[j] = worker[j]
    BY <1>9 DEF WorkerForgets, WorkerTo, WorkerSteps, TypeOK
  <2>3. /\ DOMAIN watching' = DOMAIN watching \ {i}
        /\ \A j \in DOMAIN watching \ {i} : watching'[j] = watching[j]
    BY <1>9 DEF WorkerForgets, forget, Without, Restrict
  <2>4. TypeOK'
    BY <2>1, <2>2, <2>3 DEF TypeOK, lifecycleVars, mainVars, runtimeVars, background
  <2>. QED BY <2>1, <2>2, <2>3, <2>4 DEF lifecycleVars, runtimeVars, background
<1>10. CASE SeeExit(i) \/ Rewait(i)
  <2>1. UNCHANGED <<lifecycleVars, mainVars, tracked, watching, worker, runtimeVars, background>>
    BY <1>10 DEF SeeExit, Rewait
  <2>2. watcher' \in [ID -> WatcherSteps] /\ \A j \in ID \ {i} : watcher'[j] = watcher[j]
    BY <1>10 DEF SeeExit, Rewait, phaseOnExit, WatcherTo, WatcherSteps, TypeOK
  <2>. QED BY <2>1, <2>2 DEF TypeOK, lifecycleVars, mainVars, runtimeVars, background
<1>11. CASE WatcherReports(i)
  <2>1. UNCHANGED <<lifecycleVars, mainVars, tracked, worker, runtimeVars, background>>
    BY <1>11 DEF WatcherReports
  <2>2. watcher' \in [ID -> WatcherSteps] /\ \A j \in ID \ {i} : watcher'[j] = watcher[j]
    BY <1>11 DEF WatcherReports, WatcherTo, WatcherSteps, TypeOK
  <2>3. \E reported \in Reportable : Remember(i, reported)
    BY <1>11 DEF WatcherReports, Reportable
  <2>. QED BY <2>1, <2>2, <2>3, Remembered DEF TypeOK, lifecycleVars, mainVars, runtimeVars, background
<1>12. CASE WatcherSends(i)
  <2>1. UNCHANGED <<mainVars, watching, worker, runtimeVars>>
    BY <1>12 DEF WatcherSends
  <2>2. watcher' \in [ID -> WatcherSteps] /\ \A j \in ID \ {i} : watcher'[j] = watcher[j]
    BY <1>12 DEF WatcherSends, WatcherTo, WatcherSteps, TypeOK
  <2>3. \E reported \in Reportable : Send(i, reported)
    BY <1>12 DEF WatcherSends, Reportable
  <2>. QED BY <2>1, <2>2, <2>3, SendTyped DEF TypeOK, mainVars, runtimeVars
<1>. QED BY <1>1, <1>2, <1>3, <1>4, <1>5, <1>6, <1>7, <1>8, <1>9, <1>10, <1>11, <1>12
         DEF WorkerStep, WatcherStep

\* Workers and watchers keep the invariant.
LEMMA GoroutineCareful ==
    ASSUME Careful, NEW i \in ID, WorkerStep(i) \/ WatcherStep(i)
    PROVE  Careful'
<1>1. TypeOK' /\ UNCHANGED <<mainVars, saved, jobs, restored>> /\ \A j \in ID \ {i} : Same(j)
  BY GoroutineTyped
<1>2. Orderly'
  BY <1>1 DEF Careful, Orderly, mainVars
<1>3. Sound(i)'
  BY RunSound, WorkerReportSound, WatcherSound DEF WorkerStep
<1>. QED BY <1>1, <1>2, <1>3, SameIsSound DEF Careful

--------------------------------------------------------------------------------
(* The main goroutine *)

\* Polling: what is listed is what is active, what is found and not listed is not.
LEMMA PollCareful ==
    ASSUME Careful, Boot \/ FetchAssignments \/ List \/ StopsDone \/ SyncDone
    PROVE  Careful'
<1>1. /\ UNCHANGED <<phase, saved, tracked, watching, worker, watcher, containers, containerd, starts,
                      signalled, finished, yielded, abandoned, jobs, restored, faults, current, note, held>>
      /\ known' \subseteq NodeID
  BY AgentAssumption
     DEF Boot, FetchAssignments, List, StopsDone, SyncDone, Register, lifecycleVars, runtimeVars,
         background, Careful, TypeOK
<1>2. TypeOK /\ Orderly /\ \A i \in ID : Sound(i)
  BY DEF Careful
<1>3. loop \notin StopSteps \cup {"repeat"} /\ loop' \notin StopSteps \cup {"repeat"}
  BY DEF Boot, FetchAssignments, List, StopsDone, SyncDone, StopSteps
<1>4. current = {}
  BY <1>2, <1>3 DEF TypeOK
<1>5. TypeOK'
  <2>1. desired' \subseteq ID /\ doomed' \subseteq ID /\ loop' \in MainSteps
    BY <1>2 DEF TypeOK, Boot, FetchAssignments, List, StopsDone, SyncDone, fetched, unwanted,
                heldByRuntime, MainSteps
  <2>. QED BY <1>1, <1>2, <1>3, <2>1 DEF TypeOK
<1>6. Orderly'
  BY <1>1, <1>2, <1>3 DEF Orderly, Boot, FetchAssignments, List, StopsDone, SyncDone, StopSteps
<1>7. ASSUME NEW i \in ID PROVE Sound(i)'
  <2>1. Sound(i)
    BY <1>2
  <2>2. Honest(i)' /\ Unforced(i)'
    BY <1>1, <1>3, <2>1 DEF Sound, Honest, Unforced, Real, Watched, TaskOf
  <2>3. Followed(i)'
    BY <1>1, <1>3, <1>4, <2>1 DEF Sound, Followed, Watched, TaskOf, StopSteps
  <2>4. Fresh(i)'
    BY <1>1, <1>4, <2>1 DEF Sound, Fresh, Watched, Boot, FetchAssignments, fetched, List, unwanted,
                            heldByRuntime, StopsDone, SyncDone, Active, Unassigned
  <2>5. Single(i)'
    <3>1. phase[i] = "Succeeded" /\ i \in desired' => i \in desired
      BY DEF Boot, FetchAssignments, fetched, List, StopsDone, SyncDone, Active
    <3>. QED BY <1>1, <1>3, <2>1, <3>1 DEF Sound, Single, SingleActive, SingleDone, Watched
  <2>6. Sparing(i)'
    <3>1. CASE Boot \/ StopsDone \/ SyncDone
      BY <1>1, <1>3, <2>1, <3>1 DEF Sound, Sparing, Marked, Boot, StopsDone, SyncDone
    <3>2. CASE FetchAssignments
      BY <1>1, <1>2, <1>3, <2>1, <3>2 DEF Sparing, Marked, Orderly, FetchAssignments, fetched, StopSteps
    <3>3. CASE List
      BY <1>1, <1>2, <1>3, <2>1, <3>3
         DEF Sound, Sparing, Marked, Orderly, List, unwanted, heldByRuntime, StopSteps
    <3>. QED BY <3>1, <3>2, <3>3
  <2>. QED BY <2>2, <2>3, <2>4, <2>5, <2>6 DEF Sound
<1>. QED BY <1>5, <1>6, <1>7 DEF Careful

\* What Stop works on: one assignment, marked, and in no other list.
LEMMA Stopping ==
    ASSUME Careful, loop \in StopSteps, NEW i \in current
    PROVE  /\ i \in ID /\ current = {i} /\ loop # "repeat" /\ loop # "list" /\ loop # "stop"
           /\ Marked(i) /\ i \notin desired
           /\ ~ restored => phase[i] \notin Active
           /\ phase[i] # Unassigned
<1>1. i \in ID /\ current = {i}
  <2>1. PICK k \in ID : current = {k}
    BY DEF Careful, TypeOK
  <2>. QED BY <2>1
<1>2. Marked(i)
  BY DEF Marked
<1>3. Sound(i)
  BY <1>1 DEF Careful
<1>4. i \notin desired /\ (~ restored => phase[i] \notin Active) /\ phase[i] # Unassigned
  BY <1>2, <1>3 DEF Sound, Sparing, Fresh
<1>. QED BY <1>1, <1>2, <1>4 DEF StopSteps

\* Stop's end: the watch and the lists are those of an assignment that is not active.
LEMMA StopReturnsSteps ==
    ASSUME Careful, NEW i \in ID, NEW ok \in BOOLEAN, StopReturns(i, ok)
    PROVE  /\ loop' = "stop" /\ current' = {} /\ note' = "" /\ held' = FALSE
           /\ tracked' \subseteq ID
           /\ DOMAIN watching' = DOMAIN watching \ {i}
           /\ \A j \in DOMAIN watching \ {i} : watching'[j] = watching[j]
BY DEF StopReturns, forget, Without, Restrict, untrack, Careful, TypeOK

\* Stop is entered for an assignment that is marked.
LEMMA StopCareful ==
    ASSUME Careful, NEW i \in ID, Stop(i)
    PROVE  Careful'
<1>1. /\ UNCHANGED <<known, phase, saved, desired, note, tracked, worker, watcher, containers, containerd,
                      starts, signalled, finished, yielded, abandoned, jobs, restored, faults>>
      /\ loop = "stop" /\ loop' = "kill" /\ i \in doomed /\ doomed' = doomed \ {i} /\ current' = {i}
      /\ held' \in BOOLEAN
  BY DEF Stop, lifecycleVars, runtimeVars, background
<1>2. TypeOK /\ Orderly /\ \A j \in ID : Sound(j)
  BY DEF Careful
<1>3. /\ DOMAIN watching' = DOMAIN watching
      /\ \A j \in DOMAIN watching : /\ watching'[j].phase = watching[j].phase
                                    /\ watching'[j] \in [phase : {""} \cup Reportable, stopping : BOOLEAN]
      /\ Watched(i)' => watching'[i].stopping = TRUE
  <2>1. \A j \in DOMAIN watching : watching[j] \in [phase : {""} \cup Reportable, stopping : BOOLEAN]
    BY <1>2 DEF TypeOK
  <2>2. CASE i \notin DOMAIN watching
    BY <2>1, <2>2 DEF Stop, Watched
  <2>3. CASE i \in DOMAIN watching
    <3>1. watching' = [watching EXCEPT ![i] = [watching[i] EXCEPT !.stopping = TRUE]]
      BY <2>3 DEF Stop
    <3>. QED BY <2>1, <2>3, <3>1 DEF Watched
  <2>. QED BY <2>2, <2>3
<1>4. TypeOK'
  <2>1. \A j \in DOMAIN watching' : watching'[j] \in [phase : {""} \cup Reportable, stopping : BOOLEAN]
    BY <1>3
  <2>. QED BY <1>1, <1>2, <1>3, <2>1 DEF TypeOK, StopSteps, MainSteps
<1>5. Orderly'
  BY <1>1, <1>2 DEF Orderly, StopSteps
<1>6. ASSUME NEW j \in ID PROVE Sound(j)'
  <2>1. Sound(j)
    BY <1>2
  <2>2. Marked(j)' => Marked(j)
    BY <1>1 DEF Marked
  <2>3. Honest(j)' /\ Unforced(j)' /\ Fresh(j)'
    BY <1>1, <1>3, <2>1 DEF Sound, Honest, Unforced, Fresh, Real, Watched, TaskOf
  <2>4. Followed(j)'
    BY <1>1, <1>3, <2>1 DEF Sound, Followed, Watched, TaskOf
  <2>5. Sparing(j)'
    BY <1>1, <2>1, <2>2 DEF Sound, Sparing
  <2>6. Single(j)'
    BY <1>1, <1>3, <2>1 DEF Sound, Single, SingleActive, SingleDone, Watched
  <2>. QED BY <2>3, <2>4, <2>5, <2>6 DEF Sound
<1>. QED BY <1>4, <1>5, <1>6 DEF Careful

\* killTask: the process of the marked assignment is told to stop, made to, and
\* its task goes.
LEMMA KillCareful ==
    ASSUME Careful, NEW i \in ID, Kill(i) \/ KillHard(i) \/ Waited(i) \/ Reap(i)
    PROVE  Careful'
<1>1. /\ UNCHANGED <<known, phase, saved, desired, doomed, current, held, tracked, watching, worker,
                      watcher, containerd, starts, finished, yielded, abandoned, jobs, restored, faults>>
      /\ loop \in StopSteps /\ loop' \in StopSteps /\ i \in current
      /\ note' \in {note, "cut"} /\ signalled' \subseteq signalled \cup {i}
  BY DEF Kill, KillHard, Waited, Reap, lifecycleVars, mainVars, runtimeVars, background, StopSteps
<1>2. TypeOK /\ Orderly /\ \A j \in ID : Sound(j)
  BY DEF Careful
<1>3. /\ DOMAIN containers' = DOMAIN containers
      /\ \A j \in DOMAIN containers : containers'[j] \in {containers[j], "none", "exit1"}
  BY DEF Kill, KillHard, Waited, Reap, runtimeVars
<1>4. TypeOK'
  BY <1>1, <1>2, <1>3 DEF TypeOK, MainSteps, TaskStates
<1>5. Orderly'
  BY <1>1, <1>2 DEF Orderly, StopSteps
<1>6. (~ restored => phase[i] \notin Active) /\ phase[i] # Unassigned /\ current = {i}
  BY <1>1, Stopping
<1>7. \A j \in ID : j \in DOMAIN containers /\ containers'[j] = "exit0" =>
          containers[j] = "exit0" /\ (j \in signalled => j \in signalled')
  BY <1>3 DEF Kill, KillHard, Waited, Reap, runtimeVars
<1>8. ASSUME NEW j \in ID PROVE Sound(j)'
  <2>1. Sound(j) /\ loop # "repeat" /\ loop' # "repeat" /\ loop # "list" /\ loop' # "list"
    BY <1>1, <1>2 DEF StopSteps
  <2>2. Honest(j)' /\ Unforced(j)' /\ Fresh(j)'
    BY <1>1, <1>3, <1>6, <1>7, <2>1 DEF Sound, Honest, Unforced, Fresh, Real, Watched, TaskOf
  <2>3. Followed(j)'
    <3>1. CASE Kill(i)
      BY <1>1, <1>6, <2>1, <3>1 DEF Kill, Sound, Followed, Watched, TaskOf
    <3>2. CASE KillHard(i)
      BY <1>1, <1>6, <2>1, <3>2 DEF KillHard, mainVars, Sound, Followed, Watched, TaskOf
    <3>3. CASE Waited(i)
      BY <1>1, <1>6, <2>1, <3>3 DEF Waited, runtimeVars, Sound, Followed, Watched, TaskOf
    <3>4. CASE Reap(i)
      BY <1>1, <1>6, <2>1, <3>4 DEF Reap, Sound, Followed, Watched, TaskOf
    <3>. QED BY <3>1, <3>2, <3>3, <3>4
  <2>4. Sparing(j)'
    BY <1>1, <2>1 DEF Sound, Sparing, Marked
  <2>5. Single(j)'
    BY <1>1, <1>3, <2>1 DEF Sound, Single, SingleActive, SingleDone, Watched
  <2>. QED BY <2>2, <2>3, <2>4, <2>5 DEF Sound
<1>. QED BY <1>4, <1>5, <1>8 DEF Careful

\* When Stop goes on or returns, the watch and the container of an assignment that
\* is not active may be gone.
LEMMA StopSound ==
    ASSUME Careful, loop \in StopSteps, NEW i \in current,
           UNCHANGED <<saved, desired, doomed, worker, watcher, starts, signalled, finished, yielded,
                       jobs, restored>>,
           abandoned \subseteq abandoned',
           loop \notin {"wait", "reap"} \/ current \cap signalled \subseteq abandoned',
           \/ loop' = "stop" /\ current' = {}
           \/ loop' = "reportStopped" /\ current' = current,
           DOMAIN watching' \in {DOMAIN watching, DOMAIN watching \ {i}},
           \A j \in DOMAIN watching' : watching'[j] = watching[j],
           DOMAIN containers' \in {DOMAIN containers, DOMAIN containers \ {i}},
           \A j \in DOMAIN containers' : containers'[j] = containers[j],
           \A j \in ID \ {i} : phase'[j] = phase[j],
           phase'[i] = phase[i] \/ (phase[i] \in Active /\ phase'[i] = "Stopped")
    PROVE  Orderly' /\ \A j \in ID : Sound(j)'
<1>1. /\ i \in ID /\ current = {i} /\ loop # "repeat" /\ loop # "list" /\ loop # "stop"
      /\ Marked(i) /\ i \notin desired
      /\ ~ restored => phase[i] \notin Active
      /\ phase[i] # Unassigned
  BY Stopping
<1>2. Orderly'
  BY DEF Careful, Orderly, StopSteps
<1>3. ASSUME NEW j \in ID PROVE Sound(j)'
  <2>1. Sound(j) /\ loop' # "repeat" /\ loop' # "list"
    BY DEF Careful
  <2>2. Marked(j)' => Marked(j)
    BY DEF Marked, StopSteps
  <2>3. phase'[j] = phase[j] \/ (j = i /\ restored /\ phase'[j] = "Stopped")
    BY <1>1
  <2>4. Honest(j)' /\ Unforced(j)'
    BY <2>1, <2>3 DEF Sound, Honest, Unforced, Real, Watched, TaskOf
  <2>5. Followed(j)'
    BY <2>1 DEF Sound, Followed, Watched, TaskOf
  <2>6. Honest(j)' /\ Unforced(j)' /\ Followed(j)'
    BY <2>4, <2>5
  <2>7. Fresh(j)'
    BY <1>1, <2>1, <2>3 DEF Sound, Fresh, Watched, Unassigned
  <2>8. Sparing(j)'
    BY <2>1, <2>2, <2>3 DEF Sound, Sparing
  <2>9. CASE j = i
    <3>1. ~ restored => phase'[i] = phase[i] /\ phase[i] \notin Active
      BY <1>1, <2>3, <2>9
    <3>2. Single(i)'
      BY <1>1, <2>1, <2>9, <3>1 DEF Sound, Single, SingleDone
    <3>. QED BY <2>6, <2>7, <2>8, <2>9, <3>2 DEF Sound
  <2>10. CASE j # i
    <3>1. Single(j)'
      BY <1>1, <2>1, <2>3, <2>10 DEF Sound, Single, SingleActive, SingleDone, Watched
    <3>. QED BY <2>6, <2>7, <2>8, <3>1 DEF Sound
  <2>. QED BY <2>9, <2>10
<1>. QED BY <1>2, <1>3

\* The ways in which Stop goes on after the task and returns.
LEMMA StopEndsCareful ==
    ASSUME Careful, NEW i \in ID, StopFails(i) \/ DeleteContainer(i) \/ ReportStopped(i)
    PROVE  Careful'
<1>1. /\ loop \in StopSteps /\ i \in current
      /\ UNCHANGED <<desired, doomed, worker, watcher, containerd, starts, signalled, finished, yielded>>
  BY DEF StopFails, DeleteContainer, ReportStopped, StopSteps, runtimeVars
<1>2. TypeOK
  BY DEF Careful
<1>3. /\ abandoned \subseteq abandoned' /\ abandoned' \subseteq ID
      /\ loop \notin {"wait", "reap"} \/ current \cap signalled \subseteq abandoned'
  BY <1>2 DEF StopFails, DeleteContainer, ReportStopped, Abandons, runtimeVars, TypeOK
<1>4. CASE StopFails(i)
  <2>1. UNCHANGED <<known, phase, saved, containers, jobs, restored, faults>> /\ StopReturns(i, FALSE)
    BY <1>4 DEF StopFails, lifecycleVars, runtimeVars, background
  <2>2. /\ loop' = "stop" /\ current' = {} /\ note' = "" /\ held' = FALSE /\ tracked' \subseteq ID
        /\ DOMAIN watching' = DOMAIN watching \ {i}
        /\ \A j \in DOMAIN watching \ {i} : watching'[j] = watching[j]
    BY <2>1, StopReturnsSteps
  <2>3. TypeOK'
    BY <1>1, <1>2, <1>3, <2>1, <2>2 DEF TypeOK, MainSteps, StopSteps
  <2>. QED BY <1>1, <1>3, <2>1, <2>2, <2>3, StopSound DEF Careful
<1>5. CASE DeleteContainer(i)
  <2>1. /\ UNCHANGED <<known, phase, saved, jobs, restored, faults>>
        /\ DOMAIN containers' = DOMAIN containers \ {i}
        /\ \A j \in DOMAIN containers \ {i} : containers'[j] = containers[j]
    BY <1>5 DEF DeleteContainer, lifecycleVars, background, Without, Restrict
  <2>2. CASE loop' = "reportStopped" /\ UNCHANGED <<current, note, held, tracked, watching>>
    <3>1. TypeOK'
      BY <1>1, <1>2, <1>3, <2>1, <2>2 DEF TypeOK, MainSteps, StopSteps
    <3>. QED BY <1>1, <1>3, <2>1, <2>2, <3>1, StopSound DEF Careful
  <2>3. CASE StopReturns(i, TRUE)
    <3>1. /\ loop' = "stop" /\ current' = {} /\ note' = "" /\ held' = FALSE /\ tracked' \subseteq ID
          /\ DOMAIN watching' = DOMAIN watching \ {i}
          /\ \A j \in DOMAIN watching \ {i} : watching'[j] = watching[j]
      BY <2>3, StopReturnsSteps
    <3>2. TypeOK'
      BY <1>1, <1>2, <1>3, <2>1, <3>1 DEF TypeOK, MainSteps, StopSteps
    <3>. QED BY <1>1, <1>3, <2>1, <3>1, <3>2, StopSound DEF Careful
  <2>. QED BY <1>5, <2>2, <2>3 DEF DeleteContainer
<1>6. CASE ReportStopped(i)
  <2>1. containers' = containers /\ Deliver(i, "Stopped") /\ StopReturns(i, TRUE)
    BY <1>6 DEF ReportStopped, runtimeVars
  <2>2. /\ loop' = "stop" /\ current' = {} /\ note' = "" /\ held' = FALSE /\ tracked' \subseteq ID
        /\ DOMAIN watching' = DOMAIN watching \ {i}
        /\ \A j \in DOMAIN watching \ {i} : watching'[j] = watching[j]
    BY <2>1, StopReturnsSteps
  <2>3. /\ UNCHANGED <<known, saved, jobs, restored>> /\ faults' \in 0 .. MaxFaults
        /\ \A j \in ID \ {i} : phase'[j] = phase[j]
        /\ phase'[i] = phase[i] \/ (phase[i] \in Active /\ phase'[i] = "Stopped")
        /\ phase' \in [ID -> {Unassigned, Removed} \cup Active \cup Terminal \cup {"Stopped"}]
    BY <2>1, DeliverSteps
  <2>4. phase' \in [ID -> {Unassigned, Removed} \cup Active \cup Terminal]
    <3>1. {Unassigned, Removed} \cup Active \cup Terminal \cup {"Stopped"}
            = {Unassigned, Removed} \cup Active \cup Terminal
      BY DEF Terminal
    <3>. QED BY <2>3, <3>1
  <2>5. TypeOK'
    BY <1>1, <1>2, <1>3, <2>1, <2>2, <2>3, <2>4 DEF TypeOK, MainSteps, StopSteps
  <2>. QED BY <1>1, <1>3, <2>1, <2>2, <2>3, <2>5, StopSound DEF Careful
<1>. QED BY <1>4, <1>5, <1>6

\* Start begins a goroutine only where none can be left.
LEMMA StartCareful ==
    ASSUME Careful, NEW i \in ID, Start(i)
    PROVE  Careful'
<1>1. /\ UNCHANGED <<known, phase, saved, doomed, held, watcher, containers, containerd, starts,
                      signalled, finished, yielded, abandoned, jobs, restored, faults>>
      /\ loop = "start" /\ i \in desired /\ desired' = desired \ {i} /\ tracked' = tracked \cup {i}
  BY DEF Start, track, lifecycleVars, runtimeVars, background
<1>2. TypeOK /\ Orderly /\ \A j \in ID : Sound(j)
  BY DEF Careful
<1>3. current = {} /\ doomed = {} /\ phase[i] # Unassigned
  BY <1>1, <1>2 DEF TypeOK, Orderly, StopSteps, Sound, Fresh
<1>4. CASE UNCHANGED <<loop, current, note, watching, worker>>
  <2>1. TypeOK' /\ Orderly'
    BY <1>1, <1>2, <1>4 DEF TypeOK, Orderly
  <2>2. ASSUME NEW j \in ID PROVE Sound(j)'
    BY <1>1, <1>2, <1>3, <1>4
       DEF Sound, Fresh, Honest, Unforced, Followed, Sparing, Single, SingleActive, SingleDone, Marked,
           Watched, Real,
           TaskOf, StopSteps
  <2>. QED BY <2>1, <2>2 DEF Careful
<1>5. CASE /\ i \in DOMAIN watching /\ watching[i].phase # ""
           /\ current' = {i} /\ note' = watching[i].phase /\ loop' = "repeat"
           /\ UNCHANGED <<watching, worker>>
  <2>1. note' \in Reportable
    BY <1>2, <1>5 DEF TypeOK
  <2>2. TypeOK' /\ Orderly'
    BY <1>1, <1>2, <1>3, <1>5, <2>1 DEF TypeOK, Orderly, MainSteps, StopSteps
  <2>3. ASSUME NEW j \in ID PROVE Sound(j)'
    <3>1. Sound(j)
      BY <1>2
    <3>2. Fresh(j)' /\ Honest(j)' /\ Unforced(j)' /\ Followed(j)' /\ Sparing(j)'
      BY <1>1, <1>3, <1>5, <3>1
         DEF Sound, Fresh, Honest, Unforced, Followed, Sparing, Marked, Watched, Real, TaskOf, StopSteps
    <3>3. Single(j)'
      BY <1>1, <1>5, <3>1 DEF Sound, Single, SingleActive, SingleDone, Watched
    <3>. QED BY <3>2, <3>3 DEF Sound
  <2>. QED BY <2>2, <2>3 DEF Careful
<1>6. CASE /\ i \notin DOMAIN watching
           /\ watching' = Put(watching, i, [phase |-> "", stopping |-> FALSE])
           /\ worker' = [worker EXCEPT ![i] = "load"]
           /\ UNCHANGED <<loop, current, note>>
  <2>1. /\ DOMAIN watching' = DOMAIN watching \cup {i} /\ watching'[i] = [phase |-> "", stopping |-> FALSE]
        /\ \A j \in DOMAIN watching : watching'[j] = watching[j]
    BY <1>6 DEF Put
  <2>2. worker' \in [ID -> WorkerSteps] /\ worker'[i] = "load" /\ \A j \in ID \ {i} : worker'[j] = worker[j]
    BY <1>2, <1>6 DEF TypeOK, WorkerSteps
  <2>3. TypeOK' /\ Orderly'
    <3>1. DOMAIN watching' \subseteq ID
      BY <1>2, <2>1 DEF TypeOK
    <3>2. [phase |-> "", stopping |-> FALSE] \in [phase : {""} \cup Reportable, stopping : BOOLEAN]
      OBVIOUS
    <3>3. \A j \in DOMAIN watching' :
             watching'[j] \in [phase : {""} \cup Reportable, stopping : BOOLEAN]
      BY <1>2, <2>1, <3>2 DEF TypeOK
    <3>. QED BY <1>1, <1>2, <1>6, <2>2, <3>1, <3>3 DEF TypeOK, Orderly
  <2>4. ASSUME NEW j \in ID, j # i PROVE Sound(j)'
    BY <1>1, <1>2, <1>3, <1>6, <2>1, <2>2, <2>4
       DEF Sound, Fresh, Honest, Unforced, Followed, Sparing, Single, SingleActive, SingleDone, Marked,
           Watched, Real,
           TaskOf, StopSteps
  <2>5. Sound(i)'
    <3>1. Sound(i) /\ ~ Watched(i)
      BY <1>2, <1>6 DEF Watched
    <3>2. Watched(i)'
      BY <2>1 DEF Watched
    <3>d. watching'[i].phase = ""
      <4>1. watching'[i] = [phase |-> "", stopping |-> FALSE]
        BY <2>1
      <4>2. \A b : [phase |-> "", stopping |-> b].phase = ""
        OBVIOUS
      <4>. QED BY <4>1, <4>2
    <3>3. loop' = "start" /\ doomed' = {} /\ current' = {}
      BY <1>1, <1>3, <1>6
    <3>4. /\ Sound(i) /\ ~ Watched(i) /\ Watched(i)' /\ watching'[i].phase = ""
          /\ loop' = "start" /\ doomed' = {} /\ current' = {}
      BY <3>1, <3>2, <3>d, <3>3
    <3>5. Fresh(i)' /\ Honest(i)' /\ Unforced(i)' /\ Followed(i)' /\ Sparing(i)'
      BY <1>1, <1>3, <3>4 DEF Sound, Fresh, Honest, Unforced, Followed, Sparing, Marked, Real, TaskOf
    <3>6. ~ restored => phase[i] # "Succeeded"
      BY <1>1, <3>4 DEF Sound, Single, SingleDone
    <3>7. ~ restored /\ phase[i] \in Active => SingleActive(i) /\ watcher[i] = "none"
      BY <3>4 DEF Sound, Single, SingleActive
    <3>8. Single(i)'
      BY <1>1, <2>2, <3>4, <3>6, <3>7 DEF Single, SingleActive
    <3>. QED BY <3>5, <3>8 DEF Sound
  <2>. QED BY <2>3, <2>4, <2>5 DEF Careful
<1>. QED BY <1>4, <1>5, <1>6 DEF Start

\* A repeated report is the one that was remembered.
LEMMA RepeatCareful ==
    ASSUME Careful, NEW i \in ID, Repeat(i)
    PROVE  Careful'
<1>1. /\ UNCHANGED <<desired, doomed, held, watching, worker, watcher, containers, containerd, starts,
                      signalled, finished, yielded, abandoned>>
      /\ loop = "repeat" /\ i \in current /\ loop' = "start" /\ current' = {} /\ note' = ""
      /\ Send(i, note)
  BY DEF Repeat, runtimeVars
<1>2. TypeOK /\ Orderly /\ \A j \in ID : Sound(j)
  BY DEF Careful
<1>3. note \in Reportable /\ Deliver(i, note)
  BY <1>1, <1>2 DEF Orderly, Send
<1>4. /\ phase' \in [ID -> {Unassigned, Removed} \cup Active \cup Terminal]
      /\ tracked' \subseteq ID /\ faults' \in 0 .. MaxFaults
      /\ UNCHANGED <<known, saved, jobs, restored>>
      /\ \A j \in ID \ {i} : phase'[j] = phase[j]
  BY <1>1, <1>3, SendTyped
<1>5. phase'[i] = phase[i] \/ (phase[i] \in Active /\ phase'[i] = note)
  BY <1>3, DeliverSteps
<1>6. TypeOK' /\ Orderly'
  BY <1>1, <1>2, <1>4 DEF TypeOK, Orderly, MainSteps, StopSteps
<1>7. ASSUME NEW j \in ID, j # i PROVE Sound(j)'
  BY <1>1, <1>2, <1>4, <1>7
     DEF Sound, Fresh, Honest, Unforced, Followed, Sparing, Single, SingleActive, SingleDone, Marked,
         Watched, Real,
         TaskOf, StopSteps
<1>8. Sound(i)'
  <2>1. Sound(i)
    BY <1>2
  <2>2. Fresh(i)' /\ Honest(i)' /\ Unforced(i)' /\ Followed(i)' /\ Sparing(i)'
    BY <1>1, <1>3, <1>4, <1>5, <2>1
       DEF Sound, Fresh, Honest, Unforced, Followed, Sparing, Marked, Watched, Real, TaskOf, StopSteps,
           Active, Unassigned,
           Reportable
  <2>3. Single(i)'
    <3>1. CASE phase'[i] = phase[i]
      BY <1>1, <1>4, <2>1, <3>1 DEF Sound, Single, SingleActive, SingleDone, Watched
    <3>2. CASE phase[i] \in Active /\ phase'[i] = note
      BY <1>1, <1>4, <2>1, <3>2 DEF Sound, Single, SingleActive, SingleDone, Watched
    <3>. QED BY <1>5, <3>1, <3>2
  <2>. QED BY <2>2, <2>3 DEF Sound
<1>. QED BY <1>6, <1>7, <1>8 DEF Careful

--------------------------------------------------------------------------------
(* Processes, faults and the control plane *)

\* A process exits, containerd goes and comes.
LEMMA RuntimeCareful ==
    ASSUME Careful, (\E i \in ID : Exit(i)) \/ ContainerdCrash \/ ContainerdStart
    PROVE  Careful'
<1>1. TypeOK /\ Orderly /\ \A j \in ID : Sound(j)
  BY DEF Careful
<1>2. /\ UNCHANGED <<lifecycleVars, desired, doomed, current, note, held, tracked, watching, worker,
                     starts, signalled, abandoned, jobs, restored>>
      /\ loop' = loop \/ (loop = "wait" /\ loop' = "reap")
  BY DEF Exit, ContainerdCrash, ContainerdStart, Fault, background, mainVars
<1>3. Orderly'
  BY <1>1, <1>2 DEF Orderly, lifecycleVars, StopSteps
<1>4. ASSUME NEW i \in ID, Exit(i) PROVE Careful'
  <2>1. /\ UNCHANGED <<mainVars, watcher, containerd, faults>> /\ i \in DOMAIN containers
        /\ DOMAIN containers' = DOMAIN containers
        /\ \A j \in DOMAIN containers \ {i} : containers'[j] = containers[j]
        /\ containers'[i] \in {"exit0", "exit1"}
    BY <1>4 DEF Exit, TaskOf, background
  <2>2. /\ containers'[i] = "exit0" /\ i \in jobs => i \in finished' \/ (i \in yielded' /\ i \in signalled)
        /\ containers[i] = "running"
        /\ finished \subseteq finished' /\ finished' \subseteq finished \cup {i}
        /\ yielded \subseteq yielded' /\ yielded' \subseteq yielded \cup {i}
        /\ i \notin signalled => yielded' = yielded
    BY <1>4, <2>1 DEF Exit, TaskOf
  <2>3. TypeOK'
    BY <1>1, <1>2, <2>1, <2>2 DEF TypeOK, TaskStates, lifecycleVars, mainVars
  <2>4. ASSUME NEW j \in ID \ {i} PROVE Sound(j)'
    BY <1>2, <2>1, <2>2, SameIsSound DEF Same, Watched, lifecycleVars
  <2>5. Sound(i)'
    <3>1. Sound(i)
      BY <1>1
    <3>2. Fresh(i)' /\ Sparing(i)'
      BY <1>2, <2>1, <3>1 DEF Sound, Fresh, Sparing, Marked, Watched, lifecycleVars, mainVars
    <3>3. Honest(i)' /\ Unforced(i)'
      BY <1>2, <2>1, <2>2, <3>1 DEF Sound, Honest, Unforced, Watched, Real, TaskOf, lifecycleVars,
                                    mainVars
    <3>4. Followed(i)'
      BY <1>2, <2>1, <2>2, <3>1 DEF Sound, Followed, Watched, TaskOf, mainVars
    <3>5. Single(i)'
      BY <1>2, <2>1, <3>1 DEF Sound, Single, SingleActive, SingleDone, Watched, lifecycleVars, mainVars
    <3>. QED BY <3>2, <3>3, <3>4, <3>5 DEF Sound
  <2>. QED BY <1>3, <2>3, <2>4, <2>5 DEF Careful
<1>5. CASE ContainerdStart
  <2>1. TypeOK'
    BY <1>1, <1>5 DEF ContainerdStart, TypeOK, lifecycleVars, mainVars, background
  <2>2. ASSUME NEW j \in ID PROVE Sound(j)'
    BY <1>2, <1>5, SameIsSound DEF ContainerdStart, Same, Watched, lifecycleVars
  <2>. QED BY <1>3, <2>1, <2>2 DEF Careful
<1>6. CASE ContainerdCrash
  <2>1. /\ watcher' = [j \in ID |-> IF watcher[j] = "waiting" THEN "rewait" ELSE watcher[j]]
        /\ UNCHANGED <<containers, finished, yielded, abandoned>> /\ containerd' = FALSE
        /\ faults' \in 0 .. MaxFaults
    BY <1>1, <1>6, FaultCounted DEF ContainerdCrash, Fault
  <2>2. TypeOK'
    BY <1>1, <1>2, <2>1 DEF TypeOK, WatcherSteps, MainSteps, StopSteps, lifecycleVars
  <2>3. ASSUME NEW j \in ID PROVE Sound(j)'
    <3>1. /\ Sound(j) /\ (watcher'[j] = watcher[j] \/ (watcher[j] = "waiting" /\ watcher'[j] = "rewait"))
          /\ (loop' = "repeat" <=> loop = "repeat") /\ (loop' = "list" <=> loop = "list")
          /\ loop' \in StopSteps <=> loop \in StopSteps
      BY <1>1, <1>2, <2>1 DEF StopSteps
    <3>2. Fresh(j)' /\ Honest(j)' /\ Unforced(j)' /\ Followed(j)' /\ Sparing(j)'
      BY <1>2, <2>1, <3>1 DEF Sound, Fresh, Honest, Unforced, Followed, Sparing, Marked, Watched, Real,
                              TaskOf,
                              lifecycleVars
    <3>3. Single(j)'
      BY <1>2, <2>1, <3>1 DEF Sound, Single, SingleActive, SingleDone, Watched, lifecycleVars
    <3>. QED BY <3>2, <3>3 DEF Sound
  <2>. QED BY <1>3, <2>2, <2>3 DEF Careful
<1>. QED BY <1>4, <1>5, <1>6

\* The agent or the whole node dies: nothing is left but containers, if those.
LEMMA CrashCareful ==
    ASSUME Careful, AgentCrash \/ Reboot
    PROVE  Careful'
<1>1. TypeOK /\ Orderly /\ \A j \in ID : Sound(j)
  BY DEF Careful
<1>2. /\ UNCHANGED <<known, phase, saved, starts, finished, yielded, jobs, restored>>
      /\ abandoned' = abandoned \cup (current \cap signalled) /\ signalled' \subseteq signalled
      /\ faults' \in 0 .. MaxFaults
      /\ loop' = "off" /\ desired' = {} /\ doomed' = {} /\ current' = {} /\ note' = "" /\ held' = FALSE
      /\ tracked' = {} /\ watching' = NoWatch /\ worker' = NoOne /\ watcher' = NoOne
  BY <1>1, FaultCounted DEF AgentCrash, Reboot, ProcessGone, Abandons, Fault, lifecycleVars, runtimeVars
<1>3. /\ DOMAIN containers' = DOMAIN containers /\ containerd' \in BOOLEAN
      /\ \A j \in DOMAIN containers :
            containers'[j] = "none" \/ (containers'[j] = containers[j] /\ signalled' = signalled)
  BY <1>1 DEF AgentCrash, Reboot, runtimeVars, TypeOK
<1>4. TypeOK'
  BY <1>1, <1>2, <1>3 DEF TypeOK, NoWatch, NoOne, MainSteps, StopSteps, WorkerSteps, WatcherSteps,
                          TaskStates
<1>5. Orderly'
  BY <1>1, <1>2 DEF Orderly
<1>6. ASSUME NEW j \in ID PROVE Sound(j)'
  <2>1. Sound(j) /\ ~ Watched(j)' /\ worker'[j] = "none" /\ watcher'[j] = "none"
    BY <1>1, <1>2 DEF NoOne, NoWatch, Watched
  <2>2. Fresh(j)' /\ Honest(j)' /\ Unforced(j)' /\ Sparing(j)'
    BY <1>2, <1>3, <2>1 DEF Sound, Fresh, Honest, Unforced, Sparing, Marked, Real, TaskOf, StopSteps
  <2>3. Followed(j)'
    BY <1>2, <1>3, <2>1 DEF Sound, Followed, TaskOf, StopSteps
  <2>4. Single(j)'
    BY <1>2, <1>3, <2>1 DEF Sound, Single, SingleActive, SingleDone
  <2>. QED BY <2>2, <2>3, <2>4 DEF Sound
<1>. QED BY <1>4, <1>5, <1>6 DEF Careful

\* The control plane assigns, gives up and removes.
LEMMA ControlCareful ==
    ASSUME Careful, ControlStep
    PROVE  Careful'
<1>1. TypeOK /\ Orderly /\ \A j \in ID : Sound(j)
  BY DEF Careful
<1>2. UNCHANGED <<mainVars, tracked, watching, worker, watcher, runtimeVars, background>>
  BY DEF ControlStep
<1>3. PICK i \in ID : Assign(i) \/ Lose(i) \/ (i \in Rows /\ Remove({i}))
  BY DEF ControlStep
<1>4. /\ UNCHANGED <<known, saved>> /\ \A j \in ID \ {i} : phase'[j] = phase[j]
      /\ \/ phase[i] = Unassigned /\ phase'[i] = "Pending"
         \/ phase[i] # Unassigned /\ phase'[i] \in {"Lost", Removed}
      /\ phase' \in [ID -> {Unassigned, Removed} \cup Active \cup Terminal]
  BY <1>1, <1>3 DEF Assign, Lose, Remove, Rows, TypeOK, Active, Terminal, Unassigned, Removed
<1>5. TypeOK' /\ Orderly'
  BY <1>1, <1>2, <1>4 DEF TypeOK, Orderly, mainVars, runtimeVars, background
<1>6. ASSUME NEW j \in ID, j # i PROVE Sound(j)'
  BY <1>2, <1>4, <1>6, SameIsSound DEF Same, Watched, runtimeVars, background
<1>7. Sound(i)'
  <2>1. Sound(i)
    BY <1>1
  <2>2. UNCHANGED <<loop, desired, doomed, current, note, containers, starts, signalled, finished,
                    yielded, abandoned, jobs, restored>>
    BY <1>2 DEF mainVars, runtimeVars, background
  <2>. USE DEF Sound, Fresh, Honest, Unforced, Followed, Sparing, Single, SingleActive, SingleDone,
               Marked, Watched, Real,
               TaskOf, Active, Unassigned, Removed
  <2>3. CASE phase[i] = Unassigned /\ phase'[i] = "Pending"
    BY <1>2, <1>4, <2>1, <2>2, <2>3
  <2>4. CASE phase'[i] \in {"Lost", Removed}
    BY <1>2, <1>4, <2>1, <2>2, <2>4
  <2>. QED BY <1>4, <2>3, <2>4
<1>. QED BY <1>5, <1>6, <1>7 DEF Careful

\* A restore brings back phases that were true once and no assignment to come.
LEMMA RollbackCareful ==
    ASSUME Careful, RollbackStep
    PROVE  Careful'
<1>1. TypeOK /\ Orderly /\ \A j \in ID : Sound(j)
  BY DEF Careful
<1>2. UNCHANGED <<mainVars, tracked, watching, worker, watcher, runtimeVars, jobs>>
  BY DEF RollbackStep, background
<1>3. UNCHANGED <<loop, desired, doomed, current, note, containers, starts, signalled, finished, yielded, abandoned>>
  BY <1>2 DEF mainVars, runtimeVars
<1>4. CASE TakeSnapshot /\ UNCHANGED background
  <2>1. /\ UNCHANGED <<known, phase, restored, faults>> /\ saved'.known = known
        /\ DOMAIN saved'.phases = Rows /\ \A j \in Rows : saved'.phases[j] = phase[j]
    BY <1>4 DEF TakeSnapshot, background
  <2>2. TypeOK' /\ Orderly'
    BY <1>1, <1>2, <2>1 DEF TypeOK, Orderly, Rows, mainVars, runtimeVars
  <2>3. ASSUME NEW j \in ID PROVE Sound(j)'
    BY <1>1, <1>2, <1>3, <2>1
       DEF Sound, Fresh, Honest, Unforced, Followed, Sparing, Single, SingleActive, SingleDone, Marked,
           Watched, Real, TaskOf
  <2>. QED BY <2>2, <2>3 DEF Careful
<1>5. CASE RestoreSnapshot /\ CountFault /\ restored' = TRUE
  <2>1. /\ known' = saved.known /\ saved' = saved /\ restored' = TRUE /\ faults' \in 0 .. MaxFaults
    BY <1>1, <1>5, FaultCounted DEF RestoreSnapshot
  <2>2. \A j \in ID : phase'[j] = IF j \in DOMAIN saved.phases THEN saved.phases[j]
                                  ELSE IF phase[j] = Unassigned THEN Unassigned ELSE Removed
    BY <1>5 DEF RestoreSnapshot
  <2>3. phase' \in [ID -> {Unassigned, Removed} \cup Active \cup Terminal]
    BY <1>1, <1>5 DEF RestoreSnapshot, Orderly
  <2>4. TypeOK' /\ Orderly'
    BY <1>1, <1>2, <2>1, <2>3 DEF TypeOK, Orderly, mainVars, runtimeVars
  <2>5. ASSUME NEW j \in ID PROVE Sound(j)'
    <3>1. Sound(j) /\ phase'[j] = Unassigned => phase[j] = Unassigned
      BY <1>1, <2>2 DEF Orderly, Active, Terminal, Unassigned, Removed
    <3>2. phase'[j] = "Succeeded" => j \in DOMAIN saved.phases /\ saved.phases[j] = "Succeeded"
      BY <2>2 DEF Unassigned, Removed
    <3>3. Sound(j)
      BY <1>1
    <3>. QED BY <1>2, <1>3, <2>1, <3>1, <3>2, <3>3
             DEF Sound, Fresh, Honest, Unforced, Followed, Sparing, Single, Marked, Watched, Real,
                 TaskOf
  <2>. QED BY <2>4, <2>5 DEF Careful
<1>. QED BY <1>4, <1>5 DEF RollbackStep

--------------------------------------------------------------------------------
(* The theorems *)

\* At first nothing is assigned and no process runs.
LEMMA InitCareful == Init => Careful
<1>. SUFFICES ASSUME Init PROVE Careful
  OBVIOUS
<1>1. TypeOK
  <2>1. /\ known \subseteq NodeID /\ phase \in [ID -> {Unassigned, Removed} \cup Active \cup Terminal]
        /\ jobs \subseteq ID /\ restored \in BOOLEAN
    BY DEF Init, LifecycleInit
  <2>2. /\ loop \in MainSteps /\ desired \subseteq ID /\ doomed \subseteq ID
        /\ current \in IF loop \in StopSteps \cup {"repeat"} THEN {{i} : i \in ID} ELSE {{}}
        /\ note \in {"", "cut"} \cup Reportable /\ held \in BOOLEAN /\ tracked \subseteq ID
    BY DEF Init, MainSteps, StopSteps
  <2>3. DOMAIN watching = {} /\ DOMAIN containers = {}
    BY DEF Init, NoWatch
  <2>4. worker \in [ID -> WorkerSteps] /\ watcher \in [ID -> WatcherSteps]
    BY DEF Init, NoOne, WorkerSteps, WatcherSteps
  <2>5. containerd \in BOOLEAN
    BY DEF Init
  <2>6. starts \in [ID -> Nat] /\ signalled \subseteq ID /\ finished \subseteq ID
        /\ yielded \subseteq ID /\ abandoned \subseteq ID
    BY DEF Init
  <2>7. faults \in 0 .. MaxFaults
    <3>1. faults = 0
      BY DEF Init
    <3>2. MaxFaults \in Nat
      BY AgentAssumption
    <3>. QED BY <3>1, <3>2
  <2>. QED BY <2>1, <2>2, <2>3, <2>4, <2>5, <2>6, <2>7 DEF TypeOK
<1>2. Orderly
  BY DEF Init, LifecycleInit, Orderly
<1>3. ASSUME NEW i \in ID PROVE Sound(i)
  BY DEF Init, LifecycleInit, Sound, Fresh, Honest, Unforced, Followed, Sparing, Single, Marked,
         Watched, Real, TaskOf, NoOne,
         NoWatch, Active, Unassigned, StopSteps
<1>. QED BY <1>1, <1>2, <1>3 DEF Careful

\* Careful is an invariant, with and without restores.
LEMMA AlwaysCareful == RollbackSpec => []Careful
<1>1. Careful /\ UNCHANGED vars => Careful'
  <2>. SUFFICES ASSUME Careful, UNCHANGED vars PROVE Careful'
    OBVIOUS
  <2>1. TypeOK' /\ Orderly'
    BY DEF vars, Careful, TypeOK, Orderly, lifecycleVars, mainVars, runtimeVars, background
  <2>2. ASSUME NEW j \in ID PROVE Sound(j)'
    BY SameIsSound DEF vars, Same, Watched, lifecycleVars, runtimeVars, background
  <2>. QED BY <2>1, <2>2 DEF Careful
<1>2. Careful /\ MainStep => Careful'
  BY PollCareful, StopCareful, KillCareful, StopEndsCareful, StartCareful, RepeatCareful DEF MainStep
<1>3. Careful /\ [Next \/ RollbackStep]_vars => Careful'
  BY <1>1, <1>2, GoroutineCareful, RuntimeCareful, CrashCareful, ControlCareful, RollbackCareful
     DEF Next, FaultStep
<1>. QED BY <1>3, InitCareful, PTL DEF RollbackSpec

\* The agent's maps, lists and goroutines are of their types.
THEOREM TypeCorrect == RollbackSpec => []TypeOK
<1>1. Careful => TypeOK
  BY DEF Careful
<1>. QED BY <1>1, AlwaysCareful, PTL

\* What the controller holds as Succeeded is a job whose process exited with 0 of
\* its own accord (watchExit, reportFor).  Only once an older snapshot was restored
\* may it be one that exited with 0 because of a SIGTERM, and only if the Stop that
\* sent it failed or died with its agent (killTask, attach).
THEOREM SuccessesAreReal == RollbackSpec => []SuccessIsReal
<1>1. Careful => SuccessIsReal
  <2>. SUFFICES ASSUME Careful, NEW i \in ID, phase[i] = "Succeeded"
                PROVE  i \in jobs /\ (i \in finished \/ (restored /\ i \in yielded \cap abandoned))
    BY DEF SuccessIsReal
  <2>1. Real(i) /\ (~ restored => i \in finished)
    BY DEF Careful, Sound, Honest, Unforced
  <2>. QED BY <2>1 DEF Real
<1>. QED BY <1>1, AlwaysCareful, PTL

\* While the controller keeps its database, only what it has given up is stopped
\* (syncAssignments, Stop).
THEOREM OnlyUnwantedIsStopped == RollbackSpec => []StopsOnlyUnwanted
<1>1. Careful => StopsOnlyUnwanted
  BY Stopping DEF StopsOnlyUnwanted
<1>. QED BY <1>1, AlwaysCareful, PTL

\* While the controller keeps its database, an attempt that counts is run at most
\* once (attach), through any number of crashes, reboots and lost reports.
THEOREM AttemptsRunOnce == RollbackSpec => []JobRunsOnce
<1>1. Careful => JobRunsOnce
  <2>. SUFFICES ASSUME Careful, ~ restored, NEW i \in jobs, phase[i] \in Active \cup {"Succeeded"}
                PROVE  starts[i] <= 1
    BY DEF JobRunsOnce
  <2>1. i \in ID /\ Sound(i)
    BY DEF Careful, TypeOK
  <2>2. starts[i] \in {0, 1}
    BY <2>1 DEF Sound, Single, SingleActive, SingleDone
  <2>. QED BY <2>2
<1>. QED BY <1>1, AlwaysCareful, PTL

--------------------------------------------------------------------------------
(* The agent keeps to Lifecycle *)

\* A report that arrives is one the handlers accept; a lost one changes nothing.
LEMMA DeliveryKeepsTo ==
    ASSUME NEW i \in ID, NEW reported \in Reportable, Deliver(i, reported)
    PROVE  [LifecycleNext]_lifecycleVars
BY DEF Deliver, LifecycleNext

\* Every step of the node and of what the controller may do to it meanwhile is one
\* that Lifecycle allows, or leaves the assignments and nodes alone.
LEMMA StepsKeepTo ==
    ASSUME Careful, [Next \/ RollbackStep]_vars
    PROVE  [LifecycleNext]_lifecycleVars
<1>1. CASE MainStep
  <2>1. CASE Boot
    BY <2>1, AgentAssumption DEF Boot, LifecycleNext
  <2>2. CASE FetchAssignments \/ List \/ StopsDone \/ SyncDone
    BY <2>2 DEF FetchAssignments, List, StopsDone, SyncDone
  <2>3. CASE \E i \in ID : \/ Stop(i) \/ StopFails(i) \/ Kill(i) \/ KillHard(i) \/ Waited(i) \/ Reap(i)
                          \/ DeleteContainer(i) \/ Start(i)
    BY <2>3 DEF Stop, StopFails, Kill, KillHard, Waited, Reap, DeleteContainer, Start
  <2>4. CASE \E i \in ID : ReportStopped(i)
    BY <2>4, DeliveryKeepsTo DEF ReportStopped, Reportable
  <2>5. CASE \E i \in ID : Repeat(i)
    BY <2>5, DeliveryKeepsTo DEF Repeat, Send, Careful, Orderly
  <2>. QED BY <1>1, <2>1, <2>2, <2>3, <2>4, <2>5 DEF MainStep
<1>2. ASSUME NEW i \in ID, WorkerStep(i) PROVE [LifecycleNext]_lifecycleVars
  <2>1. CASE WorkerSends(i)
    BY <2>1, DeliveryKeepsTo DEF WorkerSends, Send, Reportable
  <2>2. CASE ~ WorkerSends(i)
    BY <1>2, <2>2 DEF WorkerStep, LoadContainer, CreateContainer, PullFails, NewTask, StartTask, Attach,
                      Subscribe, RunFails, WorkerReports, WorkerForgets
  <2>. QED BY <2>1, <2>2
<1>3. ASSUME NEW i \in ID, WatcherStep(i) PROVE [LifecycleNext]_lifecycleVars
  <2>1. CASE WatcherSends(i)
    BY <2>1, DeliveryKeepsTo DEF WatcherSends, Send, Reportable
  <2>2. CASE ~ WatcherSends(i)
    BY <1>3, <2>2 DEF WatcherStep, SeeExit, Rewait, WatcherReports
  <2>. QED BY <2>1, <2>2
<1>4. CASE (\E i \in ID : Exit(i)) \/ ContainerdStart \/ FaultStep
  BY <1>4 DEF Exit, ContainerdStart, FaultStep, ContainerdCrash, AgentCrash, Reboot
<1>5. CASE ControlStep
  <2>1. PICK i \in ID : (Self \in known /\ Assign(i)) \/ Lose(i) \/ (i \in Rows /\ Remove({i}))
    BY <1>5 DEF ControlStep
  <2>2. CASE Assign(i) \/ Lose(i)
    BY <2>2 DEF LifecycleNext
  <2>3. CASE i \in Rows /\ Remove({i})
    <3>1. {i} \in SUBSET Rows
      BY <2>3
    <3>. QED BY <2>3, <3>1 DEF LifecycleNext
  <2>. QED BY <2>1, <2>2, <2>3
<1>6. CASE RollbackStep
  BY <1>6 DEF RollbackStep, LifecycleNext
<1>7. CASE UNCHANGED vars
  BY <1>7 DEF vars
<1>. QED BY <1>1, <1>2, <1>3, <1>4, <1>5, <1>6, <1>7 DEF Next

\* The node and its environment take only steps that Lifecycle, which the controller
\* implements, allows.  In particular every report, a repeated one or one sent while
\* stopping included, has a phase that handleAssignmentStatus accepts.
THEOREM AgentKeepsToLifecycle == RollbackSpec => LifecycleSpec
<1>1. Init => LifecycleInit
  BY DEF Init
<1>2. Careful /\ [Next \/ RollbackStep]_vars => [LifecycleNext]_lifecycleVars
  BY StepsKeepTo
<1>. QED BY <1>1, <1>2, AlwaysCareful, PTL DEF RollbackSpec, LifecycleSpec
================================================================================
