--------------------------- MODULE BundlerService ---------------------------
(***************************************************************************)
(* infra/bundler: the runner process (run.mjs, service.mjs), its worker    *)
(* process and its lifecycle file.                                         *)
(*                                                                         *)
(* An operator installs and builds a worker (WorkerBuild) and starts the   *)
(* runner.  The runner checks the installation, the configuration and the  *)
(* chain, forks the worker, waits until it answers, opens the gateway and  *)
(* then serves until an operator signals it or the worker exits.  Every    *)
(* await is a step of its own: the worker may exit, a signal may arrive    *)
(* and another save() may be under way between any two.  Nothing is        *)
(* installed or built between the checks of a start and its fork.          *)
(***************************************************************************)
EXTENDS WorkerBuild, Sequences

CONSTANTS
    Reloads,     \* the SIGHUPs of a run
    Attempts     \* bound of the readiness loop (45 in the code)

ASSUME AttemptsAssumption == Attempts \in Nat \ {0}
ASSUME ReloadsAssumption == "start" \notin Reloads /\ "stop" \notin Reloads

VARIABLES
    installation,\* WorkerBuild's; Absent after the fork, when nothing reads it again
    code,        \* the files the worker runs
    runner,      \* the runner process and how it ended
    start,       \* the step startService() is at
    attempt,     \* readiness attempts made
    workerError, \* the worker reported a failure over IPC
    worker,      \* the worker process
    gateway,     \* the gateway's listener
    stopping,    \* the step of the memoised stop()
    unexpected,  \* the exit listener saw the worker go
    closing,     \* SIGTERM or SIGINT was handled
    reload,      \* per SIGHUP: the step of reload()
    events,      \* state.events
    saving, text, \* per save(): its step, the text it writes
    overlap,     \* two writes of the lifecycle file were open together
    file         \* the events in the lifecycle file

process == <<runner, start, attempt, workerError>>
shutdown == <<stopping, unexpected, closing>>
disk == <<overlap, file>>
installed == <<installation, code>>
forked == <<worker, installed>>
vars == <<process, forked, gateway, shutdown, reload, events, saving, text, disk>>

Savers == {"start", "stop"} \cup Reloads
Builds == {"package", "source"}
Statuses == {"starting", "ready", "reloaded", "stopped"}
Running == runner = "running"
Exited == worker = "exited"
Alive == worker \in {"up", "hung", "terminating"}
Writing == {s \in Savers : saving[s] = "write"}

(* save(): the event is recorded, then the directory made, then the record as
   it is by then written.  Several calls may be under way. *)
Save(s, status) ==
    /\ events' = Append(events, status)
    /\ saving' = [saving EXCEPT ![s] = "mkdir"]

(* stop() runs once, whoever calls it: the gateway stops listening first. *)
BeginStop ==
    IF stopping = "none"
    THEN /\ stopping' = "gateway"
         /\ gateway' = IF gateway = "open" THEN "closing" ELSE gateway
    ELSE UNCHANGED <<stopping, gateway>>

Fail == start' = "failed" /\ BeginStop
-----------------------------------------------------------------------------
Init ==
    /\ installation \in {Clean(pin) : pin \in Pins}
    /\ code = Absent
    /\ runner = "none"
    /\ start = "preflight"
    /\ attempt = 0
    /\ workerError = FALSE
    /\ worker = "none"
    /\ gateway = "none"
    /\ stopping = "none"
    /\ unexpected = FALSE
    /\ closing = FALSE
    /\ reload = [r \in Reloads |-> "none"]
    /\ events = <<>>
    /\ saving = [s \in Savers |-> "none"]
    /\ text = [s \in Savers |-> <<>>]
    /\ overlap = FALSE
    /\ file = <<>>

(* The operator's commands, and the last of them: npm start. *)
Command ==
    /\ runner = "none"
    /\ installation' \in AfterCommand(installation)
    /\ UNCHANGED <<process, worker, code, gateway, shutdown, reload, events, saving, text, disk>>

Start ==
    /\ runner = "none"
    /\ runner' = "running"
    /\ UNCHANGED <<start, attempt, workerError, forked, gateway, shutdown, reload, events,
                   saving, text, disk>>

Fork ==
    /\ start' = "starting"
    /\ worker' = "up"
    /\ Save("start", "starting")

(* Configuration, credentials, installation, chain and EntryPoint: a worker is
   forked, or the start is refused with nothing to stop. *)
Preflight ==
    /\ Running
    /\ start = "preflight"
    /\ \/ \E build \in Builds :
            /\ StartsFrom(installation, build)
            /\ code' = WorkerCode(installation, build)
            /\ installation' = Absent
            /\ Fork
       \/ start' = "refused" /\ UNCHANGED <<forked, events, saving>>
    /\ UNCHANGED <<runner, attempt, workerError, gateway, shutdown, reload, text, disk>>

OpenWrite(s) ==
    /\ Running
    /\ saving[s] = "mkdir"
    /\ saving' = [saving EXCEPT ![s] = "write"]
    /\ text' = [text EXCEPT ![s] = events]
    /\ overlap' = (overlap \/ Writing # {})
    /\ UNCHANGED <<process, forked, gateway, shutdown, reload, events, file>>

(* What the caller of save() does next. *)
Resume(s, ok) ==
    CASE s = "start" /\ ok ->
            /\ start' = IF start = "starting" THEN "readiness" ELSE "serving"
            /\ UNCHANGED <<stopping, gateway, reload>>
      [] s = "start" /\ ~ok -> Fail /\ UNCHANGED reload
      [] s = "stop" ->
            /\ stopping' = IF ok THEN "done" ELSE "rejected"
            /\ UNCHANGED <<start, gateway, reload>>
      [] OTHER ->
            /\ reload' = [reload EXCEPT ![s] = "done"]
            /\ UNCHANGED <<start, stopping, gateway>>

(* Writes that were open together may leave one text in the other. *)
FinishWrite(s) ==
    /\ Running
    /\ saving[s] = "write"
    /\ saving' = [saving EXCEPT ![s] = "none"]
    /\ file' \in {text[s]} \cup (IF overlap THEN {Torn} ELSE {})
    /\ overlap' = (overlap /\ Writing # {s})
    /\ Resume(s, TRUE)
    /\ UNCHANGED <<runner, attempt, workerError, forked, unexpected, closing, events, text>>

(* A full or read-only disk: the open write truncated the file. *)
SaveFails(s) ==
    /\ Running
    /\ saving[s] # "none"
    /\ saving' = [saving EXCEPT ![s] = "none"]
    /\ file' \in {file} \cup (IF saving[s] = "write" THEN {Torn} ELSE {})
    /\ overlap' = (overlap /\ Writing \ {s} # {})
    /\ Resume(s, FALSE)
    /\ UNCHANGED <<runner, attempt, workerError, forked, unexpected, closing, events, text>>

(* The head of the readiness loop. *)
CheckWorker ==
    /\ Running
    /\ start = "readiness"
    /\ IF workerError \/ Exited \/ attempt = Attempts
       THEN Fail /\ UNCHANGED attempt
       ELSE /\ start' = "probing"
            /\ attempt' = attempt + 1
            /\ UNCHANGED <<stopping, gateway>>
    /\ UNCHANGED <<runner, workerError, forked, unexpected, closing, reload,
                   events, saving, text, disk>>

Mutant_ProbeForever ==
    /\ Running
    /\ start = "probing"
    /\ start' \in {"readiness", "opening"}
    /\ attempt' = 0
    /\ UNCHANGED <<runner, workerError, forked, gateway, shutdown, reload, events,
                   saving, text, disk>>

(* One eth_supportedEntryPoints call; the answer may precede the exit of the
   worker that gave it. *)
Probe ==
    /\ Running
    /\ start = "probing"
    /\ start' \in {"readiness", "opening"}
    /\ UNCHANGED <<runner, attempt, workerError, forked, gateway, shutdown, reload,
                   events, saving, text, disk>>

(* startGateway() listens, or the port is taken. *)
OpenGateway ==
    /\ Running
    /\ start = "opening"
    /\ \/ /\ gateway' = "open"
          /\ start' = "announcing"
          /\ Save("start", "ready")
          /\ UNCHANGED stopping
       \/ Fail /\ UNCHANGED <<events, saving>>
    /\ UNCHANGED <<runner, attempt, workerError, forked, unexpected, closing,
                   reload, text, disk>>

(* child.on('message') and child.on('error'). *)
ReportHeard == workerError' = TRUE

(* The worker's entry module fails to load: it says so and exits, a step of
   its own; or the process fails. *)
WorkerReports ==
    /\ Running
    /\ worker = "up"
    /\ ReportHeard
    /\ UNCHANGED <<runner, start, attempt, forked, gateway, shutdown, reload, events,
                   saving, text, disk>>

WorkerHangs ==
    /\ worker = "up"
    /\ worker' = "hung"
    /\ UNCHANGED <<process, installed, gateway, shutdown, reload, events, saving, text, disk>>

Mutant_ExitListenerEarly ==
    /\ Alive
    /\ worker' = "exited"
    /\ IF Running /\ stopping = "none"
       THEN unexpected' = TRUE /\ BeginStop
       ELSE UNCHANGED <<unexpected, stopping, gateway>>
    /\ UNCHANGED <<process, installed, closing, reload, events, saving, text, disk>>

Mutant_ExitListenerSilent ==
    /\ Alive
    /\ worker' = "exited"
    /\ IF Running /\ start = "serving" /\ stopping = "none"
       THEN UNCHANGED unexpected /\ BeginStop
       ELSE UNCHANGED <<unexpected, stopping, gateway>>
    /\ UNCHANGED <<process, installed, closing, reload, events, saving, text, disk>>

(* The worker exits by itself, by a signal, or because its parent is gone.
   Only a service that startService() returned listens for it. *)
WorkerExits ==
    /\ Alive
    /\ worker' = "exited"
    /\ IF Running /\ start = "serving" /\ stopping = "none"
       THEN unexpected' = TRUE /\ BeginStop
       ELSE UNCHANGED <<unexpected, stopping, gateway>>
    /\ UNCHANGED <<process, installed, closing, reload, events, saving, text, disk>>

Signal ==
    /\ Running
    /\ start = "serving"
    /\ ~closing
    /\ closing' = TRUE
    /\ BeginStop
    /\ UNCHANGED <<process, forked, unexpected, reload, events, saving, text, disk>>

Mutant_GatewayStoppedNoKill ==
    /\ Running
    /\ stopping = "gateway"
    /\ gateway' = IF gateway = "closing" THEN "closed" ELSE gateway
    /\ IF Exited
       THEN stopping' = "save" /\ Save("stop", "stopped")
       ELSE stopping' = "worker" /\ UNCHANGED <<events, saving>>
    /\ UNCHANGED <<process, forked, unexpected, closing, reload, text, disk>>

(* The last connection ends, or is cut after five seconds. *)
GatewayStopped ==
    /\ Running
    /\ stopping = "gateway"
    /\ gateway' = IF gateway = "closing" THEN "closed" ELSE gateway
    /\ IF Exited
       THEN /\ stopping' = "save"
            /\ Save("stop", "stopped")
            /\ UNCHANGED worker
       ELSE /\ stopping' = "worker"
            /\ worker' = "terminating"
            /\ UNCHANGED <<events, saving>>
    /\ UNCHANGED <<process, installed, unexpected, closing, reload, text, disk>>

WorkerStopped ==
    /\ Running
    /\ stopping = "worker"
    /\ Exited
    /\ stopping' = "save"
    /\ Save("stop", "stopped")
    /\ UNCHANGED <<process, forked, gateway, unexpected, closing, reload, text, disk>>

Hangup(r) ==
    /\ Running
    /\ start = "serving"
    /\ reload[r] = "none"
    /\ reload' = [reload EXCEPT ![r] = "loading"]
    /\ UNCHANGED <<process, forked, gateway, shutdown, events, saving, text, disk>>

Reload(r) ==
    /\ Running
    /\ reload[r] = "loading"
    /\ \/ /\ reload' = [reload EXCEPT ![r] = "saving"]
          /\ Save(r, "reloaded")
       \/ /\ reload' = [reload EXCEPT ![r] = "done"]        \* rejected
          /\ UNCHANGED <<events, saving>>
    /\ UNCHANGED <<process, forked, gateway, shutdown, text, disk>>

(* run.mjs: process.exit(0) once the stop an operator asked for is done,
   whatever else is under way; an unhandled rejection; else the end of the
   last pending callback. *)
Ended ==
    IF stopping = "rejected" THEN "exit 1"
    ELSE IF closing THEN "exit 0"
    ELSE IF start \in {"refused", "failed"} \/ unexpected THEN "exit 1"
    ELSE "exit 0"

End ==
    /\ Running
    /\ \/ start = "refused" \/ stopping = "rejected"
       \/ stopping = "done" /\ closing
       \/ stopping = "done" /\ \A r \in Reloads : reload[r] \in {"none", "done"}
    /\ runner' = Ended
    /\ file' \in {file} \cup (IF Writing # {} THEN {Torn} ELSE {})
    /\ UNCHANGED <<start, attempt, workerError, forked, gateway, shutdown, reload,
                   events, saving, text, overlap>>

(* SIGKILL, or SIGTERM before the handlers exist. *)
Kill ==
    /\ Running
    /\ runner' = "killed"
    /\ file' \in {file} \cup (IF Writing # {} THEN {Torn} ELSE {})
    /\ UNCHANGED <<start, attempt, workerError, forked, gateway, shutdown, reload,
                   events, saving, text, overlap>>

RunnerStep ==
    \/ \E s \in Savers : OpenWrite(s) \/ FinishWrite(s)
    \/ Preflight \/ CheckWorker \/ Probe \/ OpenGateway
    \/ GatewayStopped \/ WorkerStopped
    \/ \E r \in Reloads : Reload(r)
    \/ End

Next ==
    \/ Command \/ Start
    \/ RunnerStep
    \/ \E s \in Savers : SaveFails(s)
    \/ WorkerReports \/ WorkerHangs \/ WorkerExits
    \/ Signal \/ Kill
    \/ \E r \in Reloads : Hangup(r)

Mutant_MustExitNoDisconnect == worker = "terminating"

(* The runner's awaits all end: files, probes and sockets have timeouts, a
   worker that ignores SIGTERM gets SIGKILL.  A worker whose event loop turns
   exits when its parent is gone.  No worker has to exit by itself. *)
MustExit == worker = "terminating" \/ (worker = "up" /\ ~Running)

Fairness ==
    /\ WF_vars(RunnerStep)
    /\ WF_vars(End)
    /\ WF_vars(MustExit /\ WorkerExits)

Spec == Init /\ [][Next]_vars /\ Fairness
-----------------------------------------------------------------------------
TypeOK ==
    /\ runner \in {"none", "running", "exit 0", "exit 1", "killed"}
    /\ start \in {"preflight", "refused", "starting", "readiness", "probing", "opening", "announcing",
                  "serving", "failed"}
    /\ attempt \in 0..Attempts
    /\ worker \in {"none", "up", "hung", "terminating", "exited"}
    /\ gateway \in {"none", "open", "closing", "closed"}
    /\ stopping \in {"none", "gateway", "worker", "save", "done", "rejected"}
    /\ {workerError, unexpected, closing, overlap} \subseteq BOOLEAN
    /\ reload \in [Reloads -> {"none", "loading", "saving", "done"}]
    /\ events \in Seq(Statuses)
    /\ saving \in [Savers -> {"none", "mkdir", "write"}]
    /\ text \in [Savers -> Seq(Statuses)]
    /\ file = Torn \/ file \in Seq(Statuses)

(* "stopped" in the lifecycle file, or in the record save() writes to it, means:
   the worker is gone and the gateway's port is closed, whatever order startup,
   exit and signals came in and however the writes of several save() calls and a
   kill overlap. *)
Shows(record) == \E i \in DOMAIN record : record[i] = "stopped"
StoppedIsClean ==
    Shows(events) \/ (file # Torn /\ Shows(file)) => Exited /\ gateway \in {"none", "closed"}

(* A supervisor restarts on failure (README.md: "Restart=on-failure"): the
   runner reports success only when an operator stopped it. *)
SuccessMeansAsked == runner = "exit 0" => closing

(* A shutdown that began reaches the end of the process, however the worker,
   the disk or a concurrent reload behave. *)
ShutdownEnds == stopping # "none" ~> ~Running

(* Startup settles: the service answers or the runner is on its way out. *)
StartupSettles == Running ~> (start = "serving" \/ stopping # "none" \/ ~Running)

(* Whatever was installed, updated, built or interrupted before, a worker runs
   files that one complete prepare or build produced: a published worker listens
   on every interface and is not what the pins describe.  (Which revision's
   patches a source build holds is not checked at a start.) *)
PinnedWorker == worker # "none" => \E pin \in Pins : code = Whole(Wanted(pin))

(* A worker that can still react does not outlive its runner. *)
NoOrphan == ~Running ~> (worker \in {"none", "hung", "exited"})

(* README.md: "The runner closes the gateway and exits unsuccessfully if its
   worker exits unexpectedly" (when no operator stops or kills it). *)
WorkerExitIsNoticed ==
    (Exited /\ Running /\ ~closing) ~> (runner \in {"exit 1", "killed"} \/ closing)
=============================================================================
