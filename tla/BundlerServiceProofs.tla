------------------------ MODULE BundlerServiceProofs ------------------------
(***************************************************************************)
(* Theorems about the bundler's runner, for any revisions of the           *)
(* repository, number of patched files, readiness attempts and SIGHUPs.    *)
(***************************************************************************)
EXTENDS BundlerService, TLAPS

(* Every step of the startup has its own place: a worker exists from the fork
   on, and the startup's save() is under way in two steps only. *)
StartInv ==
    /\ runner = "none" => start = "preflight"
    /\ worker = "none" <=> start \in {"preflight", "refused"}
    /\ saving["start"] # "none" <=> start \in {"starting", "announcing"}

(* What begins a stop: a failed start, or a service that serves. *)
StopInv ==
    /\ stopping # "none" =>
         /\ start \in {"serving", "failed"}
         /\ closing \/ unexpected \/ start = "failed"
    /\ saving["stop"] # "none" => stopping = "save"

(* The listener is closed first and never opened again. *)
GatewayInv ==
    /\ stopping # "none" => gateway # "open"
    /\ stopping \notin {"none", "gateway"} => gateway \in {"none", "closed"}
    /\ (\E i \in DOMAIN events : events[i] = "stopped") => stopping # "none"

(* An installation keeps the record of its last complete build, whatever was
   interrupted or updated since. *)
Shaped(i) ==
    i = [pin |-> i.pin, package |-> i.package, manifest |-> i.manifest,
         source |-> i.source, compiled |-> i.compiled]

Recorded(i) ==
    /\ Shaped(i)
    /\ i.pin \in Pins
    /\ i.manifest \in {Absent, Torn} \/
         \E pin \in Pins : i.manifest.files = Compiled(Whole(Wanted(pin)), TRUE)

InstallationInv == start = "preflight" => Recorded(installation)

(* "stopped" is recorded once all is stopped. *)
EventInv == (\E i \in DOMAIN events : events[i] = "stopped") => Exited /\ gateway \in {"none", "closed"}

IInv ==
    /\ TypeOK
    /\ StartInv
    /\ StopInv
    /\ GatewayInv
    /\ InstallationInv
    /\ EventInv
    /\ SuccessMeansAsked
    /\ PinnedWorker
-----------------------------------------------------------------------------
(* The text a pinned file must have is a text. *)
LEMMA PinType == \A pin \in Pins : Wanted(pin) \in [version : Nat, patches : Nat]
  BY PinsAssumption DEF Wanted, Text

(* Replacing the package, a source tree or an output leaves the pin and the
   record of the last build. *)
LEMMA FilesReplaced ==
    ASSUME NEW i, Recorded(i), NEW x, NEW v, NEW j,
           \/ j = [i EXCEPT !.package = x]
           \/ j = [i EXCEPT !.package.files = x]
           \/ j = [i EXCEPT !.source[v] = x]
           \/ j = [i EXCEPT !.compiled[v] = x]
    PROVE  Recorded(j) /\ j.pin = i.pin
<1>1. Shaped(j) /\ j.pin = i.pin /\ j.manifest = i.manifest
  BY DEF Recorded, Shaped
<1>2. QED
  BY <1>1 DEF Recorded

LEMMA PinReplaced ==
    ASSUME NEW i, Recorded(i), NEW pin \in Pins, NEW j, j = [i EXCEPT !.pin = pin]
    PROVE  Recorded(j)
<1>1. Shaped(j) /\ j.pin = pin /\ j.manifest = i.manifest
  BY DEF Recorded, Shaped
<1>2. QED
  BY <1>1 DEF Recorded

LEMMA RecordReplaced ==
    ASSUME NEW i, Recorded(i), NEW m, NEW j, j = [i EXCEPT !.manifest = m],
           m = Torn \/ m.files = Compiled(Whole(Wanted(i.pin)), TRUE)
    PROVE  Recorded(j)
<1>1. Shaped(j) /\ j.pin = i.pin /\ j.manifest = m
  BY DEF Recorded, Shaped
<1>2. QED
  BY <1>1 DEF Recorded

(* No command forges a record. *)
LEMMA CommandRecorded ==
    ASSUME NEW i, Recorded(i), NEW j \in AfterCommand(i)
    PROVE  Recorded(j)
<1>1. CASE j \in NpmCi(i)
  <2>1. \E x : j = [i EXCEPT !.package = x]
    BY <1>1 DEF NpmCi
  <2>2. QED
    BY <2>1, FilesReplaced
<1>2. CASE j \in PrepareWorker(i)
  <2>1. j = i \/ \E x : j = [i EXCEPT !.package.files = x]
    BY <1>2 DEF PrepareWorker
  <2>2. QED
    BY <2>1, FilesReplaced
<1>3. CASE j \in FetchSource(i)
  <2>1. \E x : j = [i EXCEPT !.source[i.pin.version] = x]
    BY <1>3 DEF FetchSource
  <2>2. QED
    BY <2>1, FilesReplaced
<1>4. CASE j \in Update(i)
  <2>1. \E pin \in Pins : j = [i EXCEPT !.pin = pin]
    BY <1>4 DEF Update
  <2>2. QED
    BY <2>1, PinReplaced
<1>5. CASE j \in BuildSource(i)
  <2> DEFINE v == i.pin.version
             files == Whole(Wanted(i.pin))
             sourced(x) == [i EXCEPT !.source[v] = x]
             record == [version |-> v, lock |-> i.pin.lock, files |-> Compiled(files, TRUE)]
  <2>1. ASSUME NEW x PROVE Recorded(sourced(x)) /\ sourced(x).pin = i.pin
    BY FilesReplaced
  <2>2. ASSUME NEW x, NEW y, NEW k, k = [sourced(y) EXCEPT !.compiled[v] = x]
        PROVE  Recorded(k) /\ k.pin = i.pin
    <3>1. Recorded(sourced(y)) /\ sourced(y).pin = i.pin
      BY <2>1
    <3>2. k = [sourced(y) EXCEPT !.compiled[v] = x]
      BY <2>2
    <3> HIDE DEF sourced, v
    <3>3. QED
      BY <3>1, <3>2, FilesReplaced
  <2>3. ASSUME NEW k, Recorded(k), k.pin = i.pin, NEW m \in {Torn, record},
               j = [k EXCEPT !.manifest = m]
        PROVE  Recorded(j)
    <3>1. record.files = Compiled(files, TRUE)
      OBVIOUS
    <3> HIDE DEF record
    <3>2. QED
      BY <2>3, <3>1, RecordReplaced
  <2>4. \/ j = i
        \/ \E x : j = sourced(x)
        \/ \E x : j = [i EXCEPT !.source[v] = files, !.compiled[v] = x]
        \/ \E m \in {Torn, record} :
              j = [[i EXCEPT !.source[v] = files, !.compiled[v] = Compiled(files, TRUE)]
                     EXCEPT !.manifest = m]
    BY <1>5 DEF BuildSource
  <2>5. \A x : [i EXCEPT !.source[v] = files, !.compiled[v] = x]
                = [sourced(files) EXCEPT !.compiled[v] = x]
    OBVIOUS
  <2>6. CASE j = i \/ \E x : j = sourced(x)
    BY <2>1, <2>6
  <2>7. CASE \E x : j = [i EXCEPT !.source[v] = files, !.compiled[v] = x]
    BY <2>2, <2>5, <2>7
  <2>8. CASE \E m \in {Torn, record} :
                 j = [[i EXCEPT !.source[v] = files, !.compiled[v] = Compiled(files, TRUE)]
                        EXCEPT !.manifest = m]
    <3> DEFINE k == [i EXCEPT !.source[v] = files, !.compiled[v] = Compiled(files, TRUE)]
    <3>1. Recorded(k) /\ k.pin = i.pin
      BY <2>2, <2>5
    <3> HIDE DEF k, record
    <3>2. QED
      BY <2>3, <2>8, <3>1 DEF k
  <2>9. QED
    BY <2>4, <2>6, <2>7, <2>8
<1>6. QED
  BY <1>1, <1>2, <1>3, <1>4, <1>5 DEF AfterCommand

(* What a start accepts is the prepared package, or an output equal to the
   record of one complete build. *)
LEMMA StartPinned ==
    ASSUME NEW i, Recorded(i), NEW build \in Builds, StartsFrom(i, build)
    PROVE  \E pin \in Pins : WorkerCode(i, build) = Whole(Wanted(pin))
<1>1. CASE build = "package"
  BY <1>1 DEF StartsFrom, WorkerCode, Recorded
<1>2. CASE build = "source"
  <2>1. PICK pin \in Pins : i.manifest.files = Compiled(Whole(Wanted(pin)), TRUE)
    BY <1>2 DEF StartsFrom, Recorded
  <2>2. i.manifest.files = [f \in WorkerFiles |-> [text |-> Wanted(pin), linked |-> TRUE]]
    BY <2>1 DEF Compiled, Whole
  <2>3. \A f \in WorkerFiles :
            i.compiled[i.pin.version][f] = [text |-> Wanted(pin), linked |-> TRUE]
    BY <1>2, <2>2 DEF StartsFrom
  <2>4. [text |-> Wanted(pin), linked |-> TRUE] \notin {Absent, Torn}
    <3>1. [text |-> Wanted(pin), linked |-> TRUE] \in Emitted
      BY PinType DEF Emitted
    <3>2. QED
      BY <3>1, MarkersAssumption
  <2>5. WorkerCode(i, build) = [f \in WorkerFiles |-> Wanted(pin)]
    BY <1>2, <2>3, <2>4 DEF WorkerCode
  <2>6. QED
    BY <2>5 DEF Whole
<1>3. QED
  BY <1>1, <1>2 DEF Builds
-----------------------------------------------------------------------------
LEMMA InitIInv == Init => IInv
<1> SUFFICES ASSUME Init PROVE IInv
  OBVIOUS
<1> USE DEF Init
<1>1. TypeOK
  <2>1. events \in Seq(Statuses) /\ text \in [Savers -> Seq(Statuses)] /\ file \in Seq(Statuses)
    OBVIOUS
  <2>2. attempt \in 0..Attempts
    BY AttemptsAssumption
  <2>3. QED
    BY <2>1, <2>2 DEF TypeOK
<1>2. StartInv /\ StopInv /\ GatewayInv /\ EventInv
  BY DEF StartInv, StopInv, GatewayInv, EventInv, Savers
<1>3. InstallationInv
  <2>1. PICK pin \in Pins : installation = Clean(pin)
    OBVIOUS
  <2>2. installation.pin = pin /\ installation.manifest = Absent /\ Shaped(installation)
    BY <2>1 DEF Clean, Shaped
  <2>3. QED
    BY <2>2 DEF InstallationInv, Recorded
<1>4. SuccessMeansAsked /\ PinnedWorker
  BY DEF SuccessMeansAsked, PinnedWorker
<1>5. QED
  BY <1>1, <1>2, <1>3, <1>4 DEF IInv
-----------------------------------------------------------------------------
(* Appending an event keeps what was recorded before. *)
LEMMA Recording ==
    ASSUME TypeOK, NEW s \in Savers, NEW status \in Statuses, Save(s, status)
    PROVE  /\ events' \in Seq(Statuses)
           /\ saving' \in [Savers -> {"none", "mkdir", "write"}]
           /\ saving'[s] = "mkdir"
           /\ \A t \in Savers \ {s} : saving'[t] = saving[t]
           /\ (\E i \in DOMAIN events' : events'[i] = "stopped")
                <=> status = "stopped" \/ \E i \in DOMAIN events : events[i] = "stopped"
<1>1. events \in Seq(Statuses) /\ saving \in [Savers -> {"none", "mkdir", "write"}]
  BY DEF TypeOK
<1>2. /\ events' \in Seq(Statuses)
      /\ Len(events') = Len(events) + 1
      /\ \A i \in 1..Len(events) : events'[i] = events[i]
      /\ events'[Len(events) + 1] = status
      /\ DOMAIN events' = 1..Len(events') /\ DOMAIN events = 1..Len(events)
      /\ Len(events) \in Nat
  BY <1>1 DEF Save
<1>3. /\ saving' \in [Savers -> {"none", "mkdir", "write"}]
      /\ saving'[s] = "mkdir"
      /\ \A t \in Savers \ {s} : saving'[t] = saving[t]
  BY <1>1 DEF Save
<1>4. ASSUME status = "stopped"
      PROVE  \E i \in DOMAIN events' : events'[i] = "stopped"
  BY <1>2, <1>4
<1>5. ASSUME NEW i \in DOMAIN events, events[i] = "stopped"
      PROVE  \E k \in DOMAIN events' : events'[k] = "stopped"
  BY <1>2, <1>5
<1>6. ASSUME NEW k \in DOMAIN events', events'[k] = "stopped", status # "stopped"
      PROVE  \E i \in DOMAIN events : events[i] = "stopped"
  <2>1. k \in 1..Len(events)
    BY <1>2, <1>6
  <2>2. QED
    BY <1>2, <1>6, <2>1
<1>7. QED
  BY <1>2, <1>3, <1>4, <1>5, <1>6

LEMMA SaversType == "start" \in Savers /\ "stop" \in Savers /\ "start" # "stop"
  BY DEF Savers

(* The installer's steps and the start of the runner. *)
LEMMA CommandIInv ==
    ASSUME IInv, Command \/ Start
    PROVE  IInv'
<1> USE DEF IInv
<1>1. /\ runner = "none" /\ start = "preflight"
      /\ runner' \in {"none", "running"}
      /\ UNCHANGED <<start, attempt, workerError, worker, code, gateway, shutdown, reload, events,
                     saving, text, disk>>
  BY DEF Command, Start, StartInv, process, forked, installed
<1>2. InstallationInv'
  BY <1>1, CommandRecorded DEF Command, Start, InstallationInv, forked, installed
<1>3. TypeOK'
  BY <1>1 DEF TypeOK, shutdown, disk
<1>4. QED
  BY <1>1, <1>2, <1>3 DEF StartInv, StopInv, GatewayInv, EventInv, SuccessMeansAsked,
      PinnedWorker, Exited, shutdown

LEMMA PreflightIInv ==
    ASSUME IInv, Preflight
    PROVE  IInv'
<1> USE DEF IInv
<1>1. /\ runner = "running" /\ start = "preflight" /\ worker = "none" /\ stopping = "none"
      /\ saving["start"] = "none" /\ ~\E i \in DOMAIN events : events[i] = "stopped"
      /\ UNCHANGED <<runner, attempt, workerError, gateway, stopping, unexpected, closing, reload,
                     text, overlap, file>>
  BY DEF Preflight, Running, StartInv, StopInv, GatewayInv, shutdown, disk
<1>2. CASE start' = "refused" /\ UNCHANGED <<forked, events, saving>>
  <2>1. TypeOK'
    BY <1>1, <1>2 DEF TypeOK, forked
  <2>2. QED
    BY <1>1, <1>2, <2>1 DEF StartInv, StopInv, GatewayInv, InstallationInv, EventInv,
        SuccessMeansAsked, PinnedWorker, Exited, forked, installed
<1>3. ASSUME NEW build \in Builds, StartsFrom(installation, build),
             code' = WorkerCode(installation, build), Fork
      PROVE  IInv'
  <2>1. Save("start", "starting") /\ start' = "starting" /\ worker' = "up"
    BY <1>3 DEF Fork
  <2>2. /\ events' \in Seq(Statuses)
        /\ saving' \in [Savers -> {"none", "mkdir", "write"}]
        /\ saving'["start"] = "mkdir" /\ saving'["stop"] = saving["stop"]
        /\ ~\E i \in DOMAIN events' : events'[i] = "stopped"
    BY <1>1, <2>1, Recording, SaversType DEF Statuses
  <2>3. TypeOK'
    BY <1>1, <2>1, <2>2 DEF TypeOK
  <2>4. PinnedWorker'
    BY <1>1, <1>3, StartPinned DEF InstallationInv, PinnedWorker
  <2>5. QED
    BY <1>1, <2>1, <2>2, <2>3, <2>4
    DEF StartInv, StopInv, GatewayInv, InstallationInv, EventInv, SuccessMeansAsked
<1>4. QED
  BY <1>2, <1>3 DEF Preflight

(* A stop that begins closes the gateway; one that has begun goes on. *)
LEMMA Beginning ==
    ASSUME TypeOK, GatewayInv, BeginStop
    PROVE  /\ stopping' \in {"gateway", "worker", "save", "done", "rejected"}
           /\ gateway' \in {"none", "closing", "closed"}
           /\ stopping' # "gateway" => gateway' \in {"none", "closed"}
           /\ stopping # "none" => UNCHANGED <<stopping, gateway>>
           /\ stopping' = "save" <=> stopping = "save"
           /\ gateway \in {"none", "closed"} => UNCHANGED gateway
  BY DEF TypeOK, GatewayInv, BeginStop

(* A stop begun by a failing start, a signal or the worker's exit. *)
LEMMA StopBegunIInv ==
    ASSUME IInv, BeginStop,
           start' \in {"serving", "failed"}, start' = "serving" => start = "serving",
           start' = "failed" => start \notin {"preflight", "refused"},
           UNCHANGED <<runner, workerError, code, reload, events, text>>,
           runner = "running",
           attempt' \in 0..Attempts,
           worker' = worker \/ (worker # "none" /\ worker' = "exited"),
           unexpected' \in BOOLEAN, closing' \in BOOLEAN, unexpected => unexpected',
           closing => closing',
           closing' \/ unexpected' \/ start' = "failed",
           saving' \in [Savers -> {"none", "mkdir", "write"}],
           saving'["start"] = "none", saving'["stop"] = saving["stop"],
           overlap' \in BOOLEAN, file' = Torn \/ file' \in Seq(Statuses)
    PROVE  IInv'
<1> USE Beginning DEF IInv
<1>1. TypeOK'
  BY DEF TypeOK
<1>2. StartInv'
  BY DEF StartInv, TypeOK
<1>3. StopInv' /\ GatewayInv'
  BY DEF StopInv, GatewayInv
<1>4. InstallationInv' /\ PinnedWorker' /\ SuccessMeansAsked'
  BY DEF InstallationInv, PinnedWorker, SuccessMeansAsked
<1>5. EventInv'
  BY DEF EventInv, Exited, GatewayInv
<1>6. QED
  BY <1>1, <1>2, <1>3, <1>4, <1>5

(* The readiness loop, the gateway's listener and the worker. *)
LEMMA CheckWorkerIInv ==
    ASSUME IInv, CheckWorker
    PROVE  IInv'
<1> USE DEF IInv
<1>1. /\ runner = "running" /\ start = "readiness" /\ saving["start"] = "none"
      /\ UNCHANGED <<runner, workerError, worker, code, unexpected, closing, reload, events, saving,
                     text, overlap, file>>
  BY DEF CheckWorker, Running, StartInv, forked, installed, disk
<1>2. CASE Fail /\ UNCHANGED attempt
  BY <1>1, <1>2, StopBegunIInv DEF Fail, TypeOK
<1>3. CASE start' = "probing" /\ attempt' = attempt + 1 /\ UNCHANGED <<stopping, gateway>> /\ attempt # Attempts
  <2>1. attempt' \in 0..Attempts
    <3>1. attempt \in 0..Attempts
      BY DEF TypeOK
    <3>2. QED
      BY <1>3, <3>1, AttemptsAssumption
  <2>2. TypeOK'
    BY <1>1, <1>3, <2>1 DEF TypeOK
  <2>3. QED
    BY <1>1, <1>3, <2>2 DEF StartInv, StopInv, GatewayInv, InstallationInv, PinnedWorker,
        SuccessMeansAsked, EventInv, Exited
<1>4. QED
  BY <1>2, <1>3 DEF CheckWorker

LEMMA ProbeIInv ==
    ASSUME IInv, Probe
    PROVE  IInv'
<1> USE DEF IInv, Probe, forked, installed, shutdown, disk
<1>1. TypeOK'
  BY DEF TypeOK
<1>2. QED
  BY <1>1 DEF StartInv, StopInv, GatewayInv, InstallationInv, PinnedWorker, SuccessMeansAsked,
      EventInv, Exited

LEMMA OpenGatewayIInv ==
    ASSUME IInv, OpenGateway
    PROVE  IInv'
<1> USE DEF IInv
<1>1. /\ runner = "running" /\ start = "opening" /\ saving["start"] = "none" /\ stopping = "none"
      /\ ~\E i \in DOMAIN events : events[i] = "stopped"
      /\ UNCHANGED <<runner, attempt, workerError, worker, code, installation, unexpected, closing,
                     reload, text, overlap, file>>
  BY DEF OpenGateway, Running, StartInv, StopInv, GatewayInv, forked, installed, disk
<1>2. CASE Fail /\ UNCHANGED <<events, saving>>
  BY <1>1, <1>2, StopBegunIInv DEF Fail, TypeOK
<1>3. CASE gateway' = "open" /\ start' = "announcing" /\ Save("start", "ready") /\ UNCHANGED stopping
  <2>1. /\ events' \in Seq(Statuses)
        /\ saving' \in [Savers -> {"none", "mkdir", "write"}]
        /\ saving'["start"] = "mkdir" /\ saving'["stop"] = saving["stop"]
        /\ ~\E i \in DOMAIN events' : events'[i] = "stopped"
    BY <1>1, <1>3, Recording, SaversType DEF Statuses
  <2>2. TypeOK'
    BY <1>1, <1>3, <2>1 DEF TypeOK
  <2>3. QED
    BY <1>1, <1>3, <2>1, <2>2 DEF StartInv, StopInv, GatewayInv, InstallationInv, PinnedWorker,
        SuccessMeansAsked, EventInv
<1>4. QED
  BY <1>2, <1>3 DEF OpenGateway

LEMMA WorkerIInv ==
    ASSUME IInv, WorkerReports \/ WorkerHangs \/ WorkerExits
    PROVE  IInv'
<1> USE DEF IInv
<1>1. CASE WorkerReports \/ WorkerHangs
  <2>1. /\ worker = "up" /\ worker' \in {"up", "hung"} /\ workerError' \in BOOLEAN
        /\ UNCHANGED <<runner, start, attempt, installation, code, gateway, stopping, unexpected,
                       closing, reload, events, saving, text, overlap, file>>
    BY <1>1 DEF WorkerReports, WorkerHangs, ReportHeard, TypeOK, process, forked, installed, shutdown, disk
  <2>2. {workerError', unexpected', closing', overlap'} \subseteq BOOLEAN
    BY <2>1 DEF TypeOK
  <2>3. worker' \in {"none", "up", "hung", "terminating", "exited"}
    BY <2>1
  <2>4. TypeOK'
    BY <2>1, <2>2, <2>3 DEF TypeOK
  <2>5. QED
    BY <2>1, <2>4 DEF StartInv, StopInv, GatewayInv, InstallationInv, PinnedWorker,
        SuccessMeansAsked, EventInv, Exited
<1>2. CASE WorkerExits
  <2>1. /\ worker # "none" /\ worker' = "exited"
        /\ UNCHANGED <<runner, start, attempt, workerError, installation, code, closing, reload,
                       events, saving, text, overlap, file>>
    BY <1>2 DEF WorkerExits, Alive, process, installed, disk
  <2>2. CASE Running /\ start = "serving" /\ stopping = "none"
    <3>1. unexpected' = TRUE /\ BeginStop
      BY <1>2, <2>2 DEF WorkerExits
    <3>2. saving["start"] = "none"
      BY <2>2 DEF StartInv
    <3>3. QED
      BY <2>1, <2>2, <3>1, <3>2, StopBegunIInv DEF TypeOK, Running
  <2>3. CASE ~(Running /\ start = "serving" /\ stopping = "none")
    <3>1. UNCHANGED <<unexpected, stopping, gateway>>
      BY <1>2, <2>3 DEF WorkerExits
    <3>2. TypeOK'
      BY <2>1, <3>1 DEF TypeOK
    <3>3. QED
      BY <2>1, <3>1, <3>2 DEF StartInv, StopInv, GatewayInv, InstallationInv, PinnedWorker,
          SuccessMeansAsked, EventInv, Exited
  <2>4. QED
    BY <2>2, <2>3
<1>3. QED
  BY <1>1, <1>2

LEMMA SignalIInv ==
    ASSUME IInv, Signal
    PROVE  IInv'
<1> USE DEF IInv
<1>1. saving["start"] = "none"
  BY DEF Signal, StartInv
<1>2. QED
  BY <1>1, StopBegunIInv DEF Signal, Running, TypeOK, process, forked, installed, disk

(* The gateway is closed, and the worker gone, before "stopped" is recorded. *)
LEMMA StoppedIInv ==
    ASSUME IInv, GatewayStopped \/ WorkerStopped
    PROVE  IInv'
<1> USE DEF IInv
<1>1. /\ runner = "running" /\ stopping \in {"gateway", "worker"} /\ worker # "none"
      /\ saving["stop"] = "none"
      /\ UNCHANGED <<runner, start, attempt, workerError, installation, code, unexpected, closing,
                     reload, text, overlap, file>>
  BY DEF GatewayStopped, WorkerStopped, Running, StartInv, StopInv, process, forked, installed, disk
<1>2. gateway' \in {"none", "closed"}
  BY DEF GatewayStopped, WorkerStopped, GatewayInv, TypeOK
<1>3. CASE stopping' = "save" /\ Save("stop", "stopped") /\ UNCHANGED worker /\ Exited
  <2>1. /\ events' \in Seq(Statuses)
        /\ saving' \in [Savers -> {"none", "mkdir", "write"}]
        /\ saving'["stop"] = "mkdir" /\ saving'["start"] = saving["start"]
    BY <1>3, Recording, SaversType DEF Statuses
  <2>2. TypeOK'
    BY <1>1, <1>2, <1>3, <2>1 DEF TypeOK
  <2>3. QED
    BY <1>1, <1>2, <1>3, <2>1, <2>2 DEF StartInv, StopInv, GatewayInv, InstallationInv,
        PinnedWorker, SuccessMeansAsked, EventInv, Exited
<1>4. CASE stopping' = "worker" /\ worker' = "terminating" /\ UNCHANGED <<events, saving>> /\ ~Exited
  <2>1. TypeOK'
    BY <1>1, <1>2, <1>4 DEF TypeOK
  <2>2. QED
    BY <1>1, <1>2, <1>4, <2>1 DEF StartInv, StopInv, GatewayInv, InstallationInv,
        PinnedWorker, SuccessMeansAsked, EventInv, Exited
<1>5. QED
  BY <1>3, <1>4 DEF GatewayStopped, WorkerStopped, forked

LEMMA HangupIInv ==
    ASSUME IInv, NEW r \in Reloads, Hangup(r)
    PROVE  IInv'
<1> USE DEF IInv, Hangup, process, forked, installed, shutdown, disk
<1>1. TypeOK'
  BY DEF TypeOK
<1>2. QED
  BY <1>1 DEF StartInv, StopInv, GatewayInv, InstallationInv, PinnedWorker, SuccessMeansAsked,
      EventInv, Exited

LEMMA ReloadIInv ==
    ASSUME IInv, NEW r \in Reloads, Reload(r)
    PROVE  IInv'
<1> USE DEF IInv
<1>1. /\ runner = "running"
      /\ reload' \in [Reloads -> {"none", "loading", "saving", "done"}]
      /\ UNCHANGED <<runner, start, attempt, workerError, worker, installation, code, gateway,
                     stopping, unexpected, closing, text, overlap, file>>
  BY DEF Reload, Running, TypeOK, process, forked, installed, shutdown, disk
<1>2. /\ events' \in Seq(Statuses)
      /\ saving' \in [Savers -> {"none", "mkdir", "write"}]
      /\ saving'["stop"] = saving["stop"] /\ saving'["start"] = saving["start"]
      /\ (\E i \in DOMAIN events' : events'[i] = "stopped")
           => \E i \in DOMAIN events : events[i] = "stopped"
  <2>1. CASE Save(r, "reloaded")
    <3>1. r \in Savers /\ r # "start" /\ r # "stop" /\ "reloaded" \in Statuses
      BY ReloadsAssumption DEF Savers, Statuses
    <3>2. QED
      BY <2>1, <3>1, Recording, SaversType
  <2>2. CASE UNCHANGED <<events, saving>>
    BY <2>2 DEF TypeOK
  <2>3. QED
    BY <2>1, <2>2 DEF Reload
<1>3. TypeOK'
  BY <1>1, <1>2 DEF TypeOK
<1>4. QED
  BY <1>1, <1>2, <1>3 DEF StartInv, StopInv, GatewayInv, InstallationInv, PinnedWorker,
      SuccessMeansAsked, EventInv, Exited

(* Most variables keep their types because they are left alone. *)
LEMMA Retyped ==
    ASSUME TypeOK,
           UNCHANGED <<runner, start, attempt, worker, gateway, stopping, reload, events, file>>,
           text' \in [Savers -> Seq(Statuses)],
           saving' \in [Savers -> {"none", "mkdir", "write"}],
           {workerError', unexpected', closing', overlap'} \subseteq BOOLEAN
    PROVE  TypeOK'
<1>1. (/\ runner \in {"none", "running", "exit 0", "exit 1", "killed"}
       /\ start \in {"preflight", "refused", "starting", "readiness", "probing", "opening",
                     "announcing", "serving", "failed"}
       /\ attempt \in 0..Attempts)'
  BY DEF TypeOK
<1>2. (/\ worker \in {"none", "up", "hung", "terminating", "exited"}
       /\ gateway \in {"none", "open", "closing", "closed"}
       /\ stopping \in {"none", "gateway", "worker", "save", "done", "rejected"})'
  BY DEF TypeOK
<1>3. (/\ reload \in [Reloads -> {"none", "loading", "saving", "done"}]
       /\ events \in Seq(Statuses))'
  BY DEF TypeOK
<1>4. (file = Torn \/ file \in Seq(Statuses))'
  BY DEF TypeOK
<1>5. QED
  BY <1>1, <1>2, <1>3, <1>4 DEF TypeOK

(* A write is opened: what it will write is fixed. *)
LEMMA OpenWriteIInv ==
    ASSUME IInv, NEW s \in Savers, OpenWrite(s)
    PROVE  IInv'
<1> USE DEF IInv
<1>1. /\ saving[s] = "mkdir" /\ saving' = [saving EXCEPT ![s] = "write"]
      /\ text' = [text EXCEPT ![s] = events]
      /\ overlap' \in BOOLEAN
      /\ UNCHANGED <<runner, start, attempt, workerError, worker, installation, code, gateway,
                     stopping, unexpected, closing, reload, events, file>>
  BY DEF OpenWrite, TypeOK, process, forked, installed, shutdown
<1>2. /\ saving' \in [Savers -> {"none", "mkdir", "write"}]
      /\ \A t \in Savers : saving'[t] # "none" <=> saving[t] # "none"
  BY <1>1 DEF TypeOK
<1>3. TypeOK'
  <2>1. text' \in [Savers -> Seq(Statuses)]
    BY <1>1 DEF TypeOK
  <2>2. {workerError', unexpected', closing', overlap'} \subseteq BOOLEAN
    BY <1>1 DEF TypeOK
  <2>3. /\ UNCHANGED <<runner, start, attempt, worker, gateway, stopping, reload, events, file>>
        /\ saving' \in [Savers -> {"none", "mkdir", "write"}]
    BY <1>1, <1>2
  <2>4. QED
    BY <2>1, <2>2, <2>3, Retyped
<1>4. QED
  BY <1>1, <1>2, <1>3, SaversType DEF StartInv, StopInv, GatewayInv, InstallationInv,
      PinnedWorker, SuccessMeansAsked, EventInv, Exited

(* A save that ends, well or not, lets its caller go on. *)
LEMMA ResumeIInv ==
    ASSUME IInv, NEW s \in Savers, NEW ok \in BOOLEAN, Running,
           saving[s] # "none", saving' = [saving EXCEPT ![s] = "none"],
           file' = Torn \/ file' \in Seq(Statuses), overlap' \in BOOLEAN,
           Resume(s, ok),
           UNCHANGED <<runner, attempt, workerError, forked, unexpected, closing, events, text>>
    PROVE  IInv'
<1> USE DEF IInv
<1>1. /\ saving' \in [Savers -> {"none", "mkdir", "write"}]
      /\ saving'[s] = "none" /\ \A t \in Savers \ {s} : saving'[t] = saving[t]
  BY DEF TypeOK
<1>2. UNCHANGED <<worker, installation, code>>
  BY DEF forked, installed
<1>3. {workerError', unexpected', closing', overlap'} \subseteq BOOLEAN
  BY DEF TypeOK
<1>4. CASE s = "start"
  <2>1. start \in {"starting", "announcing"} /\ stopping = "none"
    BY <1>4 DEF StartInv, StopInv
  <2>2. saving'["start"] = "none" /\ saving'["stop"] = saving["stop"]
    BY <1>1, <1>4, SaversType
  <2>3. CASE ok
    <3>1. start' \in {"readiness", "serving"} /\ UNCHANGED <<stopping, gateway, reload>>
      BY <1>4, <2>3 DEF Resume
    <3>2. TypeOK'
      BY <1>1, <1>2, <1>3, <3>1 DEF TypeOK
    <3>3. QED
      BY <1>2, <2>1, <2>2, <3>1, <3>2 DEF StartInv, StopInv, GatewayInv, InstallationInv,
          PinnedWorker, SuccessMeansAsked, EventInv, Exited
  <2>4. CASE ~ok
    <3>1. Fail /\ UNCHANGED reload
      BY <1>4, <2>4 DEF Resume
    <3>2. QED
      BY <1>1, <1>2, <2>1, <2>2, <3>1, StopBegunIInv DEF Fail, Running, TypeOK
  <2>5. QED
    BY <2>3, <2>4
<1>5. CASE s = "stop"
  <2>1. /\ stopping = "save" /\ stopping' \in {"done", "rejected"}
        /\ UNCHANGED <<start, gateway, reload>>
    BY <1>5, SaversType DEF StopInv, Resume
  <2>2. saving'["stop"] = "none" /\ saving'["start"] = saving["start"]
    BY <1>1, <1>5, SaversType
  <2>3. TypeOK'
    BY <1>1, <1>2, <1>3, <2>1 DEF TypeOK
  <2>4. QED
    BY <1>2, <2>1, <2>2, <2>3 DEF StartInv, StopInv, GatewayInv, InstallationInv,
        PinnedWorker, SuccessMeansAsked, EventInv, Exited
<1>6. CASE s \notin {"start", "stop"}
  <2>1. reload' = [reload EXCEPT ![s] = "done"] /\ UNCHANGED <<start, stopping, gateway>>
    BY <1>6 DEF Resume
  <2>2. saving'["stop"] = saving["stop"] /\ saving'["start"] = saving["start"]
    BY <1>1, <1>6, SaversType
  <2>3. reload' \in [Reloads -> {"none", "loading", "saving", "done"}]
    BY <2>1 DEF TypeOK
  <2>4. TypeOK'
    <3>1. UNCHANGED <<start, stopping, gateway>>
      BY <2>1
    <3>2. QED
      BY <1>1, <1>2, <1>3, <2>3, <3>1 DEF TypeOK
  <2>5. QED
    BY <1>2, <2>1, <2>2, <2>4 DEF StartInv, StopInv, GatewayInv, InstallationInv,
        PinnedWorker, SuccessMeansAsked, EventInv, Exited
<1>7. QED
  BY <1>4, <1>5, <1>6

LEMMA SaveEndsIInv ==
    ASSUME IInv, NEW s \in Savers, FinishWrite(s) \/ SaveFails(s)
    PROVE  IInv'
<1> USE DEF IInv
<1>1. CASE FinishWrite(s)
  <2>1. file' = Torn \/ file' \in Seq(Statuses)
    BY <1>1 DEF FinishWrite, TypeOK
  <2>2. overlap' \in BOOLEAN
    BY <1>1 DEF FinishWrite
  <2>3. saving[s] # "none"
    BY <1>1 DEF FinishWrite
  <2>4. QED
    BY <1>1, <2>1, <2>2, <2>3, ResumeIInv DEF FinishWrite
<1>2. CASE SaveFails(s)
  <2>1. file' = Torn \/ file' \in Seq(Statuses)
    BY <1>2 DEF SaveFails, TypeOK
  <2>2. overlap' \in BOOLEAN
    BY <1>2 DEF SaveFails
  <2>3. QED
    BY <1>2, <2>1, <2>2, ResumeIInv DEF SaveFails
<1>3. QED
  BY <1>1, <1>2

(* The runner reports success only for a stop that a signal asked for. *)
LEMMA EndIInv ==
    ASSUME IInv, End \/ Kill
    PROVE  IInv'
<1> USE DEF IInv
<1>1. /\ runner = "running"
      /\ UNCHANGED <<start, attempt, workerError, worker, installation, code, gateway, stopping,
                     unexpected, closing, reload, events, saving, text, overlap>>
  BY DEF End, Kill, Running, forked, installed, shutdown
<1>2. file' = Torn \/ file' \in Seq(Statuses)
  BY DEF End, Kill, TypeOK
<1>3. runner' \in {"exit 0", "exit 1", "killed"}
  BY DEF End, Kill, Ended
<1>4. runner' = "exit 0" => closing
  BY DEF End, Kill, Ended, StopInv
<1>5. TypeOK'
  BY <1>1, <1>2, <1>3 DEF TypeOK
<1>6. QED
  BY <1>1, <1>3, <1>4, <1>5 DEF StartInv, StopInv, GatewayInv, InstallationInv, PinnedWorker,
      SuccessMeansAsked, EventInv, Exited
-----------------------------------------------------------------------------
LEMMA NextIInv ==
    ASSUME IInv, [Next]_vars
    PROVE  IInv'
<1>1. CASE RunnerStep
  BY <1>1, PreflightIInv, CheckWorkerIInv, ProbeIInv, OpenGatewayIInv, StoppedIInv, ReloadIInv,
     OpenWriteIInv, SaveEndsIInv, EndIInv DEF RunnerStep
<1>2. CASE UNCHANGED vars
  <2> USE <1>2 DEF vars, process, forked, installed, shutdown, disk, IInv
  <2>1. TypeOK'
    <3>1. /\ text' \in [Savers -> Seq(Statuses)]
          /\ saving' \in [Savers -> {"none", "mkdir", "write"}]
          /\ {workerError', unexpected', closing', overlap'} \subseteq BOOLEAN
      BY DEF TypeOK
    <3>2. QED
      BY <3>1, Retyped
  <2>2. StartInv' /\ StopInv' /\ GatewayInv'
    BY DEF StartInv, StopInv, GatewayInv
  <2>3. InstallationInv' /\ PinnedWorker' /\ SuccessMeansAsked' /\ EventInv'
    BY DEF InstallationInv, PinnedWorker, SuccessMeansAsked, EventInv, Exited
  <2>4. QED
    BY <2>1, <2>2, <2>3
<1>3. QED
  BY <1>1, <1>2, CommandIInv, SaveEndsIInv, WorkerIInv, SignalIInv, EndIInv, HangupIInv DEF Next

LEMMA Inductive == Spec => []IInv
  BY InitIInv, NextIInv, PTL DEF Spec

-----------------------------------------------------------------------------
(* What a write of the lifecycle file holds are events that were recorded. *)
Past(record) == DOMAIN record \subseteq DOMAIN events /\ \A i \in DOMAIN record : record[i] = events[i]

HistoryInv == (\A s \in Savers : Past(text[s])) /\ (file # Torn => Past(file))

(* Events are only added. *)
LEMMA PastKept ==
    ASSUME TypeOK, NEW record, Past(record),
           UNCHANGED events \/ \E status \in Statuses : events' = Append(events, status)
    PROVE  DOMAIN record \subseteq DOMAIN events' /\ \A i \in DOMAIN record : record[i] = events'[i]
<1>1. CASE UNCHANGED events
  BY <1>1 DEF Past
<1>2. ASSUME NEW status \in Statuses, events' = Append(events, status)
      PROVE  DOMAIN events \subseteq DOMAIN events' /\ \A i \in DOMAIN events : events'[i] = events[i]
  <2>1. events \in Seq(Statuses)
    BY DEF TypeOK
  <2>2. QED
    BY <1>2, <2>1
<1>3. QED
  BY <1>1, <1>2 DEF Past

LEMMA History == Spec => []HistoryInv
<1>1. Init => HistoryInv
  BY DEF Init, HistoryInv, Past
<1>2. ASSUME TypeOK, HistoryInv, [Next]_vars PROVE HistoryInv'
  <2> USE DEF disk, vars, process, shutdown, forked
  <2>1. UNCHANGED events \/ \E status \in Statuses : events' = Append(events, status)
    <3>1. "starting" \in Statuses /\ "ready" \in Statuses /\ "reloaded" \in Statuses /\ "stopped" \in Statuses
      BY DEF Statuses
    <3>2. QED
      BY <1>2, <3>1 DEF Next, RunnerStep, Command, Start, Preflight, Fork, Save, OpenWrite, FinishWrite,
         SaveFails, CheckWorker, Probe, OpenGateway, WorkerReports, WorkerHangs, WorkerExits, Signal,
         GatewayStopped, WorkerStopped, Hangup, Reload, End, Kill
  <2>2. UNCHANGED text \/ \E s \in Savers : text' = [text EXCEPT ![s] = events] /\ UNCHANGED events
    BY <1>2 DEF Next, RunnerStep, Command, Start, Preflight, OpenWrite, FinishWrite,
       SaveFails, CheckWorker, Probe, OpenGateway, WorkerReports, WorkerHangs, WorkerExits, Signal,
       GatewayStopped, WorkerStopped, Hangup, Reload, End, Kill
  <2>3. file' \in {file, Torn} \/ \E s \in Savers : file' = text[s]
    BY <1>2 DEF Next, RunnerStep, Command, Start, Preflight, OpenWrite, FinishWrite,
       SaveFails, CheckWorker, Probe, OpenGateway, WorkerReports, WorkerHangs, WorkerExits, Signal,
       GatewayStopped, WorkerStopped, Hangup, Reload, End, Kill
  <2>4. ASSUME NEW s \in Savers
        PROVE  DOMAIN text'[s] \subseteq DOMAIN events' /\ \A i \in DOMAIN text'[s] : text'[s][i] = events'[i]
    <3>1. text'[s] = text[s] \/ (text'[s] = events /\ UNCHANGED events)
      BY <1>2, <2>2 DEF TypeOK
    <3>2. QED
      BY <1>2, <2>1, <3>1, PastKept DEF HistoryInv
  <2>5. ASSUME file' # Torn
        PROVE  DOMAIN file' \subseteq DOMAIN events' /\ \A i \in DOMAIN file' : file'[i] = events'[i]
    BY <1>2, <2>1, <2>3, <2>5, PastKept DEF HistoryInv
  <2>6. QED
    BY <2>4, <2>5 DEF HistoryInv, Past
<1>3. IInv => TypeOK
  BY DEF IInv
<1>4. QED
  BY <1>1, <1>2, <1>3, Inductive, PTL DEF Spec
-----------------------------------------------------------------------------
(* Every variable keeps its type, the lifecycle file is a text some save()
   wrote or a torn one. *)
THEOREM TypeCorrect == Spec => []TypeOK
<1>1. IInv => TypeOK
  BY DEF IInv
<1>2. QED
  BY <1>1, Inductive, PTL

(* Whoever reads "stopped" in the lifecycle file, whatever writes it met: the
   worker is gone and the port closed. *)
THEOREM CleanStop == Spec => []StoppedIsClean
<1>1. IInv /\ HistoryInv => StoppedIsClean
  <2> SUFFICES ASSUME IInv, HistoryInv, file # Torn, Shows(file) PROVE Shows(events)
    BY DEF IInv, EventInv, StoppedIsClean, Shows
  <2>1. Past(file)
    BY DEF HistoryInv
  <2>2. QED
    BY <2>1 DEF Past, Shows
<1>2. QED
  BY <1>1, Inductive, History, PTL

(* A supervisor that restarts on failure restarts the service unless an
   operator stopped it. *)
THEOREM Asked == Spec => []SuccessMeansAsked
<1>1. IInv => SuccessMeansAsked
  BY DEF IInv
<1>2. QED
  BY <1>1, Inductive, PTL

(* No sequence of installs, updates, builds and kills lets a start fork a
   worker whose files no complete prepare or build produced. *)
THEOREM Pinned == Spec => []PinnedWorker
<1>1. IInv => PinnedWorker
  BY DEF IInv
<1>2. QED
  BY <1>1, Inductive, PTL
=============================================================================
