--------------------------------- MODULE Gateway ---------------------------------
(***************************************************************************)
(* infra/bundler/src/gateway.mjs and the reload of service.mjs: the private *)
(* bundler's HTTP gateway.  A request is accepted against a token bucket    *)
(* and a concurrency limit, its body is read, it is checked against the     *)
(* configuration of that moment and forwarded to the worker.  SIGHUPs       *)
(* reload the configuration at any await; two of them may overlap.  /health *)
(* and /metrics change nothing and are left out, as is who may connect.     *)
(***************************************************************************)
EXTENDS Admission

CONSTANTS Slots,        \* places for a request at the gateway
          Files,        \* the contents the configuration file takes, in order
          Hangups,      \* the SIGHUPs of a run
          Minute,       \* ticks in a minute, the bucket's unit of time
          None

Sends == {"eth_sendUserOperation", "eth_estimateUserOperationGas"}
Methods == Sends \cup {"eth_supportedEntryPoints", "eth_getUserOperationReceipt"}
Ends == {"limited", "rejected", "upstream error", "forwarded"}

VARIABLES current,      \* the configuration in force
          credit,       \* tokens available, times Minute
          elapsed,      \* ticks since the last refill, at most a Minute
          active,       \* the concurrency counter
          counters,     \* /metrics
          request,      \* per slot: [phase, message, end, result]
          file,         \* how often the configuration file was edited
          load,         \* per SIGHUP: the step of reload(), and the contents read
          since,        \* requests accepted and ticks since the start or the last reload
          settled       \* history: signal, the file's version when the reloads under way
                        \* began; floor, what a finished reload settled: the configuration
                        \* in force is of that version or later; at, per slot: the floor
                        \* when its request was forwarded

vars == <<current, credit, elapsed, active, counters, request, file, load, since, settled>>

Idle == [phase |-> "none", message |-> None, end |-> "none", result |-> None]
InProgress == {s \in Slots : request[s].phase \in {"reading", "forwarding"}}

Contents == {Files[i] : i \in DOMAIN Files}

TypeOK ==
    /\ current \in Contents /\ file \in DOMAIN Files
    /\ credit \in Nat /\ elapsed \in 0..Minute /\ active \in Nat
    /\ counters \in [requests : Nat, admitted : Nat, rejected : Nat, upstreamErrors : Nat, reloads : Nat]
    /\ DOMAIN request = Slots
    /\ \A s \in Slots :
         /\ DOMAIN request[s] = {"phase", "message", "end", "result"}
         /\ request[s].phase \in {"none", "reading", "forwarding", "done"}
         /\ request[s].end \in Ends \cup {"none"}
    /\ load \in [Hangups -> [step : {"none", "loading", "read", "done"}, content : Contents \cup {None}]]
    /\ since \in [accepted : Nat, ticks : Nat]
    /\ settled \in [signal : DOMAIN Files, floor : DOMAIN Files, at : [Slots -> DOMAIN Files]]

Init ==
    /\ current = Files[1]
    /\ credit = Files[1].requestsPerMinute * Minute
    /\ elapsed = 0
    /\ active = 0
    /\ counters = [requests |-> 0, admitted |-> 0, rejected |-> 0, upstreamErrors |-> 0, reloads |-> 0]
    /\ request = [s \in Slots |-> Idle]
    /\ file = 1
    /\ load = [h \in Hangups |-> [step |-> "none", content |-> None]]
    /\ since = [accepted |-> 0, ticks |-> 0]
    /\ settled = [signal |-> 1, floor |-> 1, at |-> [s \in Slots |-> 1]]

Least(x, y) == IF x < y THEN x ELSE y

(* The request's line and headers have arrived: refill, then the limits.   *)
Refilled == Least(current.requestsPerMinute * Minute, credit + elapsed * current.requestsPerMinute)

Arrive(s, message) ==
    /\ request[s].phase = "none"
    /\ elapsed' = 0
    /\ IF Refilled < Minute \/ active >= current.maxConcurrent
       THEN /\ credit' = Refilled
            /\ request' = [request EXCEPT ![s] = [Idle EXCEPT !.phase = "done", !.end = "limited"]]
            /\ UNCHANGED <<active, counters, since>>
       ELSE /\ credit' = Refilled - Minute
            /\ active' = active + 1
            /\ counters' = [counters EXCEPT !.requests = @ + 1]
            /\ request' = [request EXCEPT ![s] = [Idle EXCEPT !.phase = "reading", !.message = message]]
            /\ since' = [since EXCEPT !.accepted = @ + 1]
    /\ UNCHANGED <<current, file, load, settled>>

(* Mutant: a slot is given back only with an answer. *)
RejectKeepsSlot(s) ==
    /\ request' = [request EXCEPT ![s].phase = "done", ![s].message = None, ![s].end = "rejected", ![s].result = None]
    /\ counters' = [counters EXCEPT !.rejected = @ + 1]
    /\ UNCHANGED active

(* The catch and finally blocks. *)
Reject(s) ==
    /\ request' = [request EXCEPT ![s].phase = "done", ![s].message = None, ![s].end = "rejected", ![s].result = None]
    /\ counters' = [counters EXCEPT !.rejected = @ + 1]
    /\ active' = active - 1

(* Whether the parsed request is forwarded. *)
Accepts(message, config) ==
    /\ message.wellFormed /\ message.method \in Methods
    /\ message.method \in Sends =>
         AdmitOperation(message.op, config, message.method = "eth_estimateUserOperationGas")

(* fetch() to the worker begins.                                           *)
Forward(s) ==
    /\ request' = [request EXCEPT ![s].phase = "forwarding"]
    /\ settled' = [settled EXCEPT !.at[s] = settled.floor]
    /\ UNCHANGED <<active, counters>>

(* Mutant: the configuration is that of the start, whatever was reloaded. *)
DecideStale(s) ==
    /\ request[s].phase = "reading"
    /\ \/ /\ Accepts(request[s].message, Files[1])
          /\ Forward(s)
       \/ Reject(s) /\ UNCHANGED settled
    /\ UNCHANGED <<current, credit, elapsed, file, load, since>>

(* Mutant: a request that is not admitted is left without an answer. *)
DecideOnlyAdmitted(s) ==
    /\ request[s].phase = "reading"
    /\ Accepts(request[s].message, current)
    /\ Forward(s) \/ (Reject(s) /\ UNCHANGED settled)
    /\ UNCHANGED <<current, credit, elapsed, file, load, since>>

(* The body's last chunk, or its error: aborted, too large, 15 s over.     *)
Decide(s) ==
    /\ request[s].phase = "reading"
    /\ \/ /\ Accepts(request[s].message, current)
          /\ Forward(s)
       \/ Reject(s) /\ UNCHANGED settled
    /\ UNCHANGED <<current, credit, elapsed, file, load, since>>

(* The worker's answer: a result, an error, or nothing that is JSON-RPC    *)
(* for this request before the timeout of the snapshot.                    *)
Answer(s, result) ==
    /\ request[s].phase = "forwarding"
    /\ \/ /\ request' = [request EXCEPT ![s].phase = "done", ![s].message = None, ![s].end = "forwarded", ![s].result = result]
          /\ counters' = [counters EXCEPT !.admitted = @ + 1]
          /\ active' = active - 1
       \/ /\ request' = [request EXCEPT ![s].phase = "done", ![s].message = None, ![s].end = "upstream error"]
          /\ counters' = [counters EXCEPT !.upstreamErrors = @ + 1]
          /\ active' = active - 1
       \/ Reject(s)
    /\ UNCHANGED <<current, credit, elapsed, file, load, since, settled>>

(* The client has its answer, or is gone. *)
Leave(s) ==
    /\ request[s].phase = "done"
    /\ request' = [request EXCEPT ![s] = Idle]
    /\ UNCHANGED <<current, credit, elapsed, active, counters, file, load, since, settled>>

Tick ==
    /\ elapsed' = Least(elapsed + 1, Minute)
    /\ since' = [since EXCEPT !.ticks = @ + 1]
    /\ UNCHANGED <<current, credit, active, counters, request, file, load, settled>>
---------------------------------------------------------------------------------
Edit ==
    /\ file < Len(Files)
    /\ file' = file + 1
    /\ UNCHANGED <<current, credit, elapsed, active, counters, request, load, since, settled>>

(* The reloads under way. *)
Loading == {h \in Hangups : load[h].step \in {"loading", "read"}}

Hangup(h) ==
    /\ load[h].step = "none"
    /\ load' = [load EXCEPT ![h].step = "loading"]
    /\ settled' = [settled EXCEPT !.signal = IF Loading = {} THEN file ELSE @]
    /\ UNCHANGED <<current, credit, elapsed, active, counters, request, file, since>>

(* loadConfig() has read the file; what follows waits for its turn.        *)
Read(h) ==
    /\ load[h].step = "loading"
    /\ load' = [load EXCEPT ![h] = [step |-> "read", content |-> Files[file]]]
    /\ UNCHANGED <<current, credit, elapsed, active, counters, request, file, since, settled>>

(* reload(): validated, compared with what only a restart may change, and  *)
(* in force, or the previous configuration is retained.                    *)
Apply(h) ==
    LET next == load[h].content
    IN /\ load[h].step = "read"
       /\ load' = [load EXCEPT ![h] = [step |-> "done", content |-> None]]
       /\ IF ConfigValid(next) /\ next.restart = current.restart
          THEN /\ current' = next
               /\ credit' = Least(credit, next.requestsPerMinute * Minute)
               /\ counters' = [counters EXCEPT !.reloads = @ + 1]
               /\ since' = [accepted |-> 0, ticks |-> 0]
               /\ settled' = [settled EXCEPT !.floor = settled.signal]
          ELSE UNCHANGED <<current, credit, counters, since, settled>>
       /\ UNCHANGED <<elapsed, active, request, file>>
===============================================================================
