------------------------- MODULE SubmissionPathProofs -------------------------
(***************************************************************************)
(* Theorems about SubmissionPath, for every number of accounts, clients,   *)
(* reloads and requests and every limit of the gateway.                    *)
(*                                                                         *)
(* The inductive invariant has four parts.  The page's, the gateway's and  *)
(* that of its reloads are kept by every step of their own modules,        *)
(* whoever takes it; the last is what the adapters hold between the two.   *)
(***************************************************************************)
EXTENDS SubmissionPath, FiniteSetTheorems, SequenceTheorems, TLAPS

(* The enrolled accounts are those of the address shown.                   *)
SessionInv ==
  /\ connected => address \in Page!StakeAddresses
  /\ \A p \in Profiles : sessions[p] # None => connected /\ sessions[p].address = address

(* The review on the screen is of what is selected, for the account that   *)
(* is enrolled.                                                            *)
ReviewInv ==
  prepared # None =>
    /\ sessions[profile] # None
    /\ prepared.session = sessions[profile] /\ prepared.mode = mode
    /\ prepared.operation.owner = sessions[profile].owner
    /\ prepared.operation.profile = profile /\ prepared.operation.action = action

(* What a flow under way has found out so far.                             *)
FlowInv ==
  /\ flow = "idle" => step = 1
  /\ flow = "connect" => /\ ~connected /\ prepared = None /\ \A p \in Profiles : sessions[p] = None
                         /\ step >= 5 => candidate \in Page!StakeAddresses
  /\ flow = "enroll" => connected /\ prepared = None /\ (step >= 10 => Page!IsSignature(signature))
  /\ flow = "review" => sessions[profile] # None
  /\ flow = "sign" /\ step <= 12 => prepared # None
  /\ flow = "sign" /\ step >= 9 => Page!IsSignature(signature)
  /\ flow = "sign" /\ step >= 13 => last[profile] \in Page!Operations

PageInv == Page!TypeOK /\ SessionInv /\ ReviewInv /\ FlowInv

(* The token bucket: what was accepted and what it would have now are      *)
(* covered by a full bucket and the time passed.                           *)
BucketInv == since.accepted * Minute + Gate!Refilled <= current.requestsPerMinute * (Minute + since.ticks)
GateInv ==
  /\ Gate!TypeOK
  /\ \A h \in Hangups : load[h].step = "read" => load[h].content \in Gate!Contents
  /\ active = Cardinality(Gate!InProgress)
  /\ counters.requests = counters.admitted + counters.rejected + counters.upstreamErrors + active
  /\ BucketInv
  /\ Gate!ConfigValid(current) /\ current.restart = Files[1].restart

(* What a reload has settled, the reloads under way and the configuration  *)
(* in force, in versions of the file: none falls behind the one before.    *)
Version(config, from) == \E i \in from..file : config = Files[i]
ReloadInv ==
  /\ settled.floor <= settled.signal /\ settled.signal <= file
  /\ Version(current, settled.floor)
  /\ \A h \in Hangups : load[h].step = "read" => Version(load[h].content, settled.signal)
  /\ RevocationHolds

(* A caller waits once, and only before its request; the request for a     *)
(* status belongs to the call that is under way.                           *)
Queued(c) == \E i \in DOMAIN queue : queue[i] = c
QueueInv ==
  /\ \A i, j \in DOMAIN queue : queue[i] = queue[j] => i = j
  /\ \A i \in DOMAIN queue : request[queue[i]].phase = "none"
StatusInv ==
  Queued("status") \/ request["status"].phase # "none" => job["status"].at = "receipt"
SubmittedInv ==
  \A p \in Profiles : last[p] # None => \E s \in submitted : s.operation = last[p]
PathTypeOK ==
  /\ queue \in Seq(Callers) /\ gap \in 0..Interval
  /\ DOMAIN job = {"submit", "status"}
  /\ JobOK("submit", {"transaction", "entrypoints", "send"}) /\ JobOK("status", {"receipt", "mined receipt"})
  /\ DOMAIN known \subseteq Page!Operations /\ \A op \in DOMAIN known : known[op] \in Modes
  /\ \A s \in submitted : s.operation \in Page!Operations /\ s.mode \in Modes
  /\ pool \subseteq Page!Operations
  /\ DOMAIN chain \subseteq Page!Operations /\ IsFiniteSet(DOMAIN chain)
  /\ \A op \in DOMAIN chain : chain[op] \in Outcomes
  /\ report \in [operation : Page!Operations \cup {None}, status : Outcomes \cup {"none", "pending", "transaction-reverted"}]
PathInv ==
  /\ PathTypeOK /\ QueueInv /\ StatusInv /\ SubmittedInv /\ InclusionIsReal
  /\ \A s \in submitted : AsReviewed(s)

IInv == PageInv /\ GateInv /\ ReloadInv /\ PathInv
--------------------------------------------------------------------------------
(* The calls of every flow, in order.                                      *)
LEMMA SignCallsInOrder ==
  LET s == Page!Calls("sign")
  IN /\ Len(s) = 15
     /\ s[1] = "network" /\ s[2] = "network" /\ s[3] = "reward" /\ s[4] = "recheck" /\ s[5] = "network"
     /\ s[6] = "reward" /\ s[7] = "recheck" /\ s[8] = "sign" /\ s[9] = "network" /\ s[10] = "reward"
     /\ s[11] = "recheck" /\ s[12] = "network" /\ s[13] = "submit" /\ s[14] = "status" /\ s[15] = "state"
BY DEF Page!Calls, Page!SignCalls, Page!AddressCalls

LEMMA EnrollCallsInOrder ==
  LET s == Page!Calls("enroll")
  IN /\ Len(s) = 15
     /\ s[1] = "challenge" /\ s[2] = "network" /\ s[3] = "network" /\ s[4] = "reward" /\ s[5] = "recheck" /\ s[6] = "network"
     /\ s[7] = "reward" /\ s[8] = "recheck" /\ s[9] = "sign" /\ s[10] = "network" /\ s[11] = "reward"
     /\ s[12] = "recheck" /\ s[13] = "network" /\ s[14] = "enroll" /\ s[15] = "state"
BY DEF Page!Calls, Page!SignCalls, Page!AddressCalls

LEMMA ConnectCallsInOrder ==
  LET s == Page!Calls("connect")
  IN Len(s) = 5 /\ s[1] = "enable" /\ s[2] = "network" /\ s[3] = "network" /\ s[4] = "reward" /\ s[5] = "recheck"
BY DEF Page!Calls, Page!SignCalls, Page!AddressCalls

LEMMA OtherCallsInOrder ==
  /\ Len(Page!Calls("poll")) = 2 /\ Page!Calls("poll")[1] = "status" /\ Page!Calls("poll")[2] = "state"
  /\ \A f \in {"review", "show", "idle"} : Len(Page!Calls(f)) = 1 /\ Page!Calls(f)[1] = "state"
BY DEF Page!Calls, Page!SignCalls, Page!AddressCalls

FlowNames == Page!Flows \cup {"show", "idle"}

LEMMA Lengths ==
  ASSUME NEW f \in FlowNames
  PROVE  Len(Page!Calls(f)) \in Nat /\ Len(Page!Calls(f)) >= 1
BY SignCallsInOrder, EnrollCallsInOrder, ConnectCallsInOrder, OtherCallsInOrder DEF FlowNames, Page!Flows

(* Where in a flow each call is.                                           *)
LEMMA Places ==
  ASSUME NEW f \in FlowNames, NEW i \in 1..Len(Page!Calls(f))
  PROVE  LET call == Page!Calls(f)[i]
         IN /\ i = Len(Page!Calls(f)) <=> call = "state" \/ (f = "connect" /\ i = 5)
            /\ call = "enable" \/ call = "reward" => f # "review" /\ f # "idle"
            /\ call = "recheck" => (f = "connect" /\ i = 5) \/ (f = "enroll" /\ i # 9) \/ (f = "sign" /\ i # 8)
            /\ f = "connect" /\ i = 4 => call = "reward"
            /\ call = "sign" <=> (f = "enroll" /\ i = 9) \/ (f = "sign" /\ i = 8)
            /\ call = "enroll" => f = "enroll" /\ i = 14
            /\ call = "submit" <=> f = "sign" /\ i = 13
            /\ call = "status" => (f = "sign" /\ i = 14) \/ (f = "poll" /\ i = 1)
            /\ f = "review" => call = "state"
<1> f \in {"connect", "enroll", "review", "sign", "poll", "show", "idle"}
  BY DEF FlowNames, Page!Flows
<1>1. CASE f = "sign"
  <2>1. Page!Calls(f) = Page!Calls("sign")
    BY <1>1
  <2>2. i \in 1..15
    BY <2>1, SignCallsInOrder
  <2>3. i \in {1, 2, 3, 4, 5, 6, 7, 8, 9, 10, 11, 12, 13, 14, 15}
    BY <2>2
  <2> QED BY <1>1, <2>1, <2>3, SignCallsInOrder
<1>2. CASE f = "enroll"
  <2>1. Page!Calls(f) = Page!Calls("enroll")
    BY <1>2
  <2>2. i \in 1..15
    BY <2>1, EnrollCallsInOrder
  <2>3. i \in {1, 2, 3, 4, 5, 6, 7, 8, 9, 10, 11, 12, 13, 14, 15}
    BY <2>2
  <2> QED BY <1>2, <2>1, <2>3, EnrollCallsInOrder
<1>3. CASE f = "connect"
  <2>1. Page!Calls(f) = Page!Calls("connect")
    BY <1>3
  <2>2. i \in 1..5
    BY <2>1, ConnectCallsInOrder
  <2>3. i \in {1, 2, 3, 4, 5}
    BY <2>2
  <2> QED BY <1>3, <2>1, <2>3, ConnectCallsInOrder
<1>4. CASE f = "poll"
  <2>1. Page!Calls(f) = Page!Calls("poll")
    BY <1>4
  <2>2. i \in 1..2
    BY <2>1, OtherCallsInOrder
  <2>3. i \in {1, 2}
    BY <2>2
  <2> QED BY <1>4, <2>1, <2>3, OtherCallsInOrder
<1>5. CASE f \in {"review", "show", "idle"}
  <2>1. Len(Page!Calls(f)) = 1 /\ Page!Calls(f)[1] = "state"
    BY <1>5, OtherCallsInOrder
  <2>2. i = 1
    BY <2>1
  <2> QED BY <1>5, <2>1, <2>2
<1> QED BY <1>1, <1>2, <1>3, <1>4, <1>5

(* A call that succeeds is followed by the next one of its flow, if any.   *)
LEMMA Proceeds ==
  ASSUME flow \in FlowNames, step \in 1..Len(Page!Calls(flow)), Page!Proceed
  PROVE  /\ flow' \in FlowNames /\ step' \in 1..Len(Page!Calls(flow'))
         /\ \/ flow' = flow /\ step' = step + 1 /\ step < Len(Page!Calls(flow))
            \/ flow' = "idle" /\ step' = 1 /\ step = Len(Page!Calls(flow))
<1> Len(Page!Calls(flow)) \in Nat /\ Len(Page!Calls(flow)) >= 1
  BY Lengths
<1>1. CASE step < Len(Page!Calls(flow))
  <2>1. flow' = flow /\ step' = step + 1
    BY <1>1 DEF Page!Proceed
  <2>2. step' \in 1..Len(Page!Calls(flow))
    BY <1>1, <2>1
  <2>3. Page!Calls(flow') = Page!Calls(flow)
    BY <2>1
  <2>4. step' \in 1..Len(Page!Calls(flow'))
    BY <2>2, <2>3
  <2>5. flow' \in FlowNames
    BY <2>1
  <2> QED BY <1>1, <2>1, <2>4, <2>5, Zenon
<1>2. CASE ~(step < Len(Page!Calls(flow)))
  <2>1. step = Len(Page!Calls(flow))
    BY <1>2
  <2> QED BY <1>2, <2>1, OtherCallsInOrder DEF Page!Proceed, FlowNames
<1> QED BY <1>1, <1>2

(* The enrolled account the page works with.                               *)
LEMMA Active ==
  ASSUME SessionInv, profile \in Profiles
  PROVE  Page!ActiveSession = sessions[profile]
BY DEF SessionInv, Page!ActiveSession

(* Every way in which the page's module takes a step.                      *)
PageNext ==
  \/ \E f \in Page!Flows : Page!Click(f)
  \/ Page!SelectWallet
  \/ \E p \in Profiles, a \in Actions, m \in Modes : Page!Select(p, a, m)
  \/ \E w \in Page!Wallets : Page!Switch(w)
  \/ \E kind : Page!Fail(kind)
  \/ Page!Granted \/ Page!RewardAddress \/ Page!Recheck \/ Page!Network \/ Page!Enrolled
  \/ \E s : Page!IsSignature(s) /\ Page!Sign(s)
  \/ \E nonce \in Nat : Page!State(nonce)
  \/ \E ok \in BOOLEAN : Page!Submitted(ok) \/ Page!Reported(ok)

(* The flow ends, or none is under way: nothing is left of what it had     *)
(* found out.                                                              *)
LEMMA KeptAtRest ==
  ASSUME PageInv, Page!Keep, UNCHANGED <<wallet, profile, action, mode, candidate, signature, last>>,
         flow' = "idle", step' = 1
  PROVE  PageInv'
BY OtherCallsInOrder
   DEF PageInv, Page!Keep, Page!TypeOK, SessionInv, ReviewInv, FlowInv

LEMMA InvalidatedAtRest ==
  ASSUME PageInv, Page!Invalidate, UNCHANGED <<wallet, candidate, signature, last>>,
         profile' \in Profiles, action' \in Actions, mode' \in Modes,
         flow' \in {"show", "idle"}, step' = 1
  PROVE  PageInv'
BY OtherCallsInOrder
   DEF PageInv, Page!Invalidate, Page!TypeOK, SessionInv, ReviewInv, FlowInv

LEMMA DisconnectedAtRest ==
  ASSUME PageInv, Page!Disconnect, UNCHANGED <<wallet, profile, action, mode, candidate, signature, last>>,
         flow' \in {"connect", "idle"}, step' = 1
  PROVE  PageInv'
<1>1. step' \in 1..Len(Page!Calls(flow'))
  <2>1. CASE flow' = "connect"
    <3>1. Page!Calls(flow') = Page!Calls("connect")
      BY <2>1
    <3> QED BY <3>1, ConnectCallsInOrder
  <2>2. CASE flow' = "idle"
    <3>1. Page!Calls(flow') = Page!Calls("idle")
      BY <2>2
    <3> QED BY <3>1, OtherCallsInOrder
  <2> QED BY <2>1, <2>2
<1>2. flow' \in Page!Flows \cup {"show", "idle"}
  BY DEF Page!Flows
<1>3. Page!TypeOK'
  BY <1>1, <1>2 DEF PageInv, Page!Disconnect, Page!TypeOK
<1> QED BY <1>3 DEF PageInv, Page!Disconnect, Page!TypeOK, SessionInv, ReviewInv, FlowInv

LEMMA Fails ==
  ASSUME PageInv, NEW kind, Page!Fail(kind)
  PROVE  PageInv'
<1>1. /\ UNCHANGED <<wallet, profile, action, mode, candidate, signature, last>>
      /\ flow' = "idle" /\ step' = 1
      /\ Page!Keep \/ Page!Disconnect \/ Page!Invalidate
  BY DEF Page!Fail, Page!Finish, Page!selected
<1>2. profile' \in Profiles /\ action' \in Actions /\ mode' \in Modes
  BY <1>1 DEF PageInv, Page!TypeOK
<1> QED BY <1>1, <1>2, KeptAtRest, InvalidatedAtRest, DisconnectedAtRest

LEMMA Clicks ==
  ASSUME PageInv, NEW f \in Page!Flows, Page!Click(f)
  PROVE  PageInv'
<1>1. UNCHANGED <<wallet, profile, action, mode, candidate, signature, last>> /\ flow' = f /\ step' = 1
  BY DEF Page!Click, Page!selected
<1>2. Page!TypeOK /\ SessionInv /\ ReviewInv /\ profile \in Profiles
  BY DEF PageInv, Page!TypeOK
<1>3. flow' \in Page!Flows /\ step' \in 1..Len(Page!Calls(flow'))
  <2>1. Len(Page!Calls(f)) \in Nat /\ Len(Page!Calls(f)) >= 1
    BY Lengths DEF FlowNames
  <2>2. Page!Calls(flow') = Page!Calls(f)
    BY <1>1
  <2>3. step' \in 1..Len(Page!Calls(f))
    BY <1>1, <2>1
  <2>4. step' \in 1..Len(Page!Calls(flow'))
    BY <2>2, <2>3
  <2> QED BY <1>1, <2>4
<1>4. CASE f = "connect"
  BY <1>1, <1>4, DisconnectedAtRest DEF Page!Click
<1>5. CASE f = "enroll"
  <2>1. connected /\ Page!Invalidate
    BY <1>5 DEF Page!Click
  <2> QED BY <1>1, <1>2, <1>3, <1>5, <2>1
          DEF PageInv, Page!Invalidate, Page!TypeOK, SessionInv, ReviewInv, FlowInv
<1>6. CASE f = "review"
  <2>1. sessions[profile] # None /\ Page!Invalidate
    BY <1>2, <1>6, Active DEF Page!Click
  <2> QED BY <1>1, <1>2, <1>3, <1>6, <2>1
          DEF PageInv, Page!Invalidate, Page!TypeOK, SessionInv, ReviewInv, FlowInv
<1>7. CASE f = "sign"
  <2>1. prepared # None /\ Page!Keep
    BY <1>7 DEF Page!Click
  <2> QED BY <1>1, <1>2, <1>3, <1>7, <2>1
          DEF PageInv, Page!Keep, Page!TypeOK, SessionInv, ReviewInv, FlowInv
<1>8. CASE f = "poll"
  <2>1. Page!Keep
    BY <1>8 DEF Page!Click
  <2> QED BY <1>1, <1>2, <1>3, <1>8, <2>1
          DEF PageInv, Page!Keep, Page!TypeOK, SessionInv, ReviewInv, FlowInv
<1> QED BY <1>4, <1>5, <1>6, <1>7, <1>8 DEF Page!Flows

(* A step that only answers a call of the flow.                            *)
LEMMA Answers ==
  ASSUME PageInv, Page!Proceed, UNCHANGED <<wallet, connected, address, profile, action, mode, sessions, prepared, last>>,
         Page!Busy,
         candidate' = candidate \/ candidate' \in Page!StakeAddresses,
         signature' = signature \/ Page!IsSignature(signature'),
         flow = "connect" /\ step = 4 => candidate' \in Page!StakeAddresses,
         (flow = "sign" /\ step = 8) \/ (flow = "enroll" /\ step = 9) => Page!IsSignature(signature'),
         flow = "sign" => step # 12,
         flow = "review" => step = 1
  PROVE  PageInv'
<1>1. flow \in FlowNames /\ step \in 1..Len(Page!Calls(flow))
  BY DEF PageInv, Page!TypeOK, FlowNames
<1>2. /\ flow' \in FlowNames /\ step' \in 1..Len(Page!Calls(flow'))
      /\ \/ flow' = flow /\ step' = step + 1 /\ step < Len(Page!Calls(flow))
         \/ flow' = "idle" /\ step' = 1 /\ step = Len(Page!Calls(flow))
  BY <1>1, Proceeds
<1>3. step \in Nat /\ Len(Page!Calls("review")) = 1
  BY <1>1, Lengths, OtherCallsInOrder
<1>4. Page!TypeOK'
  BY <1>2 DEF PageInv, Page!TypeOK, FlowNames
<1>5. SessionInv' /\ ReviewInv'
  BY DEF PageInv, SessionInv, ReviewInv
<1>6. FlowInv'
  <2>1. CASE flow' = "idle" /\ step' = 1
    BY <2>1 DEF FlowInv
  <2>2. CASE flow' = flow /\ step' = step + 1 /\ step < Len(Page!Calls(flow))
    BY <1>3, <2>2 DEF PageInv, FlowInv, Page!Busy
  <2> QED BY <1>2, <2>1, <2>2
<1> QED BY <1>4, <1>5, <1>6 DEF PageInv

(* The call a flow waits for, and its place.                               *)
LEMMA Waiting ==
  ASSUME PageInv
  PROVE  /\ flow \in FlowNames /\ step \in 1..Len(Page!Calls(flow))
         /\ profile \in Profiles /\ Page!ActiveSession = sessions[profile]
BY Active DEF PageInv, Page!TypeOK, FlowNames

LEMMA Grants ==
  ASSUME PageInv, Page!Granted
  PROVE  PageInv'
<1>1. Page!Calls(flow)[step] \in {"enable", "challenge"}
  BY DEF Page!Granted, Page!Awaits
<1>2. ~(flow = "connect" /\ step = 4) /\ ~(flow = "sign" /\ step = 8) /\ ~(flow = "enroll" /\ step = 9) /\ ~(flow = "sign" /\ step = 12)
  BY <1>1, Waiting, SignCallsInOrder, EnrollCallsInOrder, ConnectCallsInOrder
<1>3. flow # "review"
  BY <1>1, Waiting, Places
<1> QED BY <1>2, <1>3, Answers DEF Page!Granted, Page!Awaits, Page!selected

LEMMA GivesAddress ==
  ASSUME PageInv, Page!RewardAddress
  PROVE  PageInv'
<1>1. Page!Calls(flow)[step] = "reward"
  BY DEF Page!RewardAddress, Page!Awaits
<1>2. ~(flow = "sign" /\ step = 8) /\ ~(flow = "enroll" /\ step = 9) /\ ~(flow = "sign" /\ step = 12)
  BY <1>1, Waiting, SignCallsInOrder, EnrollCallsInOrder
<1>3. flow # "review"
  BY <1>1, Waiting, Places
<1>4. candidate' \in Page!StakeAddresses
  BY DEF Page!RewardAddress, Page!StakeAddress, Page!StakeAddresses, PageInv, Page!TypeOK, Page!Wallets
<1> QED BY <1>2, <1>3, <1>4, Answers DEF Page!RewardAddress, Page!Awaits, Page!selected

LEMMA Rechecks ==
  ASSUME PageInv, Page!Recheck
  PROVE  PageInv'
<1>1. Page!Calls(flow)[step] = "recheck" /\ Page!Busy
  BY DEF Page!Recheck, Page!Awaits
<1>2. (flow = "connect" /\ step = 5) \/ (flow = "enroll" /\ step # 9) \/ (flow = "sign" /\ step # 8)
  BY <1>1, Waiting, Places
<1>3. ~(flow = "sign" /\ step = 12)
  BY <1>1, SignCallsInOrder
<1>4. CASE \E kind : Page!Fail(kind)
  BY <1>4, Fails
<1>5. CASE ~\E kind : Page!Fail(kind)
  <2>1. /\ Page!Proceed
        /\ UNCHANGED <<wallet, profile, action, mode, candidate, signature, sessions, prepared, last>>
        /\ IF flow = "connect" THEN connected' = TRUE /\ address' = candidate ELSE UNCHANGED <<connected, address>>
    BY <1>5 DEF Page!Recheck, Page!selected
  <2>2. CASE flow = "connect"
    <3>1. Page!Calls(flow) = Page!Calls("connect")
      BY <2>2
    <3>2. step = 5 /\ Len(Page!Calls(flow)) = 5
      BY <1>2, <2>2, <3>1, ConnectCallsInOrder
    <3>3. flow' = "idle" /\ step' = 1
      BY <2>1, <3>2 DEF Page!Proceed
    <3>4. candidate \in Page!StakeAddresses /\ prepared = None /\ \A p \in Profiles : sessions[p] = None
      BY <2>2, <3>2 DEF PageInv, FlowInv
    <3>5. Page!Calls(flow') = Page!Calls("idle")
      BY <3>3
    <3>6. step' \in 1..Len(Page!Calls(flow'))
      BY <3>3, <3>5, OtherCallsInOrder
    <3>7. Page!TypeOK'
      BY <2>1, <2>2, <3>3, <3>4, <3>6 DEF PageInv, Page!TypeOK
    <3> QED BY <2>1, <2>2, <3>3, <3>4, <3>7 DEF PageInv, SessionInv, ReviewInv, FlowInv
  <2>3. CASE flow # "connect"
    BY <1>1, <1>2, <1>3, <2>1, <2>3, Answers
  <2> QED BY <2>2, <2>3
<1> QED BY <1>4, <1>5

LEMMA Signs ==
  ASSUME PageInv, NEW s, Page!IsSignature(s), Page!Sign(s)
  PROVE  PageInv'
<1>1. Page!Calls(flow)[step] = "sign" /\ Page!Busy
  BY DEF Page!Sign, Page!Awaits
<1>2. (flow = "enroll" /\ step = 9) \/ (flow = "sign" /\ step = 8)
  BY <1>1, Waiting, Places
<1> QED BY <1>1, <1>2, Answers DEF Page!Sign, Page!selected

(* The last check of the network before a submission is the one that       *)
(* verifies what the wallet has signed.                                    *)
LEMMA Verified ==
  ASSUME PageInv, Page!Network, ~\E kind : Page!Fail(kind), Page!Calls(flow)[step + 1] = "submit"
  PROVE  /\ flow = "sign" /\ step = 12 /\ flow' = "sign" /\ step' = 13
         /\ Page!OperationVerifies(signature) /\ Page!IsSignature(signature)
         /\ prepared # None /\ prepared' = None
         /\ last' = [last EXCEPT ![profile] = prepared.operation]
         /\ UNCHANGED <<wallet, connected, address, profile, action, mode, candidate, signature, sessions>>
<1>1. /\ last' = [last EXCEPT ![profile] = prepared.operation] /\ prepared' = None
      /\ Page!Proceed /\ Page!OperationVerifies(signature)
      /\ UNCHANGED <<wallet, connected, address, profile, action, mode, candidate, signature, sessions>>
  BY DEF Page!Network, Page!selected
<1>2. Page!Calls(flow)[step] = "network"
  BY DEF Page!Network, Page!Awaits
<1>3. step + 1 \in 1..Len(Page!Calls(flow))
  <2>1. ~(flow = "connect" /\ step = 5)
    BY <1>2, ConnectCallsInOrder
  <2>2. step # Len(Page!Calls(flow))
    BY <1>2, <2>1, Waiting, Places
  <2> QED BY <2>2, Waiting, Lengths
<1>4. flow = "sign" /\ step + 1 = 13
  BY <1>3, Waiting, Places
<1>5. Page!Calls(flow) = Page!Calls("sign")
  BY <1>4
<1>6. flow' = "sign" /\ step' = 13 /\ step = 12
  BY <1>1, <1>4, <1>5, Waiting, SignCallsInOrder DEF Page!Proceed
<1> QED BY <1>1, <1>4, <1>6 DEF PageInv, FlowInv

LEMMA ChecksNetwork ==
  ASSUME PageInv, Page!Network
  PROVE  PageInv'
<1>1. Page!Calls(flow)[step] = "network" /\ Page!Busy
  BY DEF Page!Network, Page!Awaits
<1>2. CASE \E kind : Page!Fail(kind)
  BY <1>2, Fails
<1>3. CASE ~(\E kind : Page!Fail(kind)) /\ Page!Calls(flow)[step + 1] = "submit"
  <2>1. /\ flow = "sign" /\ step = 12 /\ flow' = "sign" /\ step' = 13
        /\ Page!IsSignature(signature)
        /\ prepared # None /\ prepared' = None
        /\ last' = [last EXCEPT ![profile] = prepared.operation]
        /\ UNCHANGED <<wallet, connected, address, profile, action, mode, candidate, signature, sessions>>
    BY <1>3, Verified
  <2>2. prepared.operation \in Page!Operations /\ profile \in Profiles
    BY <2>1 DEF PageInv, Page!TypeOK, Page!Reviews
  <2>3. Page!Calls(flow') = Page!Calls("sign")
    BY <2>1
  <2>4. step' \in 1..Len(Page!Calls(flow'))
    BY <2>1, <2>3, SignCallsInOrder
  <2>5. last' \in [Profiles -> Page!Operations \cup {None}] /\ last'[profile] = prepared.operation
    BY <2>1, <2>2 DEF PageInv, Page!TypeOK
  <2>6. Page!TypeOK'
    BY <2>1, <2>4, <2>5 DEF PageInv, Page!TypeOK
  <2> QED BY <2>1, <2>2, <2>5, <2>6 DEF PageInv, SessionInv, ReviewInv, FlowInv
<1>4. CASE ~(\E kind : Page!Fail(kind)) /\ Page!Calls(flow)[step + 1] # "submit"
  <2>1. Page!Proceed /\ UNCHANGED <<wallet, connected, address, profile, action, mode, candidate, signature, sessions, last, prepared>>
    BY <1>4 DEF Page!Network, Page!selected
  <2>2. ~(flow = "sign" /\ step = 12) /\ ~(flow = "connect" /\ step = 4) /\ ~(flow = "sign" /\ step = 8) /\ ~(flow = "enroll" /\ step = 9)
    BY <1>1, <1>4, SignCallsInOrder, EnrollCallsInOrder, ConnectCallsInOrder
  <2>3. flow # "review"
    BY <1>1, Waiting, Places
  <2> QED BY <1>1, <2>1, <2>2, <2>3, Answers
<1> QED BY <1>2, <1>3, <1>4

LEMMA Enrolls ==
  ASSUME PageInv, Page!Enrolled
  PROVE  PageInv'
<1>1. Page!Calls(flow)[step] = "enroll" /\ Page!Busy
  BY DEF Page!Enrolled, Page!Awaits
<1>2. flow = "enroll" /\ step = 14
  BY <1>1, Waiting, Places
<1>3. /\ connected /\ address \in Page!StakeAddresses /\ prepared = None
      /\ signature.key \in Keys /\ signature.headers \in Headers
  BY <1>2 DEF PageInv, FlowInv, SessionInv, Page!IsSignature
<1> DEFINE session == [owner |-> [key |-> signature.key, headers |-> signature.headers], address |-> address, profile |-> profile]
<1>4. session \in Page!Sessions /\ profile \in Profiles
  BY <1>3 DEF Page!Sessions, Page!Owners, PageInv, Page!TypeOK
<1>5. /\ sessions' = [sessions EXCEPT ![profile] = session] /\ Page!Proceed
      /\ UNCHANGED <<wallet, connected, address, profile, action, mode, candidate, signature, prepared, last>>
  BY DEF Page!Enrolled, Page!selected
<1>6. /\ sessions' \in [Profiles -> Page!Sessions \cup {None}]
      /\ \A p \in Profiles : sessions'[p] # None => connected' /\ sessions'[p].address = address'
  <2>1. session.address = address
    OBVIOUS
  <2> HIDE DEF session
  <2> QED BY <1>3, <1>4, <1>5, <2>1 DEF PageInv, Page!TypeOK, SessionInv
<1>7. /\ flow' \in FlowNames /\ step' \in 1..Len(Page!Calls(flow'))
      /\ \/ flow' = flow /\ step' = step + 1 /\ step < Len(Page!Calls(flow))
         \/ flow' = "idle" /\ step' = 1 /\ step = Len(Page!Calls(flow))
  BY <1>5, Waiting, Proceeds
<1>8. Page!TypeOK'
  BY <1>5, <1>6, <1>7 DEF PageInv, Page!TypeOK, FlowNames
<1>9. FlowInv'
  BY <1>2, <1>5, <1>7 DEF PageInv, FlowInv
<1> QED BY <1>3, <1>5, <1>6, <1>8, <1>9 DEF PageInv, SessionInv, ReviewInv

LEMMA ShowsState ==
  ASSUME PageInv, NEW nonce \in Nat, Page!State(nonce)
  PROVE  PageInv'
<1>1. Page!Calls(flow)[step] = "state" /\ Page!Busy
  BY DEF Page!State, Page!Awaits
<1>2. step = Len(Page!Calls(flow))
  BY <1>1, Waiting, Places
<1>3. /\ UNCHANGED <<wallet, connected, address, profile, action, mode, candidate, signature, sessions, last>>
      /\ flow' = "idle" /\ step' = 1
  BY <1>2, Waiting, Lengths DEF Page!State, Page!Proceed, Page!selected
<1>4. CASE flow # "review"
  BY <1>3, <1>4, KeptAtRest DEF Page!State, Page!Keep
<1>5. CASE flow = "review"
  <2> DEFINE operation == [owner |-> sessions[profile].owner, profile |-> profile, nonce |-> nonce, deploy |-> nonce = 0, action |-> action]
             review == [session |-> sessions[profile], mode |-> mode, action |-> action, operation |-> operation]
  <2>1. prepared' = review
    BY <1>5, Waiting DEF Page!State
  <2>2. sessions[profile] # None /\ sessions[profile] \in Page!Sessions /\ profile \in Profiles /\ mode \in Modes /\ action \in Actions
    BY <1>5 DEF PageInv, Page!TypeOK, FlowInv
  <2>3. operation \in Page!Operations
    BY <2>2 DEF Page!Operations, Page!Sessions
  <2>4. review \in Page!Reviews
    BY <2>2, <2>3 DEF Page!Reviews
  <2>5. Page!Calls(flow') = Page!Calls("idle")
    BY <1>3
  <2>6. step' \in 1..Len(Page!Calls(flow'))
    BY <1>3, <2>5, OtherCallsInOrder
  <2>7. Page!TypeOK'
    BY <1>3, <2>1, <2>4, <2>6 DEF PageInv, Page!TypeOK
  <2>8. ReviewInv'
    BY <1>3, <2>1, <2>2 DEF ReviewInv
  <2>9. SessionInv' /\ FlowInv'
    BY <1>3 DEF PageInv, SessionInv, FlowInv
  <2> QED BY <2>7, <2>8, <2>9 DEF PageInv
<1> QED BY <1>4, <1>5

LEMMA HearsOfSubmission ==
  ASSUME PageInv, NEW ok \in BOOLEAN, Page!Submitted(ok)
  PROVE  PageInv'
<1>1. Page!Calls(flow)[step] = "submit" /\ Page!Busy
  BY DEF Page!Submitted, Page!Awaits
<1>2. flow = "sign" /\ step = 13
  BY <1>1, Waiting, Places
<1>3. CASE ok
  BY <1>1, <1>2, <1>3, Answers DEF Page!Submitted, Page!selected
<1>4. CASE ~ok
  BY <1>4, Fails DEF Page!Submitted
<1> QED BY <1>3, <1>4

LEMMA HearsOfStatus ==
  ASSUME PageInv, NEW ok \in BOOLEAN, Page!Reported(ok)
  PROVE  PageInv'
<1>1. Page!Calls(flow)[step] = "status" /\ Page!Busy
  BY DEF Page!Reported, Page!Awaits
<1>2. (flow = "sign" /\ step = 14) \/ (flow = "poll" /\ step = 1)
  BY <1>1, Waiting, Places
<1>3. CASE ~ok
  BY <1>3, Fails DEF Page!Reported
<1>4. CASE ok /\ Page!Finish
  BY <1>4, KeptAtRest DEF Page!Reported, Page!Finish, Page!Keep, Page!selected
<1>5. CASE ok /\ Page!Proceed
  BY <1>1, <1>2, <1>5, Answers DEF Page!Reported, Page!selected
<1> QED BY <1>3, <1>4, <1>5 DEF Page!Reported

(* Every step of the page's module keeps the page's invariant.             *)
LEMMA PageStep ==
  ASSUME PageInv, PageNext \/ UNCHANGED page
  PROVE  PageInv'
<1>1. ASSUME Page!SelectWallet
      PROVE  PageInv'
  <2>1. /\ Page!Disconnect /\ UNCHANGED <<wallet, profile, action, mode, candidate, signature, last>>
        /\ flow' = "idle" /\ step' = 1
    BY <1>1 DEF Page!SelectWallet, Page!Busy, PageInv, FlowInv, Page!selected
  <2> QED BY <2>1, DisconnectedAtRest
<1>2. ASSUME NEW p \in Profiles, NEW a \in Actions, NEW m \in Modes, Page!Select(p, a, m)
      PROVE  PageInv'
  <2>1. /\ Page!Invalidate /\ UNCHANGED <<wallet, candidate, signature, last>>
        /\ profile' = p /\ action' = a /\ mode' = m
        /\ flow' \in {"show", "idle"} /\ step' = 1
    BY <1>2 DEF Page!Select, Page!Busy, PageInv, FlowInv
  <2> QED BY <2>1, InvalidatedAtRest
<1>3. ASSUME NEW w \in Page!Wallets, Page!Switch(w)
      PROVE  PageInv'
  BY <1>3 DEF Page!Switch, Page!walletPage, PageInv, Page!TypeOK, SessionInv, ReviewInv, FlowInv
<1>4. ASSUME UNCHANGED page
      PROVE  PageInv'
  BY <1>4 DEF page, PageInv, Page!TypeOK, SessionInv, ReviewInv, FlowInv
<1> QED BY <1>1, <1>2, <1>3, <1>4, Clicks, Fails, Grants, GivesAddress, Rechecks, ChecksNetwork, Enrolls, Signs, ShowsState,
           HearsOfSubmission, HearsOfStatus
        DEF PageNext

LEMMA PageInit ==
  ASSUME Page!Init
  PROVE  PageInv
<1>1. Page!Calls(flow) = Page!Calls("idle")
  BY DEF Page!Init
<1>2. step \in 1..Len(Page!Calls(flow))
  BY <1>1, OtherCallsInOrder DEF Page!Init
<1>3. wallet \in Page!Wallets
  BY PageAssumption DEF Page!Init, Page!Wallets, Page!Expected
<1>4. Page!TypeOK
  BY <1>2, <1>3, PageAssumption DEF Page!Init, Page!TypeOK
<1> QED BY <1>4 DEF Page!Init, PageInv, SessionInv, ReviewInv, FlowInv

--------------------------------------------------------------------------------
(* Every way in which the gateway's module takes a step.                   *)
GateNext ==
  \/ \E c \in Callers : \/ (\E message : Gate!Arrive(c, message)) \/ Gate!Decide(c)
                        \/ (\E result : Gate!Answer(c, result)) \/ Gate!Leave(c)
  \/ Gate!Tick \/ Gate!Edit
  \/ \E h \in Hangups : Gate!Hangup(h) \/ Gate!Read(h) \/ Gate!Apply(h)

(* The configuration in force has limits.                                  *)
LEMMA Limits ==
  ASSUME NEW config \in Gate!Contents, Gate!ConfigValid(config)
  PROVE  config.requestsPerMinute \in Nat \ {0} /\ config.maxConcurrent \in Nat \ {0}
BY FilesAssumption DEF Gate!Contents, Gate!ConfigValid

LEMMA Product ==
  ASSUME NEW x \in Nat, NEW y \in Nat
  PROVE  x * y \in Nat
OBVIOUS

(* The bucket after some time, in numbers.                                 *)
LEMMA Refill ==
  ASSUME NEW rate \in Nat, NEW tokens \in Nat, NEW time \in Nat, NEW later \in Nat, later <= time + 1
  PROVE  LET full == rate * Minute
             now == Gate!Least(full, tokens + time * rate)
             then == Gate!Least(full, tokens + later * rate)
         IN /\ now \in Nat /\ now <= full /\ now <= tokens + time * rate
            /\ then \in Nat /\ then <= now + rate
<1> DEFINE a == time * rate
           b == later * rate
           full == rate * Minute
<1>1. a \in Nat /\ b \in Nat /\ full \in Nat
  BY Product, BoundsAssumption
<1>2. b <= a + rate
  <2>1. later * rate <= (time + 1) * rate
    OBVIOUS
  <2> QED BY <2>1
<1> HIDE DEF a, b, full
<1>3. /\ Gate!Least(full, tokens + a) \in Nat /\ Gate!Least(full, tokens + a) <= full /\ Gate!Least(full, tokens + a) <= tokens + a
      /\ Gate!Least(full, tokens + b) \in Nat /\ Gate!Least(full, tokens + b) <= Gate!Least(full, tokens + a) + rate
  BY <1>1, <1>2 DEF Gate!Least
<1> QED BY <1>3 DEF a, b, full

LEMMA BucketHolds ==
  ASSUME GateInv
  PROVE  /\ current \in Gate!Contents /\ current.requestsPerMinute \in Nat \ {0}
         /\ credit \in Nat /\ elapsed \in 0..Minute /\ Minute \in Nat \ {0}
         /\ Gate!Refilled \in Nat /\ Gate!Refilled <= current.requestsPerMinute * Minute
         /\ Gate!Refilled <= credit + elapsed * current.requestsPerMinute
         /\ since.accepted \in Nat /\ since.ticks \in Nat
<1>1. /\ current \in Gate!Contents /\ credit \in Nat /\ elapsed \in 0..Minute /\ Gate!ConfigValid(current)
      /\ since.accepted \in Nat /\ since.ticks \in Nat
  BY DEF GateInv, Gate!TypeOK
<1>2. current.requestsPerMinute \in Nat \ {0} /\ Minute \in Nat \ {0} /\ elapsed \in Nat
  BY <1>1, Limits, BoundsAssumption
<1>3. /\ Gate!Refilled \in Nat /\ Gate!Refilled <= current.requestsPerMinute * Minute
      /\ Gate!Refilled <= credit + elapsed * current.requestsPerMinute
  <2> DEFINE rate == current.requestsPerMinute
  <2>1. rate \in Nat /\ credit \in Nat /\ elapsed \in Nat /\ elapsed <= elapsed + 1
    BY <1>1, <1>2
  <2> HIDE DEF rate
  <2>2. LET now == Gate!Least(rate * Minute, credit + elapsed * rate)
        IN now \in Nat /\ now <= rate * Minute /\ now <= credit + elapsed * rate
    BY <2>1, Refill
  <2> QED BY <2>2 DEF Gate!Refilled, rate
<1> QED BY <1>1, <1>2, <1>3

LEMMA CallersFinite ==
  /\ IsFiniteSet(Callers)
  /\ IsFiniteSet(Gate!InProgress)
<1>1. IsFiniteSet({"submit", "status"})
  <2>1. {"submit", "status"} = {"submit"} \cup {"status"}
    OBVIOUS
  <2>2. IsFiniteSet({"submit"}) /\ IsFiniteSet({"status"})
    BY FS_Singleton
  <2> QED BY <2>1, <2>2, FS_Union
<1>2. IsFiniteSet(Callers)
  BY <1>1, CallersAssumption, FS_Union DEF Callers
<1>3. Gate!InProgress \subseteq Callers
  BY DEF Gate!InProgress
<1> QED BY <1>2, <1>3, FS_Subset

(* A place at the gateway is taken and given back.                         *)
LEMMA Taking ==
  ASSUME NEW S, NEW T, NEW x, IsFiniteSet(S), x \notin S, T = S \cup {x}
  PROVE  Cardinality(T) = Cardinality(S) + 1
BY FS_AddElement

LEMMA Giving ==
  ASSUME NEW S, NEW T, NEW x, IsFiniteSet(S), x \in S, T = S \ {x}
  PROVE  Cardinality(T) = Cardinality(S) - 1 /\ Cardinality(S) >= 1
<1>1. Cardinality(T) = Cardinality(S) - 1
  BY FS_RemoveElement
<1>2. IsFiniteSet(T) /\ Cardinality(T) \in Nat /\ Cardinality(S) \in Nat
  BY FS_CardinalityType, FS_RemoveElement
<1> QED BY <1>1, <1>2

(* A step of one request at the gateway, the counters aside.               *)
LEMMA OneRequest ==
  ASSUME Gate!TypeOK, NEW c \in Callers, NEW r,
         request' = [request EXCEPT ![c] = r],
         DOMAIN r = {"phase", "message", "end", "result"},
         r.phase \in {"none", "reading", "forwarding", "done"}, r.end \in Gate!Ends \cup {"none"}
  PROVE  /\ DOMAIN request' = Callers
         /\ \A s \in Callers :
              /\ DOMAIN request'[s] = {"phase", "message", "end", "result"}
              /\ request'[s].phase \in {"none", "reading", "forwarding", "done"}
              /\ request'[s].end \in Gate!Ends \cup {"none"}
         /\ request'[c] = r /\ \A s \in Callers \ {c} : request'[s] = request[s]
         /\ Gate!InProgress' = IF r.phase \in {"reading", "forwarding"} THEN Gate!InProgress \cup {c} ELSE Gate!InProgress \ {c}
BY DEF Gate!TypeOK, Gate!InProgress

(* Rejected or answered: a request that was in progress is done.           *)
Done(c, end) ==
  /\ request[c].phase \in {"reading", "forwarding"}
  /\ \E r : /\ request' = [request EXCEPT ![c] = r]
            /\ DOMAIN r = {"phase", "message", "end", "result"} /\ r.phase = "done" /\ r.end = end
            /\ r.result = None \/ r.result = request[c].result \/ end = "forwarded"
  /\ active' = active - 1

LEMMA Rejects ==
  ASSUME Gate!TypeOK, NEW c \in Callers, Gate!Reject(c), request[c].phase \in {"reading", "forwarding"}
  PROVE  Done(c, "rejected") /\ counters' = [counters EXCEPT !.rejected = @ + 1]
<1> DEFINE r == [request[c] EXCEPT !.phase = "done", !.message = None, !.end = "rejected", !.result = None]
<1>1. request' = [request EXCEPT ![c] = r]
  BY DEF Gate!Reject
<1>2. DOMAIN r = {"phase", "message", "end", "result"} /\ r.phase = "done" /\ r.end = "rejected" /\ r.result = None
  BY DEF Gate!TypeOK
<1> HIDE DEF r
<1> QED BY <1>1, <1>2 DEF Done, Gate!Reject

LEMMA Decides ==
  ASSUME Gate!TypeOK, NEW c \in Callers, Gate!Decide(c)
  PROVE  \/ /\ Gate!Accepts(request[c].message, current)
            /\ request[c].phase = "reading"
            /\ request' = [request EXCEPT ![c] = [request[c] EXCEPT !.phase = "forwarding"]]
            /\ settled' = [settled EXCEPT !.at[c] = settled.floor]
            /\ UNCHANGED <<active, counters>>
         \/ /\ Done(c, "rejected") /\ counters' = [counters EXCEPT !.rejected = @ + 1]
            /\ UNCHANGED settled
BY Rejects DEF Gate!Decide, Gate!Forward

LEMMA AnswersOnce ==
  ASSUME Gate!TypeOK, NEW c \in Callers, NEW result, Gate!Answer(c, result)
  PROVE  \/ /\ Done(c, "forwarded") /\ counters' = [counters EXCEPT !.admitted = @ + 1]
            /\ request'[c].result = result
         \/ Done(c, "upstream error") /\ counters' = [counters EXCEPT !.upstreamErrors = @ + 1]
         \/ Done(c, "rejected") /\ counters' = [counters EXCEPT !.rejected = @ + 1]
<1>1. request[c].phase = "forwarding"
  BY DEF Gate!Answer
<1>2. CASE Gate!Reject(c)
  BY <1>1, <1>2, Rejects
<1>3. CASE /\ request' = [request EXCEPT ![c].phase = "done", ![c].message = None, ![c].end = "forwarded", ![c].result = result]
           /\ counters' = [counters EXCEPT !.admitted = @ + 1]
           /\ active' = active - 1
  <2> DEFINE r == [request[c] EXCEPT !.phase = "done", !.message = None, !.end = "forwarded", !.result = result]
  <2>1. request' = [request EXCEPT ![c] = r]
    BY <1>3
  <2>2. DOMAIN r = {"phase", "message", "end", "result"} /\ r.phase = "done" /\ r.end = "forwarded" /\ r.result = result
    BY DEF Gate!TypeOK
  <2> HIDE DEF r
  <2>3. request'[c] = r
    BY <2>1 DEF Gate!TypeOK
  <2> QED BY <1>1, <1>3, <2>1, <2>2, <2>3 DEF Done
<1>4. CASE /\ request' = [request EXCEPT ![c].phase = "done", ![c].message = None, ![c].end = "upstream error"]
           /\ counters' = [counters EXCEPT !.upstreamErrors = @ + 1]
           /\ active' = active - 1
  <2> DEFINE r == [request[c] EXCEPT !.phase = "done", !.message = None, !.end = "upstream error"]
  <2>1. request' = [request EXCEPT ![c] = r]
    BY <1>4
  <2>2. DOMAIN r = {"phase", "message", "end", "result"} /\ r.phase = "done" /\ r.end = "upstream error" /\ r.result = request[c].result
    BY DEF Gate!TypeOK
  <2> HIDE DEF r
  <2> QED BY <1>1, <1>4, <2>1, <2>2 DEF Done
<1> QED BY <1>2, <1>3, <1>4 DEF Gate!Answer

(* A request that ends is counted once and gives its place back.           *)
LEMMA DoneKeeps ==
  ASSUME GateInv, NEW c \in Callers, NEW end \in Gate!Ends, Done(c, end),
         NEW counter \in {"admitted", "rejected", "upstreamErrors"}, counters' = [counters EXCEPT ![counter] = @ + 1],
         UNCHANGED <<current, credit, elapsed, file, load, since, settled>>
  PROVE  GateInv'
<1>1. PICK r : /\ request' = [request EXCEPT ![c] = r]
               /\ DOMAIN r = {"phase", "message", "end", "result"} /\ r.phase = "done" /\ r.end = end
  BY DEF Done
<1>2. Gate!TypeOK
  BY DEF GateInv
<1>3. /\ DOMAIN request' = Callers
      /\ \A s \in Callers :
           /\ DOMAIN request'[s] = {"phase", "message", "end", "result"}
           /\ request'[s].phase \in {"none", "reading", "forwarding", "done"}
           /\ request'[s].end \in Gate!Ends \cup {"none"}
      /\ Gate!InProgress' = Gate!InProgress \ {c}
  BY <1>1, <1>2, OneRequest
<1>4. c \in Gate!InProgress
  BY DEF Done, Gate!InProgress
<1>5. active' = Cardinality(Gate!InProgress') /\ active >= 1
  BY <1>3, <1>4, CallersFinite, Giving DEF GateInv, Done
<1>6. /\ counters' \in [requests : Nat, admitted : Nat, rejected : Nat, upstreamErrors : Nat, reloads : Nat]
      /\ counters'.requests = counters'.admitted + counters'.rejected + counters'.upstreamErrors + active'
      /\ active' \in Nat
  BY <1>2, <1>5 DEF GateInv, Gate!TypeOK, Done
<1>7. Gate!TypeOK'
  BY <1>2, <1>3, <1>6 DEF Gate!TypeOK
<1>8. BucketInv'
  BY DEF GateInv, BucketInv, Gate!Refilled
<1> QED BY <1>5, <1>6, <1>7, <1>8 DEF GateInv

LEMMA Arrives ==
  ASSUME GateInv, NEW c \in Callers, NEW message, Gate!Arrive(c, message)
  PROVE  GateInv'
<1>1. Gate!TypeOK /\ Gate!ConfigValid(current)
  BY DEF GateInv
<1>2. /\ request[c].phase = "none" /\ elapsed' = 0
      /\ UNCHANGED <<current, file, load, settled>>
  BY DEF Gate!Arrive
<1> DEFINE rate == current.requestsPerMinute
           limited == [Gate!Idle EXCEPT !.phase = "done", !.end = "limited"]
           reading == [Gate!Idle EXCEPT !.phase = "reading", !.message = message]
<1>3. c \notin Gate!InProgress
  BY <1>2 DEF Gate!InProgress
<1>4. CASE /\ credit' = Gate!Refilled
           /\ request' = [request EXCEPT ![c] = [Gate!Idle EXCEPT !.phase = "done", !.end = "limited"]]
           /\ UNCHANGED <<active, counters, since>>
  <2>1. request' = [request EXCEPT ![c] = limited]
    BY <1>4
  <2>2. /\ DOMAIN request' = Callers
        /\ \A s \in Callers :
             /\ DOMAIN request'[s] = {"phase", "message", "end", "result"}
             /\ request'[s].phase \in {"none", "reading", "forwarding", "done"}
             /\ request'[s].end \in Gate!Ends \cup {"none"}
        /\ Gate!InProgress' = Gate!InProgress \ {c}
    <3>1. DOMAIN limited = {"phase", "message", "end", "result"} /\ limited.phase = "done" /\ limited.end \in Gate!Ends
      BY DEF Gate!Idle, Gate!Ends
    <3> HIDE DEF limited
    <3> QED BY <1>1, <2>1, <3>1, OneRequest
  <2>3. Gate!InProgress' = Gate!InProgress
    BY <1>3, <2>2
  <2>4. Gate!TypeOK'
    BY <1>1, <1>2, <1>4, <2>2, BucketHolds DEF Gate!TypeOK
  <2>5. BucketInv'
    <3>1. Gate!Refilled' <= Gate!Refilled /\ Gate!Refilled' \in Nat
      <4>1. credit' \in Nat /\ 0 * rate = 0 /\ rate \in Nat
        BY <1>4, BucketHolds
      <4>2. Gate!Refilled' = Gate!Least(rate * Minute, credit' + 0 * rate)
        BY <1>2 DEF Gate!Refilled
      <4>3. rate * Minute \in Nat
        BY <4>1, Product, BoundsAssumption
      <4>4. Gate!Refilled' = Gate!Least(rate * Minute, credit')
        BY <4>1, <4>2
      <4> HIDE DEF rate
      <4> QED BY <1>4, <4>1, <4>3, <4>4 DEF Gate!Least
    <3>2. since.accepted * Minute \in Nat /\ current.requestsPerMinute * (Minute + since.ticks) \in Nat /\ Gate!Refilled \in Nat
      BY BucketHolds, Product
    <3>3. since.accepted * Minute + Gate!Refilled <= current.requestsPerMinute * (Minute + since.ticks)
      BY DEF GateInv, BucketInv
    <3>4. since.accepted * Minute + Gate!Refilled' <= current.requestsPerMinute * (Minute + since.ticks)
      BY <3>1, <3>2, <3>3
    <3> QED BY <1>2, <1>4, <3>4 DEF BucketInv
  <2> QED BY <1>2, <1>4, <2>3, <2>4, <2>5 DEF GateInv
<1>5. CASE /\ ~(Gate!Refilled < Minute)
           /\ credit' = Gate!Refilled - Minute
           /\ active' = active + 1
           /\ counters' = [counters EXCEPT !.requests = @ + 1]
           /\ request' = [request EXCEPT ![c] = [Gate!Idle EXCEPT !.phase = "reading", !.message = message]]
           /\ since' = [since EXCEPT !.accepted = @ + 1]
  <2>1. request' = [request EXCEPT ![c] = reading]
    BY <1>5
  <2>2. /\ DOMAIN request' = Callers
        /\ \A s \in Callers :
             /\ DOMAIN request'[s] = {"phase", "message", "end", "result"}
             /\ request'[s].phase \in {"none", "reading", "forwarding", "done"}
             /\ request'[s].end \in Gate!Ends \cup {"none"}
        /\ Gate!InProgress' = Gate!InProgress \cup {c}
    <3>1. DOMAIN reading = {"phase", "message", "end", "result"} /\ reading.phase = "reading" /\ reading.end = "none"
      BY DEF Gate!Idle
    <3> HIDE DEF reading
    <3> QED BY <1>1, <2>1, <3>1, OneRequest
  <2>3. active' = Cardinality(Gate!InProgress')
    BY <1>3, <1>5, <2>2, CallersFinite, Taking DEF GateInv
  <2>4. credit' \in Nat
    BY <1>5, BucketHolds
  <2>5. since' \in [accepted : Nat, ticks : Nat] /\ since'.accepted = since.accepted + 1 /\ since'.ticks = since.ticks
    BY <1>1, <1>5 DEF Gate!TypeOK
  <2>6. /\ counters' \in [requests : Nat, admitted : Nat, rejected : Nat, upstreamErrors : Nat, reloads : Nat]
        /\ counters'.requests = counters'.admitted + counters'.rejected + counters'.upstreamErrors + active'
        /\ active' \in Nat
    BY <1>1, <1>5 DEF GateInv, Gate!TypeOK
  <2>7. Gate!TypeOK'
    BY <1>1, <1>2, <2>2, <2>4, <2>5, <2>6, BoundsAssumption DEF Gate!TypeOK
  <2>8. BucketInv'
    <3>1. Gate!Refilled' <= Gate!Refilled - Minute /\ Gate!Refilled' \in Nat
      <4>1. 0 * rate = 0 /\ rate \in Nat
        BY BucketHolds
      <4>2. Gate!Refilled' = Gate!Least(rate * Minute, credit' + 0 * rate)
        BY <1>2 DEF Gate!Refilled
      <4>3. rate * Minute \in Nat
        BY <4>1, Product, BoundsAssumption
      <4>4. Gate!Refilled' = Gate!Least(rate * Minute, credit')
        BY <2>4, <4>1, <4>2
      <4> HIDE DEF rate
      <4> QED BY <1>5, <2>4, <4>1, <4>3, <4>4 DEF Gate!Least
    <3>2. /\ since.accepted * Minute \in Nat /\ current.requestsPerMinute * (Minute + since.ticks) \in Nat /\ Gate!Refilled \in Nat
          /\ (since.accepted + 1) * Minute = since.accepted * Minute + Minute /\ Minute \in Nat
      BY BucketHolds, Product
    <3>3. since.accepted * Minute + Gate!Refilled <= current.requestsPerMinute * (Minute + since.ticks)
      BY DEF GateInv, BucketInv
    <3>4. (since.accepted + 1) * Minute + Gate!Refilled' <= current.requestsPerMinute * (Minute + since.ticks)
      BY <3>1, <3>2, <3>3
    <3> QED BY <1>2, <2>5, <3>4 DEF BucketInv
  <2> QED BY <1>2, <2>3, <2>6, <2>7, <2>8 DEF GateInv
<1> QED BY <1>4, <1>5 DEF Gate!Arrive

LEMMA TimePasses ==
  ASSUME GateInv, Gate!Tick
  PROVE  GateInv'
<1>1. /\ elapsed' = Gate!Least(elapsed + 1, Minute)
      /\ since' = [since EXCEPT !.ticks = @ + 1]
      /\ UNCHANGED <<current, credit, active, counters, request, file, load, settled>>
  BY DEF Gate!Tick
<1>2. elapsed' \in 0..Minute /\ elapsed' <= elapsed + 1 /\ elapsed' \in Nat /\ elapsed \in Nat
  BY <1>1, BucketHolds DEF Gate!Least
<1>3. since' \in [accepted : Nat, ticks : Nat] /\ since'.accepted = since.accepted /\ since'.ticks = since.ticks + 1
  BY <1>1 DEF GateInv, Gate!TypeOK
<1>4. Gate!TypeOK'
  BY <1>1, <1>2, <1>3 DEF GateInv, Gate!TypeOK
<1>5. BucketInv'
  <2> DEFINE rate == current.requestsPerMinute
  <2>1. rate \in Nat /\ credit \in Nat /\ Minute \in Nat /\ since.ticks \in Nat
    BY BucketHolds
  <2> HIDE DEF rate
  <2>2. Gate!Least(rate * Minute, credit + elapsed' * rate) <= Gate!Least(rate * Minute, credit + elapsed * rate) + rate
        /\ Gate!Least(rate * Minute, credit + elapsed' * rate) \in Nat
    BY <1>2, <2>1, Refill
  <2>3. Gate!Refilled' <= Gate!Refilled + rate /\ Gate!Refilled' \in Nat
    BY <1>1, <2>2 DEF Gate!Refilled, rate
  <2>4. rate * (Minute + (since.ticks + 1)) = rate * (Minute + since.ticks) + rate /\ rate * (Minute + since.ticks) \in Nat
    BY <2>1, Product
  <2>5. since.accepted * Minute + Gate!Refilled <= rate * (Minute + since.ticks)
    BY DEF GateInv, BucketInv, rate
  <2>6. since.accepted * Minute \in Nat /\ Gate!Refilled \in Nat
    BY BucketHolds, Product
  <2>7. since.accepted * Minute + Gate!Refilled' <= rate * (Minute + (since.ticks + 1))
    BY <2>1, <2>3, <2>4, <2>5, <2>6
  <2> QED BY <1>1, <1>3, <2>7 DEF BucketInv, rate
<1> QED BY <1>1, <1>4, <1>5 DEF GateInv, Gate!InProgress

(* A reload empties the count and leaves at most a full bucket.            *)
LEMMA Reloads ==
  ASSUME GateInv, NEW h \in Hangups, Gate!Apply(h)
  PROVE  GateInv'
<1> DEFINE next == load[h].content
<1>1. /\ load[h].step = "read" /\ next \in Gate!Contents
      /\ load' = [load EXCEPT ![h] = [step |-> "done", content |-> None]]
      /\ UNCHANGED <<elapsed, active, request, file>>
  BY DEF Gate!Apply, GateInv
<1>2. /\ load' \in [Hangups -> [step : {"none", "loading", "read", "done"}, content : Gate!Contents \cup {None}]]
      /\ \A g \in Hangups : load'[g].step = "read" => load'[g].content \in Gate!Contents
  BY <1>1 DEF GateInv, Gate!TypeOK
<1>3. CASE UNCHANGED <<current, credit, counters, since, settled>>
  <2>1. Gate!TypeOK'
    BY <1>1, <1>2, <1>3 DEF GateInv, Gate!TypeOK
  <2> QED BY <1>1, <1>2, <1>3, <2>1 DEF GateInv, BucketInv, Gate!Refilled, Gate!InProgress
<1>4. CASE /\ Gate!ConfigValid(next) /\ next.restart = current.restart
           /\ current' = next
           /\ credit' = Gate!Least(credit, next.requestsPerMinute * Minute)
           /\ counters' = [counters EXCEPT !.reloads = @ + 1]
           /\ since' = [accepted |-> 0, ticks |-> 0]
           /\ settled' = [settled EXCEPT !.floor = settled.signal]
  <2> DEFINE rate == next.requestsPerMinute
  <2>1. rate \in Nat /\ elapsed \in Nat /\ Minute \in Nat /\ credit \in Nat
    BY <1>1, <1>4, Limits, BucketHolds
  <2> HIDE DEF rate
  <2>2. credit' \in Nat
    <3>1. rate * Minute \in Nat
      BY <2>1, Product
    <3> QED BY <1>4, <2>1, <3>1 DEF Gate!Least, rate
  <2>3. /\ counters' \in [requests : Nat, admitted : Nat, rejected : Nat, upstreamErrors : Nat, reloads : Nat]
        /\ counters'.requests = counters'.admitted + counters'.rejected + counters'.upstreamErrors + active
    BY <1>4 DEF GateInv, Gate!TypeOK
  <2>4. Gate!TypeOK'
    BY <1>1, <1>2, <1>4, <2>2, <2>3 DEF GateInv, Gate!TypeOK
  <2>5. BucketInv'
    <3>1. LET now == Gate!Least(rate * Minute, credit' + elapsed * rate)
          IN now \in Nat /\ now <= rate * Minute
      <4>1. elapsed <= elapsed + 1
        BY <2>1
      <4> QED BY <2>1, <2>2, <4>1, Refill
    <3>2. Gate!Refilled' \in Nat /\ Gate!Refilled' <= rate * Minute
      BY <1>1, <1>4, <3>1 DEF Gate!Refilled, rate
    <3>3. rate * Minute \in Nat /\ 0 * Minute = 0 /\ Minute + 0 = Minute
      BY <2>1, Product
    <3>4. 0 * Minute + Gate!Refilled' <= rate * (Minute + 0)
      BY <3>2, <3>3
    <3>5. since'.accepted = 0 /\ since'.ticks = 0
      BY <1>4
    <3> QED BY <1>4, <3>4, <3>5 DEF BucketInv, rate
  <2> QED BY <1>1, <1>2, <1>4, <2>3, <2>4, <2>5 DEF GateInv, Gate!InProgress
<1> QED BY <1>3, <1>4 DEF Gate!Apply

(* Every step of the gateway's module keeps the gateway's invariant.       *)
LEMMA GateStep ==
  ASSUME GateInv, GateNext \/ UNCHANGED gate
  PROVE  GateInv'
<1>1. Gate!TypeOK
  BY DEF GateInv
<1>2. ASSUME NEW c \in Callers, Gate!Decide(c)
      PROVE  GateInv'
  <2>1. UNCHANGED <<current, credit, elapsed, file, load, since>>
    BY <1>2 DEF Gate!Decide
  <2>2. CASE Done(c, "rejected") /\ counters' = [counters EXCEPT !.rejected = @ + 1] /\ UNCHANGED settled
    BY <2>1, <2>2, DoneKeeps DEF Gate!Ends
  <2>3. CASE /\ request[c].phase = "reading"
             /\ request' = [request EXCEPT ![c] = [request[c] EXCEPT !.phase = "forwarding"]]
             /\ settled' = [settled EXCEPT !.at[c] = settled.floor]
             /\ UNCHANGED <<active, counters>>
    <3> DEFINE r == [request[c] EXCEPT !.phase = "forwarding"]
    <3>1. DOMAIN r = {"phase", "message", "end", "result"} /\ r.phase = "forwarding" /\ r.end \in Gate!Ends \cup {"none"}
      BY <1>1 DEF Gate!TypeOK
    <3>2. request' = [request EXCEPT ![c] = r]
      BY <2>3
    <3> HIDE DEF r
    <3>3. /\ DOMAIN request' = Callers
          /\ \A s \in Callers :
               /\ DOMAIN request'[s] = {"phase", "message", "end", "result"}
               /\ request'[s].phase \in {"none", "reading", "forwarding", "done"}
               /\ request'[s].end \in Gate!Ends \cup {"none"}
          /\ Gate!InProgress' = Gate!InProgress \cup {c}
      BY <1>1, <3>1, <3>2, OneRequest
    <3>4. Gate!InProgress' = Gate!InProgress
      BY <2>3, <3>3 DEF Gate!InProgress
    <3>5. Gate!TypeOK'
      BY <1>1, <2>1, <2>3, <3>3 DEF Gate!TypeOK
    <3> QED BY <2>1, <2>3, <3>4, <3>5 DEF GateInv, BucketInv, Gate!Refilled
  <2> QED BY <1>1, <1>2, <2>2, <2>3, Decides
<1>3. ASSUME NEW c \in Callers, NEW result, Gate!Answer(c, result)
      PROVE  GateInv'
  <2>1. UNCHANGED <<current, credit, elapsed, file, load, since, settled>>
    BY <1>3 DEF Gate!Answer
  <2> QED BY <1>1, <1>3, <2>1, AnswersOnce, DoneKeeps DEF Gate!Ends
<1>4. ASSUME NEW c \in Callers, Gate!Leave(c)
      PROVE  GateInv'
  <2>1. /\ request[c].phase = "done" /\ request' = [request EXCEPT ![c] = Gate!Idle]
        /\ UNCHANGED <<current, credit, elapsed, active, counters, file, load, since, settled>>
    BY <1>4 DEF Gate!Leave
  <2>2. DOMAIN Gate!Idle = {"phase", "message", "end", "result"} /\ Gate!Idle.phase = "none" /\ Gate!Idle.end = "none"
    BY DEF Gate!Idle
  <2>3. /\ DOMAIN request' = Callers
        /\ \A s \in Callers :
             /\ DOMAIN request'[s] = {"phase", "message", "end", "result"}
             /\ request'[s].phase \in {"none", "reading", "forwarding", "done"}
             /\ request'[s].end \in Gate!Ends \cup {"none"}
        /\ Gate!InProgress' = Gate!InProgress \ {c}
    BY <1>1, <2>1, <2>2, OneRequest
  <2>4. Gate!InProgress' = Gate!InProgress
    BY <2>1, <2>3 DEF Gate!InProgress
  <2>5. Gate!TypeOK'
    BY <1>1, <2>1, <2>3 DEF Gate!TypeOK
  <2> QED BY <2>1, <2>4, <2>5 DEF GateInv, BucketInv, Gate!Refilled
<1>5. ASSUME Gate!Edit
      PROVE  GateInv'
  <2>1. file' \in DOMAIN Files
    BY <1>1, <1>5, FilesAssumption DEF Gate!Edit, Gate!TypeOK
  <2>2. Gate!TypeOK'
    BY <1>1, <1>5, <2>1 DEF Gate!Edit, Gate!TypeOK
  <2> QED BY <1>5, <2>2 DEF Gate!Edit, GateInv, BucketInv, Gate!Refilled, Gate!InProgress
<1>6. ASSUME NEW h \in Hangups, Gate!Hangup(h) \/ Gate!Read(h)
      PROVE  GateInv'
  <2>1. UNCHANGED <<current, credit, elapsed, active, counters, request, file, since>>
    BY <1>6 DEF Gate!Hangup, Gate!Read
  <2>2. Files[file] \in Gate!Contents
    BY <1>1 DEF Gate!TypeOK, Gate!Contents
  <2>3. /\ load' \in [Hangups -> [step : {"none", "loading", "read", "done"}, content : Gate!Contents \cup {None}]]
        /\ \A g \in Hangups : load'[g].step = "read" => load'[g].content \in Gate!Contents
    <3>1. CASE load' = [load EXCEPT ![h].step = "loading"]
      BY <3>1 DEF GateInv, Gate!TypeOK
    <3>2. CASE load' = [load EXCEPT ![h] = [step |-> "read", content |-> Files[file]]]
      BY <2>2, <3>2 DEF GateInv, Gate!TypeOK
    <3> QED BY <1>6, <3>1, <3>2 DEF Gate!Hangup, Gate!Read
  <2>4. settled' \in [signal : DOMAIN Files, floor : DOMAIN Files, at : [Callers -> DOMAIN Files]]
    BY <1>1, <1>6 DEF Gate!Hangup, Gate!Read, Gate!TypeOK
  <2>5. Gate!TypeOK'
    BY <1>1, <2>1, <2>3, <2>4 DEF Gate!TypeOK
  <2> QED BY <2>1, <2>3, <2>5 DEF GateInv, BucketInv, Gate!Refilled, Gate!InProgress
<1>7. ASSUME UNCHANGED gate
      PROVE  GateInv'
  <2>1. Gate!TypeOK'
    BY <1>1, <1>7 DEF gate, Gate!TypeOK
  <2> QED BY <1>7, <2>1 DEF gate, GateInv, BucketInv, Gate!Refilled, Gate!InProgress
<1> QED BY <1>2, <1>3, <1>4, <1>5, <1>6, <1>7, Arrives, TimePasses, Reloads DEF GateNext

(* A request that is not forwarded by this step was forwarded before it,   *)
(* with the same message.                                                  *)
LEMMA ForwardedBefore ==
  ASSUME RevocationHolds, file' \in Nat, file \in Nat, file <= file', settled'.at = settled.at, settled.at \in [Callers -> Nat],
         \A c \in Callers : request'[c].phase = "forwarding" =>
           request[c].phase = "forwarding" /\ request'[c].message = request[c].message
  PROVE  RevocationHolds'
<1> SUFFICES ASSUME NEW c \in Callers, request'[c].phase = "forwarding"
             PROVE  \E i \in settled'.at[c]..file' :
                      /\ Gate!ConfigValid(Files[i]) /\ Files[i].restart = Files[1].restart
                      /\ Gate!Accepts(request'[c].message, Files[i])
  BY DEF RevocationHolds
<1>1. request[c].phase = "forwarding" /\ request'[c].message = request[c].message
  OBVIOUS
<1>2. PICK i \in settled.at[c]..file : /\ Gate!ConfigValid(Files[i]) /\ Files[i].restart = Files[1].restart
                                      /\ Gate!Accepts(request[c].message, Files[i])
  BY <1>1 DEF RevocationHolds
<1>3. i \in settled'.at[c]..file'
  BY <1>2
<1> QED BY <1>1, <1>2, <1>3

(* What a reload settles stays settled, and a request is forwarded by a    *)
(* configuration no older.                                                 *)
LEMMA ReloadStep ==
  ASSUME GateInv, ReloadInv, GateNext \/ UNCHANGED gate
  PROVE  ReloadInv'
<1>1. Gate!TypeOK /\ RevocationHolds
  BY DEF GateInv, ReloadInv
<1>2. /\ file \in Nat /\ settled.floor \in Nat /\ settled.signal \in Nat /\ settled.at \in [Callers -> Nat]
      /\ DOMAIN request = Callers /\ DOMAIN load = Hangups
      /\ settled = [signal |-> settled.signal, floor |-> settled.floor, at |-> settled.at]
  BY <1>1, FilesAssumption DEF Gate!TypeOK
<1>3. ASSUME UNCHANGED <<current, file, load, settled>>, RevocationHolds'
      PROVE  ReloadInv'
  BY <1>3 DEF ReloadInv, Version
<1>4. ASSUME NEW c \in Callers, Gate!Decide(c)
      PROVE  ReloadInv'
  <2>1. UNCHANGED <<current, file, load>>
    BY <1>4 DEF Gate!Decide
  <2>2. CASE Done(c, "rejected") /\ UNCHANGED settled
    <3>1. \A d \in Callers : request'[d].phase = "forwarding" =>
            request[d].phase = "forwarding" /\ request'[d].message = request[d].message
      BY <1>2, <2>2 DEF Done
    <3> QED BY <1>1, <1>2, <1>3, <2>1, <2>2, <3>1, ForwardedBefore
  <2>3. CASE /\ Gate!Accepts(request[c].message, current)
             /\ request' = [request EXCEPT ![c] = [request[c] EXCEPT !.phase = "forwarding"]]
             /\ settled' = [settled EXCEPT !.at[c] = settled.floor]
    <3>1. settled'.floor = settled.floor /\ settled'.signal = settled.signal /\ settled'.at = [settled.at EXCEPT ![c] = settled.floor]
      BY <1>2, <2>3
    <3>2. request'[c].message = request[c].message /\ \A d \in Callers \ {c} : request'[d] = request[d]
      BY <1>1, <1>2, <2>3 DEF Gate!TypeOK
    <3>3. ASSUME NEW d \in Callers, request'[d].phase = "forwarding"
          PROVE  \E i \in settled'.at[d]..file : /\ Gate!ConfigValid(Files[i]) /\ Files[i].restart = Files[1].restart
                                                 /\ Gate!Accepts(request'[d].message, Files[i])
      <4>1. CASE d # c
        <5>1. settled'.at[d] = settled.at[d] /\ request'[d] = request[d]
          BY <1>2, <3>1, <3>2, <4>1
        <5> QED BY <1>1, <3>3, <5>1 DEF RevocationHolds
      <4>2. CASE d = c
        <5>1. PICK i \in settled.floor..file : current = Files[i]
          BY DEF ReloadInv, Version
        <5>2. settled'.at[c] = settled.floor
          BY <1>2, <3>1
        <5>3. Gate!ConfigValid(Files[i]) /\ Files[i].restart = Files[1].restart /\ Gate!Accepts(request'[c].message, Files[i])
          BY <2>3, <3>2, <5>1 DEF GateInv
        <5> QED BY <4>2, <5>1, <5>2, <5>3
      <4> QED BY <4>1, <4>2
    <3>4. RevocationHolds'
      BY <2>1, <3>3 DEF RevocationHolds
    <3> QED BY <2>1, <3>1, <3>4 DEF ReloadInv, Version
  <2> QED BY <1>1, <1>4, <2>2, <2>3, Decides
<1>5. ASSUME NEW c \in Callers, NEW x, Gate!Arrive(c, x) \/ Gate!Answer(c, x) \/ Gate!Leave(c)
      PROVE  ReloadInv'
  <2>1. UNCHANGED <<current, file, load, settled>>
    BY <1>5 DEF Gate!Arrive, Gate!Answer, Gate!Leave
  <2>2. \A d \in Callers : request'[d].phase = "forwarding" =>
          request[d].phase = "forwarding" /\ request'[d].message = request[d].message
    <3>1. CASE Gate!Arrive(c, x)
      <4> DEFINE limited == [Gate!Idle EXCEPT !.phase = "done", !.end = "limited"]
                 reading == [Gate!Idle EXCEPT !.phase = "reading", !.message = x]
      <4>1. request' = [request EXCEPT ![c] = limited] \/ request' = [request EXCEPT ![c] = reading]
        BY <3>1 DEF Gate!Arrive
      <4>2. limited.phase = "done" /\ reading.phase = "reading"
        BY DEF Gate!Idle
      <4> HIDE DEF limited, reading
      <4> QED BY <1>2, <4>1, <4>2
    <3>2. CASE Gate!Answer(c, x)
      <4>1. PICK r : request' = [request EXCEPT ![c] = r] /\ r.phase = "done"
        BY <1>1, <3>2, AnswersOnce DEF Done
      <4> QED BY <1>2, <4>1
    <3>3. CASE Gate!Leave(c)
      <4>1. request' = [request EXCEPT ![c] = Gate!Idle] /\ Gate!Idle.phase = "none"
        BY <3>3 DEF Gate!Leave, Gate!Idle
      <4> QED BY <1>2, <4>1
    <3> QED BY <1>5, <3>1, <3>2, <3>3
  <2>3. RevocationHolds'
    BY <1>1, <1>2, <2>1, <2>2, ForwardedBefore
  <2> QED BY <1>3, <2>1, <2>3
<1>6. ASSUME NEW h \in Hangups, Gate!Hangup(h)
      PROVE  ReloadInv'
  <2>1. /\ UNCHANGED <<current, request, file>> /\ load[h].step = "none"
        /\ load' = [load EXCEPT ![h].step = "loading"]
        /\ settled' = [settled EXCEPT !.signal = IF Gate!Loading = {} THEN file ELSE settled.signal]
    BY <1>6 DEF Gate!Hangup
  <2>2. /\ settled'.floor = settled.floor /\ settled'.at = settled.at
        /\ settled'.signal = IF Gate!Loading = {} THEN file ELSE settled.signal
    BY <1>2, <2>1
  <2>3. settled'.floor <= settled'.signal /\ settled'.signal <= file
    BY <1>2, <2>2 DEF ReloadInv
  <2>4. ASSUME NEW g \in Hangups, load'[g].step = "read"
        PROVE  \E i \in settled'.signal..file : load'[g].content = Files[i]
    <3>1. load'[g] = load[g]
      <4>1. load[h] = [step |-> load[h].step, content |-> load[h].content]
        BY <1>1 DEF Gate!TypeOK
      <4>2. load'[h].step = "loading"
        BY <1>2, <2>1, <4>1
      <4> QED BY <1>2, <2>1, <2>4, <4>2
    <3>2. g \in Gate!Loading
      BY <2>4, <3>1 DEF Gate!Loading
    <3>3. settled'.signal = settled.signal
      BY <2>2, <3>2
    <3> QED BY <2>4, <3>1, <3>3 DEF ReloadInv, Version
  <2>5. RevocationHolds'
    BY <1>1, <2>1, <2>2 DEF RevocationHolds
  <2> QED BY <2>1, <2>2, <2>3, <2>4, <2>5 DEF ReloadInv, Version
<1>7. ASSUME NEW h \in Hangups, Gate!Read(h)
      PROVE  ReloadInv'
  <2>1. /\ UNCHANGED <<current, request, file, settled>>
        /\ load' = [load EXCEPT ![h] = [step |-> "read", content |-> Files[file]]]
    BY <1>7 DEF Gate!Read
  <2>2. file \in settled.signal..file
    BY <1>2 DEF ReloadInv
  <2>3. ASSUME NEW g \in Hangups, load'[g].step = "read"
        PROVE  \E i \in settled.signal..file : load'[g].content = Files[i]
    <3>1. CASE g = h
      <4>1. load'[g].content = Files[file]
        BY <1>2, <2>1, <3>1
      <4> QED BY <2>2, <4>1
    <3>2. CASE g # h
      <4>1. load'[g] = load[g]
        BY <1>2, <2>1, <3>2
      <4> QED BY <2>3, <4>1 DEF ReloadInv, Version
    <3> QED BY <3>1, <3>2
  <2>4. RevocationHolds'
    BY <1>1, <2>1 DEF RevocationHolds
  <2> QED BY <2>1, <2>3, <2>4 DEF ReloadInv, Version
<1>8. ASSUME NEW h \in Hangups, Gate!Apply(h)
      PROVE  ReloadInv'
  <2>1. /\ UNCHANGED <<request, file>> /\ load[h].step = "read"
        /\ load' = [load EXCEPT ![h] = [step |-> "done", content |-> None]]
        /\ \/ current' = load[h].content /\ settled' = [settled EXCEPT !.floor = settled.signal]
           \/ UNCHANGED <<current, settled>>
    BY <1>8 DEF Gate!Apply
  <2>2. settled'.signal = settled.signal /\ settled'.at = settled.at /\ settled'.floor <= settled'.signal
    BY <1>2, <2>1 DEF ReloadInv
  <2>3. \E i \in settled'.floor..file : current' = Files[i]
    <3>1. CASE current' = load[h].content /\ settled' = [settled EXCEPT !.floor = settled.signal]
      <4>1. settled'.floor = settled.signal
        BY <1>2, <3>1
      <4> QED BY <2>1, <3>1, <4>1 DEF ReloadInv, Version
    <3>2. CASE UNCHANGED <<current, settled>>
      BY <3>2 DEF ReloadInv, Version
    <3> QED BY <2>1, <3>1, <3>2
  <2>4. ASSUME NEW g \in Hangups, load'[g].step = "read"
        PROVE  \E i \in settled.signal..file : load'[g].content = Files[i]
    <3>1. load'[g] = load[g]
      <4>1. load'[h].step = "done"
        BY <1>2, <2>1
      <4> QED BY <1>2, <2>1, <2>4, <4>1
    <3> QED BY <2>4, <3>1 DEF ReloadInv, Version
  <2>5. RevocationHolds'
    BY <1>1, <2>1, <2>2 DEF RevocationHolds
  <2>6. settled.signal <= file
    BY DEF ReloadInv
  <2> QED BY <2>1, <2>2, <2>3, <2>4, <2>5, <2>6 DEF ReloadInv, Version
<1>9. ASSUME Gate!Edit
      PROVE  ReloadInv'
  <2>1. UNCHANGED <<current, request, load, settled>> /\ file' = file + 1
    BY <1>9 DEF Gate!Edit
  <2>2. ASSUME NEW config, NEW from \in Nat, NEW i \in from..file, config = Files[i]
        PROVE  \E j \in from..file' : config = Files[j]
    <3>1. i \in from..file'
      BY <1>2, <2>1, <2>2
    <3> QED BY <2>2, <3>1
  <2>3. RevocationHolds'
    BY <1>1, <1>2, <2>1, ForwardedBefore
  <2>4. (\E j \in settled.floor..file' : current = Files[j])
        /\ \A h \in Hangups : load[h].step = "read" => \E j \in settled.signal..file' : load[h].content = Files[j]
    BY <1>2, <2>2 DEF ReloadInv, Version
  <2>5. settled.floor <= settled.signal /\ settled.signal <= file'
    BY <1>2, <2>1 DEF ReloadInv
  <2> QED BY <2>1, <2>3, <2>4, <2>5 DEF ReloadInv, Version
<1>10. ASSUME Gate!Tick \/ UNCHANGED gate
       PROVE  ReloadInv'
  <2>1. UNCHANGED <<current, request, file, load, settled>>
    BY <1>10 DEF Gate!Tick, gate
  <2> QED BY <1>1, <1>3, <2>1 DEF RevocationHolds
<1> QED BY <1>4, <1>5, <1>6, <1>7, <1>8, <1>9, <1>10 DEF GateNext

LEMMA ReloadInit ==
  ASSUME Gate!Init
  PROVE  ReloadInv
<1>1. /\ settled.floor = 1 /\ settled.signal = 1 /\ file = 1 /\ current = Files[1]
      /\ \A h \in Hangups : load[h].step = "none"
      /\ \A c \in Callers : request[c].phase = "none"
  BY DEF Gate!Init, Gate!Idle
<1>2. 1 \in 1..1 /\ 1 <= 1
  OBVIOUS
<1>3. Version(current, 1)
  BY <1>1, <1>2 DEF Version
<1>4. RevocationHolds
  BY <1>1 DEF RevocationHolds
<1> QED BY <1>1, <1>2, <1>3, <1>4 DEF ReloadInv

LEMMA GateInit ==
  ASSUME Gate!Init
  PROVE  GateInv
<1>1. Files[1] \in Gate!Contents /\ 1 \in DOMAIN Files
  BY FilesAssumption DEF Gate!Contents
<1> DEFINE rate == Files[1].requestsPerMinute
<1>2. rate \in Nat /\ Minute \in Nat /\ rate * Minute \in Nat
  BY <1>1, Limits, Product, FilesAssumption, BoundsAssumption
<1>3. Gate!TypeOK
  BY <1>1, <1>2 DEF Gate!Init, Gate!TypeOK, Gate!Idle
<1>4. Gate!InProgress = {}
  BY DEF Gate!Init, Gate!InProgress, Gate!Idle
<1>5. BucketInv
  <2>1. 0 * Minute = 0 /\ 0 * rate = 0 /\ Minute + 0 = Minute /\ rate * Minute + 0 = rate * Minute
    BY <1>2
  <2>2. Gate!Least(rate * Minute, rate * Minute + 0 * rate) = rate * Minute
    BY <1>2, <2>1 DEF Gate!Least
  <2>3. Gate!Refilled = rate * Minute /\ since.accepted = 0 /\ since.ticks = 0 /\ current = Files[1]
    BY <2>2 DEF Gate!Init, Gate!Refilled
  <2> HIDE DEF rate
  <2>4. 0 * Minute + rate * Minute <= rate * (Minute + 0)
    BY <1>2, <2>1
  <2> QED BY <2>3, <2>4 DEF BucketInv, rate
<1> QED BY <1>3, <1>4, <1>5, FS_EmptySet, FilesAssumption DEF Gate!Init, GateInv

--------------------------------------------------------------------------------
(* The adapters.                                                           *)
LEMMA Parts ==
  ASSUME IInv
  PROVE  PageInv /\ GateInv /\ PathInv /\ PathTypeOK /\ Gate!TypeOK /\ Page!TypeOK
BY DEF IInv, PageInv, GateInv, PathInv

LEMMA TwoCallers ==
  "submit" \in Callers /\ "status" \in Callers /\ "submit" \notin Others /\ "status" \notin Others
BY CallersAssumption DEF Callers

(* Nonces are counted.                                                     *)
LEMMA Counted ==
  ASSUME PathTypeOK, NEW account
  PROVE  Nonce(account) \in Nat
<1>1. IsFiniteSet(DOMAIN chain)
  BY DEF PathTypeOK
<1>2. {op \in DOMAIN chain : op.owner = account.owner /\ op.profile = account.profile} \subseteq DOMAIN chain
  OBVIOUS
<1> QED BY <1>1, <1>2, FS_Subset, FS_CardinalityType DEF Nonce

(* A caller joins the queue, at its end.                                   *)
LEMMA Joins ==
  ASSUME queue \in Seq(Callers), QueueInv, NEW c \in Callers, ~Queued(c), queue' = Append(queue, c),
         \A d \in Callers : Queued(d) \/ d = c => request'[d].phase = "none"
  PROVE  queue' \in Seq(Callers) /\ QueueInv' /\ \A d \in Callers : Queued(d)' <=> Queued(d) \/ d = c
<1>1. /\ queue' \in Seq(Callers) /\ Len(queue) \in Nat /\ Len(queue') = Len(queue) + 1
      /\ \A i \in 1..Len(queue) : queue'[i] = queue[i] /\ queue[i] \in Callers
      /\ queue'[Len(queue) + 1] = c
      /\ DOMAIN queue = 1..Len(queue) /\ DOMAIN queue' = 1..(Len(queue) + 1)
  BY AppendProperties
<1>2. \A i \in DOMAIN queue' : i \in DOMAIN queue \/ i = Len(queue) + 1
  BY <1>1
<1>3. \A d \in Callers : Queued(d)' <=> Queued(d) \/ d = c
  BY <1>1, <1>2 DEF Queued
<1>4. \A i \in DOMAIN queue : queue[i] # c
  BY DEF Queued
<1>5. QueueInv'
  BY <1>1, <1>2, <1>4 DEF QueueInv, Queued
<1> QED BY <1>1, <1>3, <1>5

(* The first of the queue leaves it.                                       *)
LEMMA Leaves ==
  ASSUME queue \in Seq(Callers), QueueInv, NEW c, queue # <<>>, Head(queue) = c, queue' = Tail(queue),
         \A d \in Callers \ {c} : request'[d] = request[d]
  PROVE  queue' \in Seq(Callers) /\ QueueInv' /\ Queued(c) /\ \A d \in Callers : Queued(d)' => Queued(d)
<1>1. /\ queue' \in Seq(Callers) /\ Len(queue) \in Nat /\ Len(queue) >= 1 /\ Len(queue') = Len(queue) - 1
      /\ \A i \in 1..Len(queue') : queue'[i] = queue[i + 1]
      /\ \A i \in 1..Len(queue) : queue[i] \in Callers
      /\ DOMAIN queue = 1..Len(queue) /\ DOMAIN queue' = 1..Len(queue')
      /\ queue[1] = c
  BY HeadTailProperties, EmptySeq
<1>2. \A i \in DOMAIN queue' : i + 1 \in DOMAIN queue /\ queue'[i] = queue[i + 1] /\ i \in Nat /\ i + 1 # 1
  BY <1>1
<1>3. Queued(c) /\ \A d \in Callers : Queued(d)' => Queued(d)
  BY <1>1, <1>2 DEF Queued
<1>4. 1 \in DOMAIN queue
  BY <1>1
<1>5. \A i \in DOMAIN queue' : queue'[i] # c
  BY <1>1, <1>2, <1>4 DEF QueueInv
<1>6. QueueInv'
  BY <1>1, <1>2, <1>5 DEF QueueInv
<1> QED BY <1>1, <1>3, <1>6

(* What the chain has it keeps, and so the receipts stay.                  *)
LEMMA Extends ==
  ASSUME PathTypeOK, NEW op \in Page!Operations, NEW outcome \in Outcomes, chain' = With(chain, op, outcome)
  PROVE  /\ DOMAIN chain' \subseteq Page!Operations /\ IsFiniteSet(DOMAIN chain')
         /\ \A x \in DOMAIN chain' : chain'[x] \in Outcomes
         /\ \A x \in DOMAIN chain : x \in DOMAIN chain' /\ chain'[x] = chain[x]
<1>1. DOMAIN chain' = DOMAIN chain \cup {op}
  BY DEF With
<1>2. /\ \A x \in DOMAIN chain : chain'[x] = chain[x]
      /\ op \notin DOMAIN chain => chain'[op] = outcome
  BY DEF With
<1>3. IsFiniteSet(DOMAIN chain')
  <2>1. IsFiniteSet(DOMAIN chain)
    BY DEF PathTypeOK
  <2>2. IsFiniteSet(DOMAIN chain \cup {op})
    BY <2>1, FS_AddElement
  <2> QED BY <1>1, <2>2
<1> QED BY <1>1, <1>2, <1>3 DEF PathTypeOK

(* A receipt of a block decides as the chain does.                         *)
LEMMA Decided ==
  ASSUME PathTypeOK, NEW op \in Page!Operations, NEW receipt \in CanonicalReceipts(op)
  PROVE  LET status == InclusionFromReceipt(op, receipt)
         IN /\ status \in Outcomes \cup {"transaction-reverted", "error"}
            /\ status \in Outcomes => Mined(op) /\ chain[op] = status
<1> DEFINE matching == {e \in receipt.events : e.entryPoint /\ e.operation = op}
<1>1. op # None
  BY PageAssumption
<1>2. CASE ~receipt.ok
  BY <1>2 DEF InclusionFromReceipt, Outcomes
<1>3. CASE receipt.ok /\ matching = {}
  <2>1. Cardinality(matching) = 0
    BY <1>3, FS_EmptySet
  <2> QED BY <1>3, <2>1 DEF InclusionFromReceipt, Outcomes
<1>4. CASE /\ receipt.ok /\ Mined(op)
           /\ receipt.events = {Event(TRUE, None, TRUE), Event(TRUE, op, chain[op] = "included")}
  <2> DEFINE event == Event(TRUE, op, chain[op] = "included")
  <2>1. event.entryPoint = TRUE /\ event.operation = op /\ event.success = (chain[op] = "included")
    BY DEF Event
  <2>2. Event(TRUE, None, TRUE).operation = None
    BY DEF Event
  <2>3. receipt.events = {Event(TRUE, None, TRUE), event}
    BY <1>4
  <2> HIDE DEF event
  <2>4. matching = {event}
    BY <1>1, <2>1, <2>2, <2>3
  <2>5. Cardinality(matching) = 1 /\ (CHOOSE e \in matching : TRUE) = event
    BY <2>4, FS_Singleton
  <2>6. chain[op] \in Outcomes
    BY <1>4 DEF Mined, PathTypeOK
  <2> QED BY <1>4, <2>1, <2>5, <2>6 DEF InclusionFromReceipt, Outcomes
<1>5. \/ ~receipt.ok
      \/ receipt.ok /\ matching = {}
      \/ /\ receipt.ok /\ Mined(op)
         /\ receipt.events = {Event(TRUE, None, TRUE), Event(TRUE, op, chain[op] = "included")}
  <2>1. CASE receipt = Receipt(TRUE, TRUE, {Event(TRUE, None, TRUE)})
    BY <1>1, <2>1 DEF Receipt, Event
  <2>2. CASE receipt = Receipt(TRUE, TRUE, {Event(FALSE, op, TRUE)})
    BY <2>2 DEF Receipt, Event
  <2>3. CASE receipt = Receipt(TRUE, FALSE, {})
    BY <2>3 DEF Receipt
  <2>4. CASE Mined(op) /\ receipt = Genuine(op)
    BY <2>4 DEF Receipt, Genuine
  <2>5. receipt.mined /\ receipt \in ReceiptsFor(op)
    BY DEF CanonicalReceipts
  <2>6. ASSUME NEW success \in BOOLEAN, receipt = Receipt(FALSE, TRUE, {Event(TRUE, op, success)})
        PROVE  FALSE
    <3>1. receipt.mined = FALSE
      BY <2>6 DEF Receipt
    <3> QED BY <2>5, <3>1
  <2>7. receipt \notin Preconfirmed(op)
    BY <2>6 DEF Preconfirmed
  <2> QED BY <2>1, <2>2, <2>3, <2>4, <2>5, <2>7 DEF ReceiptsFor
<1> QED BY <1>2, <1>3, <1>4, <1>5

JobsOK ==
  /\ DOMAIN job = {"submit", "status"}
  /\ JobOK("submit", {"transaction", "entrypoints", "send"}) /\ JobOK("status", {"receipt", "mined receipt"})

LEMMA JobsStay ==
  ASSUME PathTypeOK, UNCHANGED job
  PROVE  JobsOK'
BY DEF PathTypeOK, JobsOK, JobOK

(* A step that leaves the adapters, the requests and the chain alone.      *)
LEMMA Elsewhere ==
  ASSUME PathInv, UNCHANGED <<queue, job, known, submitted, pool, chain, report, last, request>>, gap' \in 0..Interval
  PROVE  PathInv'
<1>1. PathTypeOK'
  BY JobsStay DEF PathInv, PathTypeOK, JobsOK
<1>2. QueueInv' /\ SubmittedInv'
  BY DEF PathInv, QueueInv, SubmittedInv
<1>3. StatusInv'
  BY DEF PathInv, StatusInv, Queued
<1>4. InclusionIsReal'
  BY DEF PathInv, InclusionIsReal, Mined
<1>5. \A s \in submitted' : AsReviewed(s)
  BY DEF PathInv
<1> QED BY <1>1, <1>2, <1>3, <1>4, <1>5 DEF PathInv, AsReviewed

(* What the page posts.                                                    *)
LEMMA Posts ==
  ASSUME IInv, NetworkChecked
  PROVE  PathInv'
<1>1. /\ Page!Network /\ Page!Busy
      /\ UNCHANGED <<gate, rpc, job, known, pool, chain, report, left>>
  BY DEF NetworkChecked, elsewhere, Page!Network, Page!Awaits
<1>2. CASE submitted' = submitted /\ last' = last
  BY <1>1, <1>2, Elsewhere, Parts DEF gate, rpc, PathTypeOK
<1>3. CASE \E kind : Page!Fail(kind)
  <2>1. flow' # flow /\ last' = last
    BY <1>1, <1>3 DEF Page!Fail, Page!Finish, Page!Busy
  <2> QED BY <1>2, <2>1 DEF NetworkChecked
<1>4. CASE ~(\E kind : Page!Fail(kind)) /\ Page!Calls(flow)[step + 1] # "submit"
  <2>1. last' = last /\ prepared' = prepared
    BY <1>1, <1>4 DEF Page!Network
  <2> QED BY <1>2, <2>1 DEF NetworkChecked
<1>5. CASE ~(\E kind : Page!Fail(kind)) /\ Page!Calls(flow)[step + 1] = "submit"
  <2>1. /\ flow = "sign" /\ flow' = "sign"
        /\ Page!OperationVerifies(signature) /\ Page!IsSignature(signature)
        /\ prepared # None /\ prepared' = None
        /\ last' = [last EXCEPT ![profile] = prepared.operation]
    BY <1>1, <1>5, Parts, Verified
  <2> DEFINE op == prepared.operation
             posted == [operation |-> prepared.operation, mode |-> prepared.mode, signature |-> signature,
                        session |-> prepared.session, shown |-> <<address, profile, action, mode>>]
  <2>2. /\ op \in Page!Operations /\ prepared.mode \in Modes
        /\ sessions[profile] # None /\ prepared.session = sessions[profile] /\ prepared.mode = mode
        /\ op.owner = prepared.session.owner /\ op.profile = profile /\ op.action = action
        /\ prepared.session.address = address
        /\ profile \in Profiles /\ last'[profile] = op /\ \A p \in Profiles \ {profile} : last'[p] = last[p]
    BY <2>1, Parts DEF PageInv, ReviewInv, SessionInv, Page!TypeOK, Page!Reviews
  <2>3. submitted' = submitted \cup {posted}
    BY <2>1, <2>2 DEF NetworkChecked
  <2>4. AsReviewed(posted)
    <3>1. posted.shown = <<posted.session.address, posted.operation.profile, posted.operation.action, posted.mode>>
      BY <2>2
    <3>2. /\ signature = [wellFormed |-> signature.wellFormed, key |-> signature.key, headers |-> signature.headers,
                          address |-> signature.address, payload |-> signature.payload]
          /\ signature.wellFormed = TRUE /\ signature.address = address /\ signature.payload = <<"operation", op>>
      BY <2>1 DEF Page!IsSignature, Page!OperationVerifies, Page!Verifies, Page!Payload
    <3>3. [key |-> signature.key, headers |-> signature.headers] = op.owner
      BY <2>1, <2>2 DEF Page!OperationVerifies
    <3>4. op.owner.key = signature.key /\ op.owner.headers = signature.headers
      BY <3>3
    <3>5. signature = [wellFormed |-> TRUE, key |-> op.owner.key, headers |-> op.owner.headers,
                       address |-> prepared.session.address, payload |-> <<"operation", op>>]
      BY <2>2, <3>2, <3>4
    <3> QED BY <2>2, <3>1, <3>5 DEF AsReviewed
  <2>5. posted.operation = op /\ posted.mode \in Modes
    BY <2>2
  <2> HIDE DEF posted, op
  <2>6. PathTypeOK'
    BY <1>1, <2>2, <2>3, <2>5, Parts, JobsStay DEF PathTypeOK, JobsOK, rpc
  <2>7. QueueInv'
    BY <1>1, Parts DEF PathInv, QueueInv, rpc, gate
  <2>8. StatusInv'
    BY <1>1, Parts DEF PathInv, StatusInv, Queued, rpc, gate
  <2>9. InclusionIsReal'
    BY <1>1, Parts DEF PathInv, InclusionIsReal, Mined
  <2>10. SubmittedInv'
    BY <2>2, <2>3, <2>5, Parts DEF PathInv, SubmittedInv
  <2>11. \A s \in submitted' : AsReviewed(s)
    BY <2>3, <2>4, Parts DEF PathInv
  <2> QED BY <2>6, <2>7, <2>8, <2>9, <2>10, <2>11 DEF PathInv, AsReviewed
<1> QED BY <1>3, <1>4, <1>5

(* The chain grows.                                                        *)
LEMMA Grows ==
  ASSUME PathInv, NEW op \in Page!Operations, NEW outcome \in Outcomes, chain' = With(chain, op, outcome),
         UNCHANGED <<queue, gap, job, known, submitted, pool, report, last, request>>
  PROVE  PathInv'
<1>1. /\ DOMAIN chain' \subseteq Page!Operations /\ IsFiniteSet(DOMAIN chain')
      /\ \A x \in DOMAIN chain' : chain'[x] \in Outcomes
      /\ \A x \in DOMAIN chain : x \in DOMAIN chain' /\ chain'[x] = chain[x]
  BY Extends DEF PathInv
<1>2. PathTypeOK'
  BY <1>1, JobsStay DEF PathInv, PathTypeOK, JobsOK
<1>3. QueueInv' /\ SubmittedInv'
  BY DEF PathInv, QueueInv, SubmittedInv
<1>4. StatusInv'
  BY DEF PathInv, StatusInv, Queued
<1>5. InclusionIsReal'
  BY <1>1 DEF PathInv, InclusionIsReal, Mined
<1>6. \A s \in submitted' : AsReviewed(s)
  BY DEF PathInv
<1> QED BY <1>2, <1>3, <1>4, <1>5, <1>6 DEF PathInv, AsReviewed

(* A step of one request that leaves the queue and the calls alone.        *)
LEMMA AtTheGateway ==
  ASSUME PathInv, NEW c \in Callers,
         \A d \in Callers \ {c} : request'[d] = request[d],
         request[c].phase # "none" \/ request'[c].phase = "none",
         UNCHANGED <<queue, gap, job, known, submitted, chain, report, last>>,
         pool' \subseteq Page!Operations
  PROVE  PathInv'
<1>1. PathTypeOK'
  BY JobsStay DEF PathInv, PathTypeOK, JobsOK
<1>2. SubmittedInv' /\ InclusionIsReal'
  BY DEF PathInv, SubmittedInv, InclusionIsReal, Mined
<1>3. QueueInv'
  <2>1. \A i \in DOMAIN queue : queue[i] \in Callers
    <3>1. queue \in Seq(Callers)
      BY DEF PathInv, PathTypeOK
    <3> QED BY <3>1
  <2> QED BY <2>1 DEF PathInv, QueueInv
<1>4. StatusInv'
  BY TwoCallers DEF PathInv, StatusInv, Queued
<1>5. \A s \in submitted' : AsReviewed(s)
  BY DEF PathInv
<1> QED BY <1>1, <1>2, <1>3, <1>4, <1>5 DEF PathInv, AsReviewed

LEMMA JudgedKeeps ==
  ASSUME IInv, NEW c \in Callers, Judged(c)
  PROVE  PathInv'
<1>1. /\ Gate!Decide(c)
      /\ UNCHANGED <<page, rpc, job, known, submitted, pool, chain, report>>
  BY DEF Judged
<1>2. /\ request[c].phase = "reading"
      /\ \A d \in Callers \ {c} : request'[d] = request[d]
  <2>1. CASE /\ request[c].phase = "reading"
             /\ request' = [request EXCEPT ![c] = [request[c] EXCEPT !.phase = "forwarding"]]
    BY <2>1, Parts DEF Gate!TypeOK
  <2>2. CASE Done(c, "rejected")
    BY <1>1, <2>2, Parts DEF Done, Gate!TypeOK, Gate!Decide
  <2> QED BY <1>1, <2>1, <2>2, Parts, Decides
<1>3. UNCHANGED <<queue, gap, job, known, submitted, pool, chain, report, last>>
  BY <1>1 DEF page, rpc
<1>4. pool' \subseteq Page!Operations
  BY <1>3, Parts DEF PathTypeOK
<1> QED BY <1>2, <1>3, <1>4, Parts, AtTheGateway

LEMMA AnsweredKeeps ==
  ASSUME IInv, NEW c \in Callers, Answered(c)
  PROVE  PathInv'
<1>1. PICK result \in Results(c), taken \in Taken(c) : Gate!Answer(c, result) /\ pool' = taken
  BY DEF Answered
<1>2. UNCHANGED <<queue, gap, job, known, submitted, chain, report, last>>
  BY DEF Answered, page, rpc
<1>3. /\ request[c].phase # "none"
      /\ \A d \in Callers \ {c} : request'[d] = request[d]
  <2>1. request[c].phase = "forwarding"
    BY <1>1 DEF Gate!Answer
  <2>2. CASE Done(c, "forwarded") \/ Done(c, "upstream error") \/ Done(c, "rejected")
    BY <2>1, <2>2, Parts DEF Done, Gate!TypeOK
  <2> QED BY <1>1, <2>2, Parts, AnswersOnce
<1>4. pool' \subseteq Page!Operations
  <2>1. job["submit"].at = "send" => job["submit"].operation \in Page!Operations
    BY Parts DEF PathTypeOK, JobOK
  <2> QED BY <1>1, <2>1, Parts DEF Taken, PathTypeOK
<1> QED BY <1>2, <1>3, <1>4, Parts, AtTheGateway

LEMMA OthersLeaveKeeps ==
  ASSUME IInv, NEW c \in Others, OthersLeave(c)
  PROVE  PathInv'
<1>1. c \in Callers
  BY DEF Callers
<1>2. /\ \A d \in Callers \ {c} : request'[d] = request[d]
      /\ request'[c].phase = "none"
  BY <1>1, Parts DEF OthersLeave, Gate!Leave, Gate!TypeOK, Gate!Idle
<1>3. UNCHANGED <<queue, gap, job, known, submitted, pool, chain, report, last>>
  BY DEF OthersLeave, page, rpc
<1>4. pool' \subseteq Page!Operations
  BY <1>3, Parts DEF PathTypeOK
<1> QED BY <1>1, <1>2, <1>3, <1>4, Parts, AtTheGateway

LEMMA ArrivalKeeps ==
  ASSUME IInv, NEW c \in Callers, Arrival(c)
  PROVE  PathInv'
<1>1. PICK message : Send(c, message)
  BY DEF Arrival
<1>2. /\ queue # <<>> /\ Head(queue) = c /\ queue' = Tail(queue) /\ gap' = Interval
      /\ UNCHANGED <<job, known, submitted, pool, chain, report, last>>
  BY <1>1 DEF Arrival, Send, page
<1>3. \A d \in Callers \ {c} : request'[d] = request[d]
  <2>1. request' = [request EXCEPT ![c] = [Gate!Idle EXCEPT !.phase = "done", !.end = "limited"]]
        \/ request' = [request EXCEPT ![c] = [Gate!Idle EXCEPT !.phase = "reading", !.message = message]]
    BY <1>1 DEF Send, Gate!Arrive
  <2> QED BY <2>1, Parts DEF Gate!TypeOK, Gate!Idle
<1>4. queue' \in Seq(Callers) /\ QueueInv' /\ Queued(c) /\ \A d \in Callers : Queued(d)' => Queued(d)
  BY <1>2, <1>3, Parts, Leaves DEF PathInv, PathTypeOK
<1>5. PathTypeOK'
  <2>1. gap' \in 0..Interval
    BY <1>2, BoundsAssumption
  <2> QED BY <1>2, <1>4, <2>1, Parts, JobsStay DEF PathTypeOK, JobsOK
<1>6. SubmittedInv' /\ InclusionIsReal' /\ \A s \in submitted' : AsReviewed(s)
  BY <1>2, Parts DEF PathInv, SubmittedInv, InclusionIsReal, Mined
<1>7. StatusInv'
  <2>1. Queued("status")' => Queued("status")
    BY <1>4, TwoCallers
  <2>2. CASE c = "status"
    BY <1>2, <1>4, <2>1, <2>2, Parts DEF PathInv, StatusInv
  <2>3. CASE c # "status"
    BY <1>2, <1>3, <2>1, <2>3, TwoCallers, Parts DEF PathInv, StatusInv
  <2> QED BY <2>2, <2>3
<1> QED BY <1>4, <1>5, <1>6, <1>7 DEF PathInv, AsReviewed

LEMMA OthersAskKeeps ==
  ASSUME IInv, NEW c \in Others, OthersAsk(c)
  PROVE  PathInv'
<1>1. /\ c \in Callers /\ request[c].phase = "none" /\ ~Queued(c) /\ queue' = Append(queue, c)
      /\ UNCHANGED <<gap, request, job, known, submitted, pool, chain, report, last>>
  BY DEF OthersAsk, Ask, Queued, Callers, page, gate
<1>2. \A d \in Callers : Queued(d) \/ d = c => request'[d].phase = "none"
  BY <1>1, Parts DEF PathInv, QueueInv, Queued
<1>3. queue' \in Seq(Callers) /\ QueueInv' /\ \A d \in Callers : Queued(d)' <=> Queued(d) \/ d = c
  BY <1>1, <1>2, Parts, Joins DEF PathInv, PathTypeOK
<1>4. PathTypeOK'
  BY <1>1, <1>3, Parts, JobsStay DEF PathTypeOK, JobsOK
<1>5. SubmittedInv' /\ InclusionIsReal' /\ \A s \in submitted' : AsReviewed(s)
  BY <1>1, Parts DEF PathInv, SubmittedInv, InclusionIsReal, Mined
<1>6. StatusInv'
  <2>1. Queued("status")' <=> Queued("status")
    BY <1>3, TwoCallers
  <2> QED BY <1>1, <2>1, Parts DEF PathInv, StatusInv
<1> QED BY <1>3, <1>4, <1>5, <1>6 DEF PathInv, AsReviewed

(* A call of the page's is begun, goes on or ends.                         *)
LEMMA JobChanges ==
  ASSUME PathTypeOK, NEW c \in {"submit", "status"}, NEW j, job' = [job EXCEPT ![c] = j],
         LET steps == IF c = "submit" THEN {"transaction", "entrypoints", "send"} ELSE {"receipt", "mined receipt"}
         IN /\ j \in [at : steps \cup {"none"}, operation : Page!Operations \cup {None}, mode : Modes \cup {None}, heard : BOOLEAN]
            /\ j.at # "none" => j.operation \in Page!Operations
  PROVE  JobsOK' /\ job'[c] = j /\ \A d \in {"submit", "status"} \ {c} : job'[d] = job[d]
<1>1. /\ DOMAIN job' = {"submit", "status"} /\ job'[c] = j
      /\ \A d \in {"submit", "status"} \ {c} : job'[d] = job[d]
  BY DEF PathTypeOK
<1>2. CASE c = "submit"
  <2>1. JobOK("submit", {"transaction", "entrypoints", "send"})'
    BY <1>1, <1>2 DEF JobOK
  <2>2. JobOK("status", {"receipt", "mined receipt"})'
    BY <1>1, <1>2 DEF PathTypeOK, JobOK
  <2> QED BY <1>1, <2>1, <2>2 DEF JobsOK
<1>3. CASE c = "status"
  <2>1. JobOK("submit", {"transaction", "entrypoints", "send"})'
    BY <1>1, <1>3 DEF PathTypeOK, JobOK
  <2>2. JobOK("status", {"receipt", "mined receipt"})'
    BY <1>1, <1>3 DEF JobOK
  <2> QED BY <1>1, <2>1, <2>2 DEF JobsOK
<1> QED BY <1>1, <1>2, <1>3

LEMMA NoJobOK ==
  /\ NoJob \in [at : {"none"}, operation : {None}, mode : {None}, heard : BOOLEAN]
  /\ NoJob.at = "none"
BY DEF NoJob

(* What the parts of the invariant are about, when a step of an adapter    *)
(* touches no more than the queue, its call and its own request.           *)
LEMMA AdapterKeeps ==
  ASSUME PathInv, PathTypeOK', QueueInv', StatusInv', UNCHANGED <<submitted, last, chain>>,
         report' = report
         \/ (report'.status \in Outcomes => Mined(report'.operation) /\ chain[report'.operation] = report'.status)
  PROVE  PathInv'
<1>1. SubmittedInv' /\ \A s \in submitted' : AsReviewed(s)
  BY DEF PathInv, SubmittedInv
<1>2. InclusionIsReal'
  BY DEF PathInv, InclusionIsReal, Mined
<1> QED BY <1>1, <1>2 DEF PathInv, AsReviewed

LEMMA SubmitEnded ==
  ASSUME PathTypeOK, NEW ok, SubmitEnds(ok)
  PROVE  /\ JobsOK' /\ job'["submit"] = NoJob /\ job'["status"] = job["status"]
         /\ report' = report /\ last' = last
<1>1. job' = [job EXCEPT !["submit"] = NoJob] /\ report' = report
  BY DEF SubmitEnds
<1>2. last' = last
  BY DEF SubmitEnds, Page!Submitted, Page!Fail, page
<1>3. JobsOK' /\ job'["submit"] = NoJob /\ job'["status"] = job["status"]
  BY <1>1, NoJobOK, JobChanges
<1> QED BY <1>1, <1>2, <1>3

LEMMA StatusEnded ==
  ASSUME PathTypeOK, NEW status \in Outcomes \cup {"pending", "transaction-reverted", "error"}, StatusEnds(status),
         job["status"].at # "none",
         status \in Outcomes => Mined(job["status"].operation) /\ chain[job["status"].operation] = status
  PROVE  /\ JobsOK' /\ job'["status"] = NoJob /\ job'["submit"] = job["submit"]
         /\ report' \in [operation : Page!Operations \cup {None}, status : Outcomes \cup {"none", "pending", "transaction-reverted"}]
         /\ report' = report
            \/ (report'.status \in Outcomes => Mined(report'.operation) /\ chain[report'.operation] = report'.status)
         /\ last' = last
<1>1. job' = [job EXCEPT !["status"] = NoJob]
  BY DEF StatusEnds
<1>2. last' = last
  BY DEF StatusEnds, Page!Reported, Page!Fail, page
<1>3. JobsOK' /\ job'["status"] = NoJob /\ job'["submit"] = job["submit"]
  BY <1>1, NoJobOK, JobChanges
<1>4. job["status"].operation \in Page!Operations
  BY DEF PathTypeOK, JobOK
<1>5. report' = report \/ (status # "error" /\ report' = [operation |-> job["status"].operation, status |-> status])
  BY DEF StatusEnds
<1>6. report' \in [operation : Page!Operations \cup {None}, status : Outcomes \cup {"none", "pending", "transaction-reverted"}]
  <2>1. CASE report' = report
    BY <2>1 DEF PathTypeOK
  <2>2. CASE status # "error" /\ report' = [operation |-> job["status"].operation, status |-> status]
    BY <1>4, <2>2
  <2> QED BY <1>5, <2>1, <2>2
<1> QED BY <1>2, <1>3, <1>5, <1>6

LEMMA StartSubmitKeeps ==
  ASSUME IInv, StartSubmit
  PROVE  PathInv'
<1> DEFINE op == last[profile]
           new == CHOOSE s \in submitted : s.operation = op
<1>1. /\ Page!Awaits("submit") /\ job["submit"].at = "none"
      /\ UNCHANGED <<submitted, pool, chain, report, request>>
  BY DEF StartSubmit, gate
<1>2. last' = last
  BY DEF StartSubmit, Page!Submitted, Page!Fail, page
<1>3. CASE UNCHANGED <<rpc, job, known>>
  <2>1. gap' \in 0..Interval
    BY <1>3, Parts DEF PathTypeOK, rpc
  <2> QED BY <1>1, <1>2, <1>3, <2>1, Parts, Elsewhere DEF rpc
<1>4. CASE /\ known' = With(known, op, new.mode)
           /\ job' = [job EXCEPT !.submit = [at |-> IF new.mode = "direct" THEN "transaction" ELSE "entrypoints",
                                             operation |-> op, mode |-> new.mode, heard |-> TRUE]]
           /\ IF new.mode = "direct" THEN UNCHANGED rpc ELSE Ask("submit")
  <2> DEFINE j == [at |-> IF new.mode = "direct" THEN "transaction" ELSE "entrypoints",
                   operation |-> op, mode |-> new.mode, heard |-> TRUE]
  <2>1. op \in Page!Operations /\ new.mode \in Modes
    <3>1. flow = "sign" /\ step = 13
      BY <1>1, Parts, Waiting, Places DEF Page!Awaits
    <3>2. op \in Page!Operations /\ profile \in Profiles
      BY <3>1, Parts DEF PageInv, FlowInv, Page!TypeOK
    <3>3. op # None
      BY <3>2, PageAssumption
    <3>4. \E s \in submitted : s.operation = op
      BY <3>2, <3>3, Parts DEF PathInv, SubmittedInv
    <3>5. new \in submitted
      BY <3>4
    <3> QED BY <3>2, <3>5, Parts DEF PathTypeOK
  <2> HIDE DEF op, new
  <2>2. /\ j \in [at : {"transaction", "entrypoints", "send"} \cup {"none"}, operation : Page!Operations \cup {None},
                  mode : Modes \cup {None}, heard : BOOLEAN]
        /\ j.operation \in Page!Operations
    BY <2>1
  <2>3. job' = [job EXCEPT !["submit"] = j]
    BY <1>4
  <2> HIDE DEF j
  <2>4. JobsOK' /\ job'["submit"] = j /\ job'["status"] = job["status"]
    BY <2>2, <2>3, Parts, JobChanges
  <2>5. DOMAIN known' \subseteq Page!Operations /\ \A x \in DOMAIN known' : known'[x] \in Modes
    BY <1>4, <2>1, Parts DEF PathTypeOK, With
  <2>6. queue' \in Seq(Callers) /\ QueueInv' /\ (Queued("status")' <=> Queued("status")) /\ gap' = gap
    <3>1. CASE UNCHANGED rpc
      BY <1>1, <3>1, Parts DEF PathInv, PathTypeOK, QueueInv, Queued, rpc
    <3>2. CASE Ask("submit")
      <4>1. request["submit"].phase = "none" /\ ~Queued("submit") /\ queue' = Append(queue, "submit") /\ gap' = gap
        BY <3>2 DEF Ask, Queued
      <4>2. \A d \in Callers : Queued(d) \/ d = "submit" => request'[d].phase = "none"
        BY <1>1, <4>1, Parts DEF PathInv, QueueInv, Queued
      <4>3. queue' \in Seq(Callers) /\ QueueInv' /\ \A d \in Callers : Queued(d)' <=> Queued(d) \/ d = "submit"
        BY <4>1, <4>2, Parts, TwoCallers, Joins DEF PathTypeOK, PathInv
      <4> QED BY <4>1, <4>3, TwoCallers
    <3> QED BY <1>4, <3>1, <3>2
  <2>7. PathTypeOK'
    BY <1>1, <2>4, <2>5, <2>6, Parts DEF PathTypeOK, JobsOK
  <2>8. StatusInv'
    BY <1>1, <2>4, <2>6, Parts DEF PathInv, StatusInv
  <2> QED BY <1>1, <1>2, <2>6, <2>7, <2>8, Parts, AdapterKeeps
<1> QED BY <1>3, <1>4 DEF StartSubmit

LEMMA StartStatusKeeps ==
  ASSUME IInv, StartStatus
  PROVE  PathInv'
<1> DEFINE op == last[profile]
<1>1. /\ Page!Awaits("status") /\ job["status"].at = "none"
      /\ UNCHANGED <<known, submitted, pool, chain, report, request>>
  BY DEF StartStatus, gate
<1>2. last' = last
  BY DEF StartStatus, Page!Reported, Page!Fail, page
<1>3. CASE UNCHANGED <<rpc, job>>
  <2>1. gap' \in 0..Interval
    BY <1>3, Parts DEF PathTypeOK, rpc
  <2> QED BY <1>1, <1>2, <1>3, <2>1, Parts, Elsewhere DEF rpc
<1>4. CASE /\ op \in DOMAIN known
           /\ job' = [job EXCEPT !.status = [at |-> IF known[op] = "direct" THEN "mined receipt" ELSE "receipt",
                                             operation |-> op, mode |-> known[op], heard |-> TRUE]]
           /\ IF known[op] = "direct" THEN UNCHANGED rpc ELSE Ask("status")
  <2> DEFINE j == [at |-> IF known[op] = "direct" THEN "mined receipt" ELSE "receipt",
                   operation |-> op, mode |-> known[op], heard |-> TRUE]
  <2>1. op \in Page!Operations /\ known[op] \in Modes
    BY <1>4, Parts DEF PathTypeOK
  <2> HIDE DEF op
  <2>2. /\ j \in [at : {"receipt", "mined receipt"} \cup {"none"}, operation : Page!Operations \cup {None},
                  mode : Modes \cup {None}, heard : BOOLEAN]
        /\ j.operation \in Page!Operations
        /\ known[op] # "direct" => j.at = "receipt"
    BY <2>1
  <2>3. job' = [job EXCEPT !["status"] = j]
    BY <1>4
  <2> HIDE DEF j
  <2>4. JobsOK' /\ job'["status"] = j
    BY <2>2, <2>3, Parts, JobChanges
  <2>5. request["status"].phase = "none" /\ ~Queued("status")
    BY <1>1, Parts DEF PathInv, StatusInv
  <2>6. queue' \in Seq(Callers) /\ QueueInv' /\ (Queued("status")' => j.at = "receipt") /\ gap' = gap
    <3>1. CASE UNCHANGED rpc
      BY <1>1, <2>5, <3>1, Parts DEF PathInv, PathTypeOK, QueueInv, Queued, rpc
    <3>2. CASE Ask("status") /\ known[op] # "direct"
      <4>1. queue' = Append(queue, "status") /\ gap' = gap
        BY <3>2 DEF Ask
      <4>2. \A d \in Callers : Queued(d) \/ d = "status" => request'[d].phase = "none"
        BY <1>1, <2>5, Parts DEF PathInv, QueueInv, Queued
      <4>3. queue' \in Seq(Callers) /\ QueueInv'
        BY <2>5, <4>1, <4>2, Parts, TwoCallers, Joins DEF PathTypeOK, PathInv
      <4> QED BY <2>2, <3>2, <4>1, <4>3
    <3> QED BY <1>4, <3>1, <3>2
  <2>7. PathTypeOK'
    BY <1>1, <2>4, <2>6, Parts DEF PathTypeOK, JobsOK
  <2>8. StatusInv'
    BY <1>1, <2>4, <2>5, <2>6 DEF StatusInv
  <2> QED BY <1>1, <1>2, <2>6, <2>7, <2>8, Parts, AdapterKeeps
<1> QED BY <1>3, <1>4 DEF StartStatus

LEMMA PageTimesOutKeeps ==
  ASSUME IInv, NEW c \in {"submit", "status"}, PageTimesOut(c)
  PROVE  PathInv'
<1> DEFINE j == [job[c] EXCEPT !.heard = FALSE]
           steps == IF c = "submit" THEN {"transaction", "entrypoints", "send"} ELSE {"receipt", "mined receipt"}
<1>1. /\ job' = [job EXCEPT ![c] = j]
      /\ UNCHANGED <<queue, gap, known, submitted, pool, chain, report, request>>
  BY DEF PageTimesOut, gate, rpc
<1>2. last' = last
  BY DEF PageTimesOut, Page!Submitted, Page!Reported, Page!Fail
<1>3. /\ job[c] \in [at : steps \cup {"none"}, operation : Page!Operations \cup {None}, mode : Modes \cup {None}, heard : BOOLEAN]
      /\ job[c].at # "none" => job[c].operation \in Page!Operations
  BY Parts DEF PathTypeOK, JobOK
<1>4. /\ j \in [at : steps \cup {"none"}, operation : Page!Operations \cup {None}, mode : Modes \cup {None}, heard : BOOLEAN]
      /\ j.at = job[c].at /\ j.operation = job[c].operation
  <2> HIDE DEF steps
  <2> QED BY <1>3
<1> HIDE DEF j
<1>5. JobsOK' /\ job'[c] = j /\ \A d \in {"submit", "status"} \ {c} : job'[d] = job[d]
  BY <1>1, <1>3, <1>4, Parts, JobChanges
<1>6. job'["status"].at = job["status"].at /\ job'["status"].operation = job["status"].operation
  BY <1>4, <1>5
<1>7. PathTypeOK' /\ QueueInv'
  BY <1>1, <1>5, Parts DEF PathTypeOK, JobsOK, PathInv, QueueInv
<1>8. StatusInv'
  BY <1>1, <1>6, Parts DEF PathInv, StatusInv, Queued
<1> QED BY <1>1, <1>2, <1>7, <1>8, Parts, AdapterKeeps

LEMMA ReceiveKeeps ==
  ASSUME IInv, NEW c \in {"submit", "status"}, Receive(c)
  PROVE  PathInv'
<1> DEFINE r == request[c]
           op == job[c].operation
           ok == r.end = "forwarded"
<1>1. /\ job[c].at \in {"entrypoints", "send", "receipt"}
      /\ r.phase = "done" /\ request' = [request EXCEPT ![c] = Gate!Idle]
      /\ UNCHANGED <<known, submitted, pool, chain>>
  BY DEF Receive, Gate!Leave
<1>2. c \in Callers /\ ~Queued(c)
  <2>1. c \in Callers
    BY TwoCallers
  <2> QED BY <1>1, <2>1, Parts DEF PathInv, QueueInv, Queued
<1>3. request'[c].phase = "none" /\ \A d \in Callers \ {c} : request'[d] = request[d]
  BY <1>1, <1>2, Parts DEF Gate!TypeOK, Gate!Idle
<1>4. \A d \in Callers : Queued(d) \/ d = c => request'[d].phase = "none"
  BY <1>2, <1>3, Parts DEF PathInv, QueueInv, Queued
<1>5. \A i \in DOMAIN queue : queue[i] \in Callers
  <2>1. queue \in Seq(Callers)
    BY Parts DEF PathTypeOK
  <2> QED BY <2>1
<1>6. CASE c = "submit"
  <2>1. "status" # "submit" /\ request'["status"] = request["status"]
    BY <1>3, <1>6, TwoCallers
  <2>2. CASE /\ job' = [job EXCEPT ![c].at = "send"]
             /\ queue' = Append(queue, c)
             /\ UNCHANGED <<gap, page, report>>
    <3> DEFINE j == [job["submit"] EXCEPT !.at = "send"]
    <3>1. job' = [job EXCEPT !["submit"] = j]
      BY <1>6, <2>2
    <3>2. /\ job["submit"] \in [at : {"transaction", "entrypoints", "send"} \cup {"none"}, operation : Page!Operations \cup {None},
                                mode : Modes \cup {None}, heard : BOOLEAN]
          /\ job["submit"].operation \in Page!Operations
      BY <1>1, <1>6, Parts DEF PathTypeOK, JobOK
    <3>3. /\ j \in [at : {"transaction", "entrypoints", "send"} \cup {"none"}, operation : Page!Operations \cup {None},
                    mode : Modes \cup {None}, heard : BOOLEAN]
          /\ j.operation \in Page!Operations
      BY <3>2
    <3> HIDE DEF j
    <3>4. JobsOK' /\ job'["status"] = job["status"]
      BY <3>1, <3>3, Parts, JobChanges
    <3>5. queue' \in Seq(Callers) /\ QueueInv' /\ \A d \in Callers : Queued(d)' <=> Queued(d) \/ d = c
      BY <1>2, <1>4, <2>2, Parts, Joins DEF PathTypeOK, PathInv
    <3>6. PathTypeOK'
      BY <1>1, <2>2, <3>4, <3>5, Parts DEF PathTypeOK, JobsOK
    <3>7. StatusInv'
      <4>1. Queued("status")' <=> Queued("status")
        BY <1>6, <2>1, <3>5, TwoCallers
      <4> QED BY <2>1, <3>4, <4>1, Parts DEF PathInv, StatusInv
    <3>8. last' = last
      BY <2>2 DEF page
    <3> QED BY <1>1, <2>2, <3>5, <3>6, <3>7, <3>8, Parts, AdapterKeeps
  <2>3. CASE (\E said : SubmitEnds(said)) /\ UNCHANGED rpc
    <3>1. JobsOK' /\ job'["status"] = job["status"] /\ report' = report /\ last' = last
      BY <2>3, Parts, SubmitEnded
    <3>2. queue' = queue /\ gap' = gap
      BY <2>3 DEF rpc
    <3>3. PathTypeOK'
      BY <1>1, <3>1, <3>2, Parts DEF PathTypeOK, JobsOK
    <3>4. QueueInv'
      BY <1>4, <1>5, <3>2, Parts DEF PathInv, QueueInv, Queued
    <3>5. StatusInv'
      BY <2>1, <3>1, <3>2, Parts DEF PathInv, StatusInv, Queued
    <3> QED BY <1>1, <3>1, <3>3, <3>4, <3>5, Parts, AdapterKeeps
  <2>4. job[c].at # "receipt"
    BY <1>6, Parts DEF PathTypeOK, JobOK
  <2> QED BY <1>6, <2>2, <2>3, <2>4 DEF Receive
<1>7. CASE c = "status"
  <2>1. job["status"].at = "receipt" /\ op \in Page!Operations
    BY <1>1, <1>7, Parts DEF PathTypeOK, JobOK
  <2>2. /\ JobsOK' /\ job'["status"].at \in {"none", "mined receipt"}
        /\ report' \in [operation : Page!Operations \cup {None}, status : Outcomes \cup {"none", "pending", "transaction-reverted"}]
        /\ report' = report
           \/ (report'.status \in Outcomes => Mined(report'.operation) /\ chain[report'.operation] = report'.status)
        /\ last' = last /\ UNCHANGED rpc
    <3>1. CASE /\ job' = [job EXCEPT ![c].at = "mined receipt"]
               /\ UNCHANGED <<rpc, page, report>>
      <4> DEFINE j == [job["status"] EXCEPT !.at = "mined receipt"]
      <4>1. job' = [job EXCEPT !["status"] = j]
        BY <1>7, <3>1
      <4>2. /\ job["status"] \in [at : {"receipt", "mined receipt"} \cup {"none"}, operation : Page!Operations \cup {None},
                                  mode : Modes \cup {None}, heard : BOOLEAN]
            /\ job["status"].operation \in Page!Operations
        BY <1>1, <1>7, Parts DEF PathTypeOK, JobOK
      <4>3. /\ j \in [at : {"receipt", "mined receipt"} \cup {"none"}, operation : Page!Operations \cup {None},
                      mode : Modes \cup {None}, heard : BOOLEAN]
            /\ j.operation \in Page!Operations /\ j.at = "mined receipt"
        BY <4>2
      <4> HIDE DEF j
      <4>4. JobsOK' /\ job'["status"] = j
        BY <4>1, <4>3, Parts, JobChanges
      <4>5. last' = last
        BY <3>1 DEF page
      <4> QED BY <3>1, <4>3, <4>4, <4>5, Parts DEF PathTypeOK
    <3>2. ASSUME NEW status \in {"pending", "error"}, StatusEnds(status), UNCHANGED rpc
          PROVE  /\ JobsOK' /\ job'["status"].at = "none"
                 /\ report' \in [operation : Page!Operations \cup {None}, status : Outcomes \cup {"none", "pending", "transaction-reverted"}]
                 /\ report' = report
                    \/ (report'.status \in Outcomes => Mined(report'.operation) /\ chain[report'.operation] = report'.status)
                 /\ last' = last
      <4>1. status \in Outcomes \cup {"pending", "transaction-reverted", "error"} /\ status \notin Outcomes
        BY DEF Outcomes
      <4> QED BY <2>1, <3>2, <4>1, Parts, StatusEnded, NoJobOK
    <3>3. \/ /\ job' = [job EXCEPT ![c].at = "mined receipt"]
             /\ UNCHANGED <<rpc, page, report>>
          \/ \E status \in {"pending", "error"} : StatusEnds(status) /\ UNCHANGED rpc
      <4>1. BundlerStatus(op, r.result) \in Outcomes \cup {"pending", "error"}
        BY DEF BundlerStatus
      <4> QED BY <1>7, <2>1, <4>1 DEF Receive
    <3> QED BY <3>1, <3>2, <3>3
  <2>3. queue' = queue /\ gap' = gap
    BY <2>2 DEF rpc
  <2>4. PathTypeOK'
    BY <1>1, <2>2, <2>3, Parts DEF PathTypeOK, JobsOK
  <2>5. QueueInv'
    BY <1>4, <1>5, <2>3, Parts DEF PathInv, QueueInv, Queued
  <2>6. StatusInv'
    BY <1>2, <1>3, <1>7, <2>3 DEF StatusInv, Queued
  <2> QED BY <1>1, <2>2, <2>4, <2>5, <2>6, Parts, AdapterKeeps
<1> QED BY <1>6, <1>7

LEMMA DirectSubmitKeeps ==
  ASSUME IInv, DirectSubmit
  PROVE  PathInv'
<1>1. PICK sent \in BOOLEAN, ok \in BOOLEAN :
        SubmitEnds(ok) /\ pool' = IF sent THEN pool \cup {job.submit.operation} ELSE pool
  BY DEF DirectSubmit
<1>2. UNCHANGED <<queue, gap, request, known, submitted, chain>> /\ job["submit"].at = "transaction"
  BY DEF DirectSubmit, gate, rpc
<1>3. JobsOK' /\ job'["status"] = job["status"] /\ report' = report /\ last' = last
  BY <1>1, Parts, SubmitEnded
<1>4. pool' \subseteq Page!Operations
  <2>1. job["submit"].operation \in Page!Operations
    BY <1>2, Parts DEF PathTypeOK, JobOK
  <2> QED BY <1>1, <2>1, Parts DEF PathTypeOK
<1>5. PathTypeOK' /\ QueueInv'
  BY <1>2, <1>3, <1>4, Parts DEF PathTypeOK, JobsOK, PathInv, QueueInv
<1>6. StatusInv'
  BY <1>2, <1>3, Parts DEF PathInv, StatusInv, Queued
<1> QED BY <1>2, <1>3, <1>5, <1>6, Parts, AdapterKeeps

LEMMA MinedStatusKeeps ==
  ASSUME IInv, MinedStatus
  PROVE  PathInv'
<1> DEFINE op == job["status"].operation
<1>1. /\ job["status"].at = "mined receipt"
      /\ UNCHANGED <<queue, gap, request, known, submitted, pool, chain>>
  BY DEF MinedStatus, gate, rpc
<1>2. op \in Page!Operations
  BY <1>1, Parts DEF PathTypeOK, JobOK
<1>3. PICK status : /\ StatusEnds(status)
                    /\ \/ \E receipt \in CanonicalReceipts(op) : status = InclusionFromReceipt(op, receipt)
                       \/ status \in {"pending", "error"}
  BY DEF MinedStatus
<1>4. /\ status \in Outcomes \cup {"pending", "transaction-reverted", "error"}
      /\ status \in Outcomes => Mined(op) /\ chain[op] = status
  <2> HIDE DEF op
  <2>1. PathTypeOK /\ "pending" \notin Outcomes /\ "error" \notin Outcomes
    BY Parts DEF Outcomes
  <2> QED BY <1>2, <1>3, <2>1, Decided
<1>5. /\ JobsOK' /\ job'["status"] = NoJob
      /\ report' \in [operation : Page!Operations \cup {None}, status : Outcomes \cup {"none", "pending", "transaction-reverted"}]
      /\ report' = report
         \/ (report'.status \in Outcomes => Mined(report'.operation) /\ chain[report'.operation] = report'.status)
      /\ last' = last
  BY <1>1, <1>3, <1>4, Parts, StatusEnded
<1>6. PathTypeOK' /\ QueueInv'
  BY <1>1, <1>5, Parts DEF PathTypeOK, JobsOK, PathInv, QueueInv
<1>7. StatusInv'
  <2>1. request["status"].phase = "none" /\ ~Queued("status")
    BY <1>1, Parts DEF PathInv, StatusInv
  <2> QED BY <1>1, <2>1 DEF StatusInv, Queued
<1> QED BY <1>1, <1>5, <1>6, <1>7, Parts, AdapterKeeps

LEMMA IncludeKeeps ==
  ASSUME IInv, NEW op \in pool, NEW outcome \in Outcomes, Include(op, outcome)
  PROVE  PathInv'
<1>1. op \in Page!Operations
  BY Parts DEF PathTypeOK
<1>2. /\ chain' = With(chain, op, outcome)
      /\ UNCHANGED <<queue, gap, job, known, submitted, pool, report, last, request>>
  BY DEF Include, page, gate, rpc
<1> QED BY <1>1, <1>2, Parts, Grows

LEMMA IncludeElsewhereKeeps ==
  ASSUME IInv, IncludeElsewhere
  PROVE  PathInv'
<1> DEFINE account == sessions[profile]
           op == [owner |-> account.owner, profile |-> profile, nonce |-> Nonce(account),
                  deploy |-> Nonce(account) = 0, action |-> None]
<1>1. /\ account # None /\ chain' = With(chain, op, "included")
      /\ UNCHANGED <<queue, gap, job, known, submitted, pool, report, last, request>>
  BY DEF IncludeElsewhere, page, gate, rpc
<1>2. account.owner \in Page!Owners /\ profile \in Profiles
  BY <1>1, Parts DEF Page!TypeOK, Page!Sessions
<1>3. Nonce(account) \in Nat
  BY Parts, Counted
<1>4. op \in Page!Operations
  <2> HIDE DEF account
  <2> QED BY <1>2, <1>3 DEF Page!Operations
<1>5. "included" \in Outcomes
  BY DEF Outcomes
<1> HIDE DEF op
<1> QED BY <1>1, <1>4, <1>5, Parts, Grows

--------------------------------------------------------------------------------
(* The composition: whatever moves is a step of the page's module, of the  *)
(* gateway's, of both or of neither.                                       *)
LEMMA PagePart ==
  ASSUME IInv, Next
  PROVE  PageNext \/ UNCHANGED page
<1>1. ASSUME UserActs
      PROVE  PageNext
  BY <1>1 DEF UserActs, PageNext, Page!Wallets
<1>2. ASSUME Failure
      PROVE  PageNext
  BY <1>2 DEF Failure, PageNext, Page!ServerError, Page!WalletError
<1>3. ASSUME WalletSigns
      PROVE  PageNext
  <2>1. PICK wellFormed \in BOOLEAN, same \in BOOLEAN :
          Page!Sign([wellFormed |-> wellFormed, key |-> wallet.key, headers |-> wallet.headers, address |-> address,
                     payload |-> IF same THEN Page!Payload ELSE <<"another">>])
    BY <1>3 DEF WalletSigns
  <2> DEFINE s == [wellFormed |-> wellFormed, key |-> wallet.key, headers |-> wallet.headers, address |-> address,
                   payload |-> IF same THEN Page!Payload ELSE <<"another">>]
  <2>2. wallet.key \in Keys /\ wallet.headers \in Headers
    BY Parts DEF Page!TypeOK, Page!Wallets
  <2>3. Page!IsSignature(s)
    BY <2>2 DEF Page!IsSignature
  <2>4. Page!Sign(s)
    BY <2>1
  <2> HIDE DEF s
  <2> QED BY <2>3, <2>4 DEF PageNext
<1>4. ASSUME NetworkChecked
      PROVE  PageNext
  BY <1>4 DEF NetworkChecked, PageNext
<1>5. ASSUME PageGoesOn
      PROVE  PageNext
  <2> DEFINE nonce == IF Page!ActiveSession = None THEN 0 ELSE Nonce(Page!ActiveSession)
  <2>1. nonce \in Nat
    BY Parts, Counted
  <2>2. Page!Granted \/ Page!RewardAddress \/ Page!Recheck \/ Page!Enrolled \/ Page!State(nonce)
    BY <1>5 DEF PageGoesOn
  <2> HIDE DEF nonce
  <2> QED BY <2>1, <2>2 DEF PageNext
<1>6. ASSUME AdapterActs
      PROVE  PageNext \/ UNCHANGED page
  <2>1. ASSUME NEW ok \in BOOLEAN, SubmitEnds(ok)
        PROVE  PageNext \/ UNCHANGED page
    BY <2>1 DEF SubmitEnds, PageNext
  <2>2. ASSUME NEW status, StatusEnds(status)
        PROVE  PageNext \/ UNCHANGED page
    BY <2>2 DEF StatusEnds, PageNext
  <2>3. CASE StartSubmit
    BY <2>3 DEF StartSubmit, PageNext
  <2>4. CASE StartStatus
    BY <2>4 DEF StartStatus, PageNext
  <2>5. CASE DirectSubmit
    BY <2>1, <2>5 DEF DirectSubmit
  <2>6. CASE MinedStatus
    BY <2>2, <2>6 DEF MinedStatus
  <2>7. ASSUME NEW c \in {"submit", "status"}, Receive(c)
        PROVE  PageNext \/ UNCHANGED page
    BY <2>1, <2>2, <2>7 DEF Receive
  <2>8. ASSUME NEW c \in {"submit", "status"}, PageTimesOut(c)
        PROVE  PageNext
    BY <2>8 DEF PageTimesOut, PageNext
  <2> QED BY <1>6, <2>3, <2>4, <2>5, <2>6, <2>7, <2>8 DEF AdapterActs
<1>7. ASSUME Tick \/ Reconfigure \/ GatewayActs \/ IncludeElsewhere
             \/ (\E c \in Others : OthersAsk(c) \/ OthersLeave(c))
             \/ (\E op \in pool, outcome \in Outcomes : Include(op, outcome))
      PROVE  UNCHANGED page
  BY <1>7 DEF Tick, Reconfigure, GatewayActs, IncludeElsewhere, OthersAsk, OthersLeave, Include, Arrival, Judged, Answered
<1> QED BY <1>1, <1>2, <1>3, <1>4, <1>5, <1>6, <1>7 DEF Next

LEMMA GatePart ==
  ASSUME Next
  PROVE  GateNext \/ UNCHANGED gate
<1>1. ASSUME GatewayActs
      PROVE  GateNext
  BY <1>1 DEF GatewayActs, Arrival, Send, Judged, Answered, GateNext
<1>2. ASSUME Tick \/ Reconfigure
      PROVE  GateNext
  BY <1>2 DEF Tick, Reconfigure, GateNext
<1>3. ASSUME NEW c \in Others, OthersAsk(c) \/ OthersLeave(c)
      PROVE  GateNext \/ UNCHANGED gate
  BY <1>3 DEF OthersAsk, OthersLeave, GateNext, Callers
<1>4. ASSUME AdapterActs
      PROVE  GateNext \/ UNCHANGED gate
  BY <1>4, TwoCallers DEF AdapterActs, StartSubmit, StartStatus, DirectSubmit, MinedStatus, Receive, PageTimesOut, GateNext
<1>5. ASSUME IncludeElsewhere \/ UserActs \/ Failure \/ WalletSigns \/ NetworkChecked \/ PageGoesOn
             \/ (\E op \in pool, outcome \in Outcomes : Include(op, outcome))
      PROVE  UNCHANGED gate
  BY <1>5 DEF IncludeElsewhere, UserActs, Failure, WalletSigns, NetworkChecked, PageGoesOn, Include, elsewhere
<1> QED BY <1>1, <1>2, <1>3, <1>4, <1>5 DEF Next

LEMMA PathStep ==
  ASSUME IInv, Next \/ UNCHANGED vars
  PROVE  PathInv'
<1>1. ASSUME UserActs \/ Failure \/ WalletSigns \/ PageGoesOn
      PROVE  PathInv'
  <2>1. UNCHANGED <<queue, gap, job, known, submitted, pool, chain, report, request>>
    BY <1>1 DEF UserActs, Failure, WalletSigns, PageGoesOn, elsewhere, gate, rpc
  <2>2. last' = last
    <3>1. CASE UserActs
      BY <3>1 DEF UserActs, Page!Click, Page!SelectWallet, Page!Select, Page!Switch, Page!walletPage
    <3>2. CASE Failure
      BY <3>2 DEF Failure, Page!ServerError, Page!WalletError, Page!Fail
    <3>3. CASE WalletSigns
      BY <3>3 DEF WalletSigns, Page!Sign
    <3>4. CASE PageGoesOn
      BY <3>4 DEF PageGoesOn, Page!Granted, Page!RewardAddress, Page!Recheck, Page!Fail, Page!Enrolled, Page!State
    <3> QED BY <1>1, <3>1, <3>2, <3>3, <3>4
  <2>3. gap' \in 0..Interval
    BY <2>1, Parts DEF PathTypeOK
  <2> QED BY <2>1, <2>2, <2>3, Parts, Elsewhere
<1>2. ASSUME Tick
      PROVE  PathInv'
  <2>1. UNCHANGED <<queue, job, known, submitted, pool, chain, report, request, last>>
    BY <1>2 DEF Tick, Gate!Tick, page
  <2>2. gap' \in 0..Interval
    <3>1. gap \in 0..Interval
      BY Parts DEF PathTypeOK
    <3>2. gap' = IF gap > 0 THEN gap - 1 ELSE 0
      BY <1>2 DEF Tick
    <3> QED BY <3>1, <3>2, BoundsAssumption
  <2> QED BY <2>1, <2>2, Parts, Elsewhere
<1>3. ASSUME Reconfigure
      PROVE  PathInv'
  <2>1. UNCHANGED <<queue, gap, job, known, submitted, pool, chain, report, request, last>>
    BY <1>3 DEF Reconfigure, Gate!Edit, Gate!Hangup, Gate!Read, Gate!Apply, page, rpc
  <2>2. gap' \in 0..Interval
    BY <2>1, Parts DEF PathTypeOK
  <2> QED BY <2>1, <2>2, Parts, Elsewhere
<1>4. ASSUME UNCHANGED vars
      PROVE  PathInv'
  <2>1. UNCHANGED <<queue, gap, job, known, submitted, pool, chain, report, request, last>>
    BY <1>4 DEF vars, page, gate, rpc
  <2>2. gap' \in 0..Interval
    BY <2>1, Parts DEF PathTypeOK
  <2> QED BY <2>1, <2>2, Parts, Elsewhere
<1>5. ASSUME AdapterActs
      PROVE  PathInv'
  BY <1>5, StartSubmitKeeps, StartStatusKeeps, DirectSubmitKeeps, MinedStatusKeeps, ReceiveKeeps, PageTimesOutKeeps DEF AdapterActs
<1>6. ASSUME GatewayActs
      PROVE  PathInv'
  BY <1>6, ArrivalKeeps, JudgedKeeps, AnsweredKeeps DEF GatewayActs
<1> QED BY <1>1, <1>2, <1>3, <1>4, <1>5, <1>6, OthersAskKeeps, OthersLeaveKeeps, IncludeKeeps, IncludeElsewhereKeeps, Posts DEF Next

LEMMA Starts ==
  ASSUME Init
  PROVE  IInv
<1>1. PageInv /\ GateInv /\ ReloadInv
  BY PageInit, GateInit, ReloadInit DEF Init
<1>2. Page!Init /\ Gate!Init
  BY DEF Init
<1>3. PathTypeOK
  <2>1. JobsOK
    BY NoJobOK DEF Init, JobsOK, JobOK
  <2>2. DOMAIN known = {} /\ DOMAIN chain = {} /\ IsFiniteSet(DOMAIN chain)
    BY FS_EmptySet DEF Init
  <2>3. queue \in Seq(Callers) /\ gap \in 0..Interval
    BY BoundsAssumption DEF Init
  <2> QED BY <2>1, <2>2, <2>3 DEF Init, PathTypeOK, JobsOK
<1>4. QueueInv /\ ~Queued("status")
  BY DEF Init, QueueInv, Queued
<1>5. StatusInv
  <2>1. request["status"].phase = "none"
    BY <1>2, TwoCallers DEF Gate!Init, Gate!Idle
  <2> QED BY <1>4, <2>1 DEF StatusInv
<1>6. SubmittedInv /\ InclusionIsReal /\ \A s \in submitted : AsReviewed(s)
  BY <1>2 DEF Init, Page!Init, SubmittedInv, InclusionIsReal, Outcomes
<1> QED BY <1>1, <1>3, <1>4, <1>5, <1>6 DEF IInv, PathInv

LEMMA Step ==
  ASSUME IInv, [Next]_vars
  PROVE  IInv'
<1>1. CASE Next
  BY <1>1, Parts, PagePart, GatePart, PathStep, PageStep, GateStep, ReloadStep DEF IInv
<1>2. CASE UNCHANGED vars
  BY <1>2, Parts, PathStep, PageStep, GateStep, ReloadStep DEF IInv, vars
<1> QED BY <1>1, <1>2

(* The invariant: what the page, the adapters and the gateway hold fits    *)
(* together at every step.                                                 *)
THEOREM Invariant == Spec => []IInv
BY Starts, Step, PTL DEF Spec

(* Every variable keeps its type, for any accounts, clients, reloads and   *)
(* bounds.                                                                 *)
THEOREM TypeCorrect == Spec => []TypeOK
<1>1. IInv => TypeOK
  BY DEF IInv, PageInv, GateInv, PathInv, PathTypeOK, TypeOK
<1> QED BY <1>1, Invariant, PTL

(* The gateway's counters add up, its bucket bounds what it accepts, and   *)
(* the configuration in force is valid, for any limits, any number of      *)
(* clients and any overlap of reloads (gateway.mjs, service.mjs).          *)
THEOREM Limited == Spec => []SlotsAndRate
<1>1. IInv => SlotsAndRate
  <2>1. ASSUME GateInv
        PROVE  since.accepted * Minute <= current.requestsPerMinute * (Minute + since.ticks)
    <3>1. /\ since.accepted * Minute \in Nat /\ Gate!Refilled \in Nat
          /\ current.requestsPerMinute * (Minute + since.ticks) \in Nat
      BY <2>1, BucketHolds, Product
    <3> QED BY <2>1, <3>1 DEF GateInv, BucketInv
  <2> QED BY <2>1 DEF IInv, GateInv, SlotsAndRate
<1> QED BY <1>1, Invariant, PTL

(* What the worker was given was admitted by a configuration no older than *)
(* what a reload had settled before it, however many reloads overlap and   *)
(* however slowly the request came (gateway.mjs, reload of service.mjs).   *)
THEOREM Revoked == Spec => []RevocationHolds
<1>1. IInv => RevocationHolds
  BY DEF IInv, ReloadInv
<1> QED BY <1>1, Invariant, PTL

(* A status that says included or reverted is the chain's, whatever a      *)
(* bundler answers, makes up or names (status(), canonicalReceipt,         *)
(* inclusionFromReceipt).                                                  *)
THEOREM Real == Spec => []InclusionIsReal
<1>1. IInv => InclusionIsReal
  BY DEF IInv, PathInv
<1> QED BY <1>1, Invariant, PTL

(* What is posted was reviewed and signed by the enrolled owner, whatever  *)
(* the wallet was switched to around the prompts (main.ts, wallet.ts).     *)
THEOREM Posted == Spec => []PostedAsReviewed
<1>1. IInv => PostedAsReviewed
  BY DEF IInv, PageInv, SessionInv, PathInv, PostedAsReviewed
<1> QED BY <1>1, Invariant, PTL

--------------------------------------------------------------------------------
(* The refinement: what takes effect was posted, and nonces are used once. *)
PostedOperations == {s.operation : s \in submitted}
OneEffectPerNonce ==
  \A a, b \in DOMAIN chain : a.owner = b.owner /\ a.profile = b.profile /\ a.nonce = b.nonce => a = b
PoolInv ==
  /\ pool \subseteq PostedOperations
  /\ job["submit"].at # "none" => job["submit"].operation \in PostedOperations
SessionsFit == \A p \in Profiles : sessions[p] # None => sessions[p].profile = p
CarriedInv ==
  /\ PoolInv /\ SessionsFit
  /\ \A op \in DOMAIN chain : op.nonce < Nonce(op)
  /\ OneEffectPerNonce

(* What the page submits is remembered, and an enrolled account is of the  *)
(* profile it is kept under.                                               *)
LEMMA Remembers ==
  ASSUME IInv, [Next]_vars
  PROVE  submitted \subseteq submitted'
<1>1. CASE NetworkChecked
  BY <1>1 DEF NetworkChecked
<1>2. ASSUME NEW c \in {"submit", "status"}, Receive(c) \/ PageTimesOut(c)
      PROVE  submitted' = submitted
  BY <1>2 DEF Receive, PageTimesOut
<1>3. CASE AdapterActs
  BY <1>2, <1>3 DEF AdapterActs, StartSubmit, StartStatus, DirectSubmit, MinedStatus
<1>4. CASE GatewayActs
  BY <1>4 DEF GatewayActs, Arrival, Judged, Answered
<1>5. CASE Tick \/ Reconfigure \/ IncludeElsewhere \/ UserActs \/ Failure \/ WalletSigns \/ PageGoesOn \/ UNCHANGED vars
  BY <1>5 DEF Tick, Reconfigure, IncludeElsewhere, UserActs, Failure, WalletSigns, PageGoesOn, vars
<1>6. CASE (\E c \in Others : OthersAsk(c) \/ OthersLeave(c)) \/ \E op \in pool, outcome \in Outcomes : Include(op, outcome)
  BY <1>6 DEF OthersAsk, OthersLeave, Include
<1> QED BY <1>1, <1>3, <1>4, <1>5, <1>6 DEF Next

LEMMA SessionsKeep ==
  ASSUME PageInv, SessionsFit, PageNext \/ UNCHANGED page
  PROVE  SessionsFit'
<1>1. ASSUME sessions' = sessions \/ sessions' = [p \in Profiles |-> None]
      PROVE  SessionsFit'
  BY <1>1 DEF SessionsFit
<1>2. ASSUME Page!Enrolled
      PROVE  SessionsFit'
  <2> DEFINE enrolled == [owner |-> [key |-> signature.key, headers |-> signature.headers], address |-> address, profile |-> profile]
  <2>1. sessions' = [sessions EXCEPT ![profile] = enrolled] /\ enrolled.profile = profile
    BY <1>2 DEF Page!Enrolled
  <2> HIDE DEF enrolled
  <2>2. DOMAIN sessions = Profiles
    BY DEF PageInv, Page!TypeOK
  <2> QED BY <2>1, <2>2 DEF SessionsFit
<1>3. ASSUME NEW kind, Page!Fail(kind)
      PROVE  SessionsFit'
  BY <1>1, <1>3 DEF Page!Fail, Page!Keep, Page!Disconnect, Page!Invalidate
<1>4. ASSUME Page!SelectWallet \/ (\E f \in Page!Flows : Page!Click(f))
             \/ (\E p \in Profiles, a \in Actions, m \in Modes : Page!Select(p, a, m))
      PROVE  SessionsFit'
  <2>1. CASE Page!SelectWallet
    BY <1>1, <2>1 DEF Page!SelectWallet, Page!Disconnect
  <2>2. ASSUME NEW f \in Page!Flows, Page!Click(f)
        PROVE  SessionsFit'
    <3>1. Page!Disconnect \/ Page!Invalidate \/ Page!Keep
      BY <2>2 DEF Page!Click, Page!Flows
    <3> QED BY <1>1, <3>1 DEF Page!Keep, Page!Disconnect, Page!Invalidate
  <2>3. ASSUME NEW p, NEW a, NEW m, Page!Select(p, a, m)
        PROVE  SessionsFit'
    BY <1>1, <2>3 DEF Page!Select, Page!Invalidate
  <2> QED BY <1>4, <2>1, <2>2, <2>3
<1>5. ASSUME Page!Granted \/ Page!RewardAddress \/ (\E s : Page!Sign(s)) \/ (\E nonce : Page!State(nonce))
             \/ (\E w : Page!Switch(w)) \/ UNCHANGED page
      PROVE  SessionsFit'
  BY <1>1, <1>5 DEF Page!Granted, Page!RewardAddress, Page!Sign, Page!State, Page!Switch, Page!walletPage, page
<1>6. ASSUME Page!Recheck \/ Page!Network \/ (\E ok : Page!Submitted(ok) \/ Page!Reported(ok))
      PROVE  SessionsFit'
  <2>1. sessions' = sessions \/ \E kind : Page!Fail(kind)
    BY <1>6 DEF Page!Recheck, Page!Network, Page!Submitted, Page!Reported
  <2> QED BY <1>1, <1>3, <2>1
<1> QED BY <1>2, <1>3, <1>4, <1>5, <1>6 DEF PageNext

(* What reaches the worker or the mempool was posted.                      *)
LEMMA PoolKeeps ==
  ASSUME IInv, CarriedInv, [Next]_vars
  PROVE  PoolInv'
<1>1. PostedOperations \subseteq PostedOperations'
  BY Remembers DEF PostedOperations
<1>2. job["submit"].at # "none" => job["submit"].operation \in PostedOperations
  BY DEF CarriedInv, PoolInv
<1>3. pool \subseteq PostedOperations
  BY DEF CarriedInv, PoolInv
<1>4. DOMAIN job = {"submit", "status"}
  BY Parts DEF PathTypeOK
<1>5. ASSUME pool' = pool, job'["submit"] = job["submit"]
      PROVE  PoolInv'
  BY <1>1, <1>2, <1>3, <1>5 DEF PoolInv
<1>6. ASSUME NEW ok, SubmitEnds(ok), pool' \subseteq pool \cup {job["submit"].operation}, job["submit"].at # "none"
      PROVE  PoolInv'
  <2>1. job'["submit"] = NoJob
    BY <1>4, <1>6 DEF SubmitEnds
  <2>2. job'["submit"].at = "none"
    BY <2>1 DEF NoJob
  <2> QED BY <1>1, <1>2, <1>3, <1>6, <2>2 DEF PoolInv
<1>7. CASE StartSubmit
  <2>1. pool' = pool /\ last[profile] \in Page!Operations
    <3>1. flow = "sign" /\ step = 13
      BY <1>7, Parts, Waiting, Places DEF Page!Awaits, StartSubmit
    <3> QED BY <1>7, <3>1, Parts DEF StartSubmit, PageInv, FlowInv, Page!TypeOK
  <2>2. CASE job' = job
    BY <1>5, <2>1, <2>2
  <2>3. CASE job' # job
    <3> DEFINE new == CHOOSE s \in submitted : s.operation = last[profile]
               k == [at |-> IF new.mode = "direct" THEN "transaction" ELSE "entrypoints",
                     operation |-> last[profile], mode |-> new.mode, heard |-> TRUE]
    <3>0. job' = [job EXCEPT !["submit"] = k] /\ k.operation = last[profile]
      BY <1>7, <2>3 DEF StartSubmit
    <3> HIDE DEF k
    <3>1. PICK j : job' = [job EXCEPT !["submit"] = j] /\ j.operation = last[profile]
      BY <3>0
    <3>2. job'["submit"].operation = last[profile]
      BY <1>4, <3>1
    <3>3. last[profile] # None /\ profile \in Profiles
      BY <2>1, PageAssumption, Parts DEF Page!TypeOK
    <3>4. last[profile] \in PostedOperations
      BY <3>3, Parts DEF PathInv, SubmittedInv, PostedOperations
    <3> QED BY <1>1, <1>3, <2>1, <3>2, <3>4 DEF PoolInv
  <2> QED BY <2>2, <2>3
<1>8. CASE StartStatus \/ MinedStatus
  <2>1. PICK j : job' = job \/ job' = [job EXCEPT !["status"] = j]
    BY <1>8 DEF StartStatus, MinedStatus, StatusEnds
  <2>2. job'["submit"] = job["submit"] /\ pool' = pool
    BY <1>4, <1>8, <2>1 DEF StartStatus, MinedStatus
  <2> QED BY <1>5, <2>2
<1>9. CASE DirectSubmit
  BY <1>6, <1>9 DEF DirectSubmit
<1>10. ASSUME NEW c \in {"submit", "status"}, PageTimesOut(c)
       PROVE  PoolInv'
  <2>1. job' = [job EXCEPT ![c].heard = FALSE] /\ pool' = pool
    BY <1>10 DEF PageTimesOut
  <2>2. job["submit"] \in [at : {"transaction", "entrypoints", "send", "none"}, operation : Page!Operations \cup {None},
                           mode : Modes \cup {None}, heard : BOOLEAN]
    BY Parts DEF PathTypeOK, JobOK
  <2>3. job'["submit"].at = job["submit"].at /\ job'["submit"].operation = job["submit"].operation
    BY <1>4, <2>1, <2>2
  <2> QED BY <1>1, <1>2, <1>3, <2>1, <2>3 DEF PoolInv
<1>11. ASSUME NEW c \in {"submit", "status"}, Receive(c)
       PROVE  PoolInv'
  <2>1. pool' = pool /\ job[c].at # "none"
    BY <1>11 DEF Receive
  <2>2. CASE \E at : job' = [job EXCEPT ![c].at = at]
    <3>1. job["submit"] \in [at : {"transaction", "entrypoints", "send", "none"}, operation : Page!Operations \cup {None},
                             mode : Modes \cup {None}, heard : BOOLEAN]
      BY Parts DEF PathTypeOK, JobOK
    <3>2. /\ job'["submit"].operation = job["submit"].operation
          /\ c # "submit" => job'["submit"] = job["submit"]
      BY <1>4, <2>2, <3>1
    <3> QED BY <1>1, <1>2, <1>3, <2>1, <3>2 DEF PoolInv
  <2>3. CASE c = "submit" /\ \E ok : SubmitEnds(ok)
    BY <1>6, <2>1, <2>3
  <2>4. CASE \E status : StatusEnds(status)
    <3>1. job'["submit"] = job["submit"]
      BY <1>4, <2>4 DEF StatusEnds
    <3> QED BY <1>5, <2>1, <3>1
  <2> QED BY <1>11, <2>2, <2>3, <2>4 DEF Receive
<1>12. ASSUME NEW c \in Callers, Answered(c)
       PROVE  PoolInv'
  <2>1. job' = job /\ pool' \in Taken(c)
    BY <1>12 DEF Answered
  <2>2. CASE c = "submit" /\ job[c].at = "send"
    <3>1. pool' \subseteq pool \cup {job["submit"].operation} /\ job["submit"].at # "none"
      BY <2>1, <2>2 DEF Taken
    <3> QED BY <1>1, <1>2, <1>3, <2>1, <3>1 DEF PoolInv
  <2>3. CASE ~(c = "submit" /\ job[c].at = "send")
    <3>1. pool' = pool
      BY <2>1, <2>3 DEF Taken
    <3> QED BY <1>5, <2>1, <3>1
  <2> QED BY <2>2, <2>3
<1>13. CASE Tick \/ Reconfigure \/ IncludeElsewhere \/ UserActs \/ Failure \/ WalletSigns \/ NetworkChecked \/ PageGoesOn \/ UNCHANGED vars
  <2>1. pool' = pool /\ job' = job
    BY <1>13 DEF Tick, Reconfigure, IncludeElsewhere, UserActs, Failure, WalletSigns, NetworkChecked, PageGoesOn, elsewhere, vars
  <2> QED BY <1>5, <2>1
<1>14. CASE (\E c \in Others : OthersAsk(c) \/ OthersLeave(c)) \/ (\E op \in pool, outcome \in Outcomes : Include(op, outcome))
            \/ (\E c \in Callers : Arrival(c) \/ Judged(c))
  <2>1. pool' = pool /\ job' = job
    BY <1>14 DEF OthersAsk, OthersLeave, Include, Arrival, Judged
  <2> QED BY <1>5, <2>1
<1>15. CASE AdapterActs
  BY <1>7, <1>8, <1>9, <1>10, <1>11, <1>15 DEF AdapterActs
<1>16. CASE GatewayActs
  BY <1>12, <1>14, <1>16 DEF GatewayActs
<1> QED BY <1>13, <1>14, <1>15, <1>16 DEF Next

(* An operation is added to the chain with the next nonce of its account.  *)
LEMMA NonceTaken ==
  ASSUME PathTypeOK, \A x \in DOMAIN chain : x.nonce < Nonce(x), OneEffectPerNonce,
         NEW op \in Page!Operations, NEW outcome, op.nonce = Nonce(op), chain' = With(chain, op, outcome)
  PROVE  /\ op \notin DOMAIN chain
         /\ \A x \in DOMAIN chain' : x.nonce < Nonce(x)'
         /\ OneEffectPerNonce'
<1> DEFINE Of(account, ops) == {x \in ops : x.owner = account.owner /\ x.profile = account.profile}
<1>1. op \notin DOMAIN chain
  <2>1. Nonce(op) \in Nat
    BY Counted
  <2> QED BY <2>1
<1>2. DOMAIN chain' = DOMAIN chain \cup {op}
  BY DEF With
<1>3. IsFiniteSet(DOMAIN chain) /\ DOMAIN chain \subseteq Page!Operations
  BY DEF PathTypeOK
<1>4. ASSUME NEW x
      PROVE  /\ Nonce(x) = Cardinality(Of(x, DOMAIN chain)) /\ Nonce(x)' = Cardinality(Of(x, DOMAIN chain'))
             /\ IsFiniteSet(Of(x, DOMAIN chain)) /\ Nonce(x) \in Nat
  <2>1. Of(x, DOMAIN chain) \subseteq DOMAIN chain
    OBVIOUS
  <2>2. IsFiniteSet(Of(x, DOMAIN chain))
    BY <1>3, <2>1, FS_Subset
  <2> QED BY <2>2, Counted DEF Nonce
<1>5. ASSUME NEW x, x.owner = op.owner, x.profile = op.profile
      PROVE  Nonce(x)' = Nonce(x) + 1
  <2>1. Of(x, DOMAIN chain') = Of(x, DOMAIN chain) \cup {op} /\ op \notin Of(x, DOMAIN chain)
    BY <1>1, <1>2, <1>5
  <2> HIDE DEF Of
  <2>2. Cardinality(Of(x, DOMAIN chain) \cup {op}) = Cardinality(Of(x, DOMAIN chain)) + 1
    BY <1>4, <2>1, FS_AddElement
  <2> QED BY <1>4, <2>1, <2>2
<1>6. ASSUME NEW x, ~(x.owner = op.owner /\ x.profile = op.profile)
      PROVE  Nonce(x)' = Nonce(x)
  <2>1. Of(x, DOMAIN chain') = Of(x, DOMAIN chain)
    BY <1>2, <1>6
  <2> HIDE DEF Of
  <2> QED BY <1>4, <2>1
<1>7. ASSUME NEW x \in DOMAIN chain, x.owner = op.owner, x.profile = op.profile
      PROVE  x.nonce # op.nonce
  <2>1. Nonce(x) = Nonce(op)
    BY <1>7 DEF Nonce
  <2>2. x.nonce < Nonce(x) /\ op.nonce = Nonce(op) /\ Nonce(op) \in Nat
    BY <1>4
  <2> QED BY <2>1, <2>2
<1>8. OneEffectPerNonce'
  BY <1>2, <1>7 DEF OneEffectPerNonce
<1>9. ASSUME NEW x \in DOMAIN chain'
      PROVE  x.nonce < Nonce(x)'
  <2>1. Nonce(x) \in Nat /\ Nonce(x)' \in {Nonce(x), Nonce(x) + 1}
    BY <1>4, <1>5, <1>6
  <2>2. CASE x \in DOMAIN chain
    <3>1. x.nonce \in Nat /\ x.nonce < Nonce(x)
      BY <1>3, <2>2 DEF Page!Operations
    <3> QED BY <2>1, <3>1
  <2>3. CASE x = op
    <3>1. Nonce(x)' = Nonce(op) + 1
      BY <1>5, <2>3
    <3>2. op.nonce = Nonce(op) /\ Nonce(op) \in Nat
      BY <1>4
    <3> HIDE DEF Of
    <3> QED BY <2>3, <3>1, <3>2
  <2> QED BY <1>2, <2>2, <2>3
<1> QED BY <1>1, <1>8, <1>9

(* The chain stays as it is, or takes an operation that was posted or that *)
(* its owner made elsewhere.                                               *)
LEMMA ChainGrows ==
  ASSUME IInv, CarriedInv, [Next]_vars
  PROVE  \/ chain' = chain
         \/ /\ UNCHANGED <<submitted, report>>
            /\ \E op \in Page!Operations, outcome \in Outcomes :
                 /\ op \in PostedOperations \/ op.action = None
                 /\ op.nonce = Nonce(op) /\ chain' = With(chain, op, outcome)
<1>1. ASSUME NEW op \in pool, NEW outcome \in Outcomes, Include(op, outcome)
      PROVE  /\ UNCHANGED <<submitted, report>>
             /\ op \in Page!Operations /\ op \in PostedOperations /\ op.nonce = Nonce(op) /\ chain' = With(chain, op, outcome)
  BY <1>1, Parts DEF Include, CarriedInv, PoolInv, PathTypeOK
<1>2. ASSUME IncludeElsewhere
      PROVE  /\ UNCHANGED <<submitted, report>>
             /\ \E op \in Page!Operations : op.action = None /\ op.nonce = Nonce(op) /\ chain' = With(chain, op, "included")
  <2> DEFINE account == sessions[profile]
             op == [owner |-> account.owner, profile |-> profile, nonce |-> Nonce(account),
                    deploy |-> Nonce(account) = 0, action |-> None]
  <2>1. account # None /\ chain' = With(chain, op, "included") /\ UNCHANGED <<submitted, report>>
    BY <1>2 DEF IncludeElsewhere
  <2>2. account.owner \in Page!Owners /\ profile \in Profiles
    BY <2>1, Parts DEF Page!TypeOK, Page!Sessions
  <2>3. Nonce(account) \in Nat
    BY Parts, Counted
  <2>4. account.profile = profile
    BY <2>1, <2>2 DEF CarriedInv, SessionsFit
  <2>5. op \in Page!Operations /\ op.action = None
    <3> HIDE DEF account
    <3> QED BY <2>2, <2>3 DEF Page!Operations
  <2>6. op.owner = account.owner /\ op.profile = account.profile /\ op.nonce = Nonce(account)
    BY <2>4
  <2> HIDE DEF op, account
  <2>7. Nonce(op) = Nonce(account)
    BY <2>6 DEF Nonce
  <2> QED BY <2>1, <2>5, <2>6, <2>7
<1>3. "included" \in Outcomes
  BY DEF Outcomes
<1>4. ASSUME NEW c \in {"submit", "status"}, Receive(c) \/ PageTimesOut(c)
      PROVE  chain' = chain
  BY <1>4 DEF Receive, PageTimesOut
<1>5. CASE AdapterActs
  BY <1>4, <1>5 DEF AdapterActs, StartSubmit, StartStatus, DirectSubmit, MinedStatus
<1>6. CASE GatewayActs
  BY <1>6 DEF GatewayActs, Arrival, Judged, Answered
<1>7. CASE Tick \/ Reconfigure \/ UserActs \/ Failure \/ WalletSigns \/ NetworkChecked \/ PageGoesOn \/ UNCHANGED vars
  BY <1>7 DEF Tick, Reconfigure, UserActs, Failure, WalletSigns, NetworkChecked, PageGoesOn, elsewhere, vars
<1>8. CASE \E c \in Others : OthersAsk(c) \/ OthersLeave(c)
  BY <1>8 DEF OthersAsk, OthersLeave
<1> QED BY <1>1, <1>2, <1>3, <1>5, <1>6, <1>7, <1>8 DEF Next

LEMMA CarriedInit == Init => CarriedInv
<1> SUFFICES ASSUME Init PROVE CarriedInv
  OBVIOUS
<1>1. pool = {} /\ DOMAIN chain = {} /\ job["submit"].at = "none"
  BY DEF Init, NoJob
<1>2. \A p \in Profiles : sessions[p] = None
  BY DEF Init, Page!Init
<1> QED BY <1>1, <1>2 DEF CarriedInv, PoolInv, SessionsFit, OneEffectPerNonce

LEMMA CarriedStep ==
  ASSUME IInv, CarriedInv, [Next]_vars
  PROVE  CarriedInv'
<1>1. SessionsFit'
  <2>1. SessionsFit
    BY DEF CarriedInv
  <2>2. PageNext \/ UNCHANGED page
    BY PagePart DEF vars
  <2> QED BY <2>1, <2>2, Parts, SessionsKeep
<1>2. (\A x \in DOMAIN chain' : x.nonce < Nonce(x)') /\ OneEffectPerNonce'
  <2>1. CASE chain' = chain
    BY <2>1 DEF CarriedInv, OneEffectPerNonce, Nonce
  <2>2. CASE \E op \in Page!Operations, outcome \in Outcomes : op.nonce = Nonce(op) /\ chain' = With(chain, op, outcome)
    BY <2>2, NonceTaken, Parts DEF CarriedInv
  <2> QED BY <2>1, <2>2, ChainGrows
<1>3. PoolInv'
  BY PoolKeeps
<1> QED BY <1>1, <1>2, <1>3 DEF CarriedInv

LEMMA Carried == Spec => []CarriedInv
BY Invariant, CarriedInit, CarriedStep, PTL DEF Spec

(* A nonce of an account is used at most once: of the operations that were *)
(* reviewed for it, by whichever route and however often they were sent,   *)
(* one takes effect.                                                       *)
THEOREM OncePerNonce == Spec => []OneEffectPerNonce
<1>1. CarriedInv => OneEffectPerNonce
  BY DEF CarriedInv
<1> QED BY <1>1, Carried, PTL

ApprovedBar == {s.operation : s \in {x \in submitted : AsReviewed(x)}}
ToldBar == IF report.status \in Outcomes THEN <<report.operation, report.status>> ELSE None

(* Every step is one of the promise's, or changes nothing it speaks of.    *)
LEMMA StepReviewed ==
  ASSUME IInv, CarriedInv, [Next]_vars
  PROVE  [Reviewed!Next]_(Reviewed!vars)
<1>1. IInv'
  BY Step
<1>2. \A s \in submitted : AsReviewed(s)
  BY Parts DEF PathInv
<1>3. \A s \in submitted' : AsReviewed(s)'
  BY <1>1 DEF IInv, PathInv
<1>4. ApprovedBar = {s.operation : s \in submitted} /\ ApprovedBar' = {s.operation : s \in submitted'}
  BY <1>2, <1>3 DEF ApprovedBar
<1>5. ASSUME chain' # chain
      PROVE  Reviewed!Next
  <2>1. UNCHANGED <<submitted, report>>
    BY <1>5, ChainGrows
  <2>2. PICK op \in Page!Operations, outcome \in Outcomes :
          (op \in PostedOperations \/ op.action = None) /\ op.nonce = Nonce(op) /\ chain' = With(chain, op, outcome)
    BY <1>5, ChainGrows
  <2>3. op \notin DOMAIN chain
    BY <2>2, NonceTaken, Parts DEF CarriedInv
  <2>4. op \in DOMAIN chain' /\ chain'[op] = outcome
    BY <2>2, <2>3 DEF With
  <2>5. chain' = [other \in DOMAIN chain \cup {op} |-> IF other = op THEN outcome ELSE chain[other]]
    BY <2>2, <2>3 DEF With
  <2>6. op \in ApprovedBar \/ op.action = None
    BY <1>4, <2>2 DEF PostedOperations
  <2>7. op.nonce = Reviewed!Nonce(op)
    <3>1. {x \in DOMAIN chain : x.owner = op.owner /\ x.profile = op.profile}
            = {x \in DOMAIN chain : Reviewed!Account(x) = Reviewed!Account(op)}
      BY DEF Reviewed!Account
    <3>2. Reviewed!Nonce(op) = Reviewed!Cardinality({x \in DOMAIN chain : Reviewed!Account(x) = Reviewed!Account(op)})
      BY DEF Reviewed!Nonce
    <3>3. Nonce(op) = Reviewed!Nonce(op)
      BY <3>1, <3>2 DEF Nonce, Cardinality, Reviewed!Cardinality, Reviewed!IsFiniteSet, IsFiniteSet
    <3> QED BY <2>2, <3>3
  <2>8. ApprovedBar' = ApprovedBar /\ ToldBar' = ToldBar
    BY <1>4, <2>1 DEF ToldBar
  <2>9. Reviewed!TakeEffect(op, chain'[op])
    BY <2>3, <2>4, <2>5, <2>6, <2>7, <2>8 DEF Reviewed!TakeEffect, ApprovedBar, ToldBar
  <2> QED BY <2>4, <2>9 DEF Reviewed!Next
<1>6. ASSUME NetworkChecked
      PROVE  [Reviewed!Next]_(Reviewed!vars)
  <2>1. chain' = chain /\ report' = report
    BY <1>6 DEF NetworkChecked, elsewhere
  <2>2. PICK s : submitted' = submitted \/ submitted' = submitted \cup {s}
    BY <1>6 DEF NetworkChecked
  <2>3. CASE submitted' = submitted
    BY <1>4, <2>1, <2>3 DEF Reviewed!vars, ApprovedBar
  <2>4. CASE submitted' = submitted \cup {s}
    <3>1. ApprovedBar' = ApprovedBar \cup {s.operation} /\ s.operation \in ApprovedBar'
      BY <1>4, <2>4
    <3>2. Reviewed!Approve(s.operation)
      BY <2>1, <3>1 DEF Reviewed!Approve, ApprovedBar
    <3> QED BY <3>1, <3>2 DEF Reviewed!Next, ApprovedBar
  <2> QED BY <2>2, <2>3, <2>4
<1>7. ASSUME UNCHANGED <<submitted, chain>>
      PROVE  [Reviewed!Next]_(Reviewed!vars)
  <2>1. ApprovedBar' = ApprovedBar
    BY <1>4, <1>7
  <2>2. CASE report'.status \in Outcomes
    <3>1. report'.operation \in DOMAIN chain /\ chain[report'.operation] = report'.status
      BY <1>1, <1>7, <2>2 DEF IInv, PathInv, InclusionIsReal, Mined
    <3>2. Reviewed!Tell(report'.operation)
      BY <1>7, <2>1, <2>2, <3>1 DEF Reviewed!Tell, ApprovedBar
    <3> QED BY <3>1, <3>2 DEF Reviewed!Next
  <2>3. CASE report'.status \notin Outcomes
    <3>1. Reviewed!Withdraw
      BY <1>7, <2>1, <2>3 DEF Reviewed!Withdraw, ApprovedBar
    <3> QED BY <3>1 DEF Reviewed!Next
  <2> QED BY <2>2, <2>3
<1>8. ASSUME ~NetworkChecked
      PROVE  submitted' = submitted
  <2>1. ASSUME NEW c \in {"submit", "status"}, Receive(c) \/ PageTimesOut(c)
        PROVE  submitted' = submitted
    BY <2>1 DEF Receive, PageTimesOut
  <2>2. CASE AdapterActs
    BY <2>1, <2>2 DEF AdapterActs, StartSubmit, StartStatus, DirectSubmit, MinedStatus
  <2>3. CASE GatewayActs
    BY <2>3 DEF GatewayActs, Arrival, Judged, Answered
  <2>4. CASE Tick \/ Reconfigure \/ IncludeElsewhere \/ UserActs \/ Failure \/ WalletSigns \/ PageGoesOn \/ UNCHANGED vars
    BY <2>4 DEF Tick, Reconfigure, IncludeElsewhere, UserActs, Failure, WalletSigns, PageGoesOn, vars
  <2>5. CASE (\E c \in Others : OthersAsk(c) \/ OthersLeave(c)) \/ \E op \in pool, outcome \in Outcomes : Include(op, outcome)
    BY <2>5 DEF OthersAsk, OthersLeave, Include
  <2> QED BY <1>8, <2>2, <2>3, <2>4, <2>5 DEF Next
<1> QED BY <1>5, <1>6, <1>7, <1>8

(* From the page to the chain: nothing of the page's takes effect that was *)
(* not reviewed and signed, nothing takes effect twice or out of its       *)
(* account's order, and the page shows the chain's outcomes.               *)
THEOREM Refinement == Spec => EffectsReviewed
<1>1. Init => Reviewed!Init
  BY DEF Init, Reviewed!Init, Outcomes
<1> QED BY <1>1, StepReviewed, Invariant, Carried, PTL DEF Spec, EffectsReviewed
====
