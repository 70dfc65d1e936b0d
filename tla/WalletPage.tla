-------------------------------- MODULE WalletPage --------------------------------
(***************************************************************************)
(* The reference application's page (apps/reference/main.ts with           *)
(* WalletActions of apps/shared/wallet.ts) driving a CIP-30 wallet through *)
(* the connector (packages/wallet) and the SDK (packages/sdk).  A click    *)
(* starts a flow, a sequence of calls to the wallet and to the server;     *)
(* while one is under way the controls are disabled.  Between any two      *)
(* calls the user may change the wallet's account or network.  The page    *)
(* asks for stake credentials on network 0; a wallet shows one of them.    *)
(***************************************************************************)
EXTENDS Naturals, Sequences, FiniteSets

CONSTANTS Keys,         \* the wallet's accounts
          Headers,      \* protected headers a wallet may sign with
          Profiles, Actions, Modes,
          None

Expected == 0           \* expectedNetwork
StakeAddress(key, network) == [key |-> key, network |-> network]

VARIABLES wallet,       \* the extension: [key, network, headers] selected in it
          connected,    \* the page holds a wallet connection
          address,      \* the address the page shows, None before
          profile, action, mode,    \* what is selected
          flow, step,   \* the flow under way and the call it waits for
          candidate,    \* the address getRewardAddresses answered last
          signature,    \* what signData answered last
          sessions,     \* per profile: the enrolled account, or None
          prepared,     \* the operation in the review panel, or None
          last          \* per profile: the operation submitted last, or None

(* What the variables hold.                                                *)
Wallets == [key : Keys, network : {0, 1}, headers : Headers]
StakeAddresses == [key : Keys, network : {0, 1}]
Owners == [key : Keys, headers : Headers]
Sessions == [owner : Owners, address : StakeAddresses, profile : Profiles]
Operations == [owner : Owners, profile : Profiles, nonce : Nat, deploy : BOOLEAN, action : Actions \cup {None}]
Reviews == [session : Sessions, mode : Modes, action : Actions, operation : Operations]
IsSignature(s) ==
    /\ s = [wellFormed |-> s.wellFormed, key |-> s.key, headers |-> s.headers, address |-> s.address, payload |-> s.payload]
    /\ s.wellFormed \in BOOLEAN /\ s.key \in Keys /\ s.headers \in Headers

walletPage == <<connected, address, profile, action, mode, flow, step, candidate, signature, sessions, prepared, last>>
selected == <<profile, action, mode>>
vars == <<wallet, walletPage>>

(* addresses(), signData() of the connector, then the page's flows.        *)
AddressCalls == <<"network", "reward", "recheck">>
SignCalls == AddressCalls \o <<"sign">> \o AddressCalls
Calls(f) ==
    CASE f = "connect" -> <<"enable", "network">> \o AddressCalls
      [] f = "enroll"  -> <<"challenge", "network">> \o AddressCalls \o SignCalls \o <<"network", "enroll", "state">>
      [] f = "sign"    -> <<"network">> \o AddressCalls \o SignCalls \o <<"network", "submit", "status", "state">>
      [] f = "poll"    -> <<"status", "state">>
      [] OTHER         -> <<"state">>                       \* "review", "show"
Flows == {"connect", "enroll", "review", "sign", "poll"}

TypeOK ==
    /\ wallet \in Wallets
    /\ connected \in BOOLEAN /\ address \in StakeAddresses \cup {None}
    /\ profile \in Profiles /\ action \in Actions /\ mode \in Modes
    /\ flow \in Flows \cup {"show", "idle"} /\ step \in 1..Len(Calls(flow))
    /\ candidate \in StakeAddresses \cup {None}
    /\ signature # None => IsSignature(signature)
    /\ sessions \in [Profiles -> Sessions \cup {None}]
    /\ prepared \in Reviews \cup {None}
    /\ last \in [Profiles -> Operations \cup {None}]

Busy == flow # "idle"
Awaits(call) == Busy /\ Calls(flow)[step] = call
ActiveSession ==
    IF connected /\ sessions[profile] # None /\ sessions[profile].address = address THEN sessions[profile] ELSE None

Proceed ==
    IF step < Len(Calls(flow)) THEN step' = step + 1 /\ UNCHANGED flow ELSE flow' = "idle" /\ step' = 1
Finish == flow' = "idle" /\ step' = 1

(* Mutant: the enrolled accounts survive the connection. *)
DisconnectKeepsSessions ==
    /\ connected' = FALSE /\ address' = None
    /\ prepared' = None
    /\ UNCHANGED sessions

(* disconnect(), with clearEnrollment() and invalidate().                  *)
Disconnect ==
    /\ connected' = FALSE /\ address' = None
    /\ sessions' = [p \in Profiles |-> None]
    /\ prepared' = None
Keep == UNCHANGED <<connected, address, sessions, prepared>>
Invalidate == prepared' = None /\ UNCHANGED <<connected, address, sessions>>

Init ==
    /\ wallet = [key |-> CHOOSE k \in Keys : TRUE, network |-> Expected, headers |-> CHOOSE h \in Headers : TRUE]
    /\ connected = FALSE /\ address = None
    /\ profile = CHOOSE p \in Profiles : TRUE
    /\ action = CHOOSE a \in Actions : TRUE
    /\ mode = CHOOSE m \in Modes : TRUE
    /\ flow = "idle" /\ step = 1
    /\ candidate = None /\ signature = None
    /\ sessions = [p \in Profiles |-> None]
    /\ prepared = None
    /\ last = [p \in Profiles |-> None]
---------------------------------------------------------------------------------
(* The buttons; controls() decides which are enabled.                      *)
Click(f) ==
    /\ ~Busy
    /\ CASE f = "connect" -> Disconnect
         [] f = "enroll"  -> connected /\ Invalidate
         [] f = "review"  -> ActiveSession # None /\ Invalidate
         [] f = "sign"    -> prepared # None /\ prepared.session = ActiveSession /\ prepared.mode = mode /\ Keep
         [] f = "poll"    -> last[profile] # None /\ Keep
    /\ flow' = f /\ step' = 1
    /\ UNCHANGED <<wallet, selected, candidate, signature, last>>

(* Mutant: another action is selected and the review stays. *)
SelectKeepsReview(p, a, m) ==
    /\ ~Busy
    /\ Cardinality({i \in 1..3 : <<p, a, m>>[i] # selected[i]}) = 1
    /\ profile' = p /\ action' = a /\ mode' = m
    /\ Keep
    /\ flow' = IF p # profile /\ connected /\ sessions[p] # None /\ sessions[p].address = address THEN "show" ELSE "idle"
    /\ UNCHANGED <<wallet, step, candidate, signature, last>>

(* profile.onchange, mode.onchange and action.onchange.                    *)
Select(p, a, m) ==
    /\ ~Busy
    /\ Cardinality({i \in 1..3 : <<p, a, m>>[i] # selected[i]}) = 1
    /\ profile' = p /\ action' = a /\ mode' = m
    /\ Invalidate
    /\ flow' = IF p # profile /\ connected /\ sessions[p] # None /\ sessions[p].address = address THEN "show" ELSE "idle"
    /\ UNCHANGED <<wallet, step, candidate, signature, last>>

(* selection.onchange: the other wallet.                                   *)
SelectWallet ==
    /\ ~Busy
    /\ Disconnect
    /\ UNCHANGED <<wallet, selected, flow, step, candidate, signature, last>>

(* The user switches account, network or release in the extension.         *)
Switch(w) ==
    /\ Cardinality({f \in DOMAIN w : w[f] # wallet[f]}) = 1
    /\ wallet' = w
    /\ UNCHANGED walletPage
---------------------------------------------------------------------------------
(* A call of the flow fails: declined in the wallet (code 3), lost access  *)
(* or another account (codes -3 and -4, or the connector's own checks), or *)
(* anything else.                                                          *)
Fail(kind) ==
    /\ Finish
    /\ IF kind = "declined" THEN Keep
       ELSE IF kind = "reconnect" \/ (flow \in {"enroll", "sign"} /\ Calls(flow)[step] \notin {"state", "submit", "status"})
       THEN Disconnect ELSE Invalidate
    /\ UNCHANGED <<wallet, selected, candidate, signature, last>>

WalletError(kind) ==
    /\ \E call \in {"enable", "network", "reward", "recheck", "sign"} : Awaits(call)
    /\ Fail(kind)

ServerError ==
    /\ \E call \in {"challenge", "enroll", "state"} : Awaits(call)
    /\ Fail("other")

Granted ==
    /\ Awaits("enable") \/ Awaits("challenge")
    /\ Proceed
    /\ UNCHANGED <<wallet, connected, address, selected, candidate, signature, sessions, prepared, last>>

RewardAddress ==
    /\ Awaits("reward")
    /\ candidate' = StakeAddress(wallet.key, wallet.network)
    /\ Proceed
    /\ UNCHANGED <<wallet, connected, address, selected, signature, sessions, prepared, last>>

(* checkNetwork() again, and then the addresses asked for before it.       *)
Recheck ==
    /\ Awaits("recheck")
    /\ IF wallet.network # Expected \/ (flow # "connect" /\ candidate # address) THEN Fail("reconnect")
       ELSE IF candidate.network # Expected THEN Fail("other")
       ELSE /\ IF flow = "connect" THEN connected' = TRUE /\ address' = candidate ELSE UNCHANGED <<connected, address>>
            /\ Proceed
            /\ UNCHANGED <<wallet, selected, candidate, signature, sessions, prepared, last>>

(* What the wallet is asked to sign: the server's challenge for the        *)
(* account, or the hash of the operation.                                  *)
Payload == IF flow = "enroll" THEN <<"challenge", address, profile>> ELSE <<"operation", prepared.operation>>

(* api.signData(): the wallet may sign with another key or other headers,  *)
(* or something else than it was asked to.                                 *)
Sign(s) ==
    /\ Awaits("sign")
    /\ s.key = wallet.key /\ s.headers = wallet.headers
    /\ signature' = s
    /\ Proceed
    /\ UNCHANGED <<wallet, connected, address, selected, candidate, sessions, prepared, last>>

(* verifyCip8Signature *)
Verifies(s) == s.wellFormed /\ s.address = address /\ s.payload = Payload /\ s.key = address.key

(* Mutant: the account's headers are not compared. *)
OperationVerifiesKeyOnly(s) == Verifies(s) /\ s.key = prepared.session.owner.key

(* signOperation's last check: the account the page enrolled.              *)
OperationVerifies(s) == Verifies(s) /\ [key |-> s.key, headers |-> s.headers] = prepared.session.owner

(* A plain network check; the last one of a signing flow is followed by    *)
(* the verification, after which the operation is tracked and submitted.   *)
Network ==
    LET next == Calls(flow)[step + 1]
        wrong == wallet.network # Expected
                 \/ (next = "enroll" /\ ~Verifies(signature)) \/ (next = "submit" /\ ~OperationVerifies(signature))
    IN /\ Awaits("network")
       /\ IF wrong THEN Fail("reconnect")
          ELSE /\ IF next = "submit"
                  THEN last' = [last EXCEPT ![profile] = prepared.operation] /\ prepared' = None
                  ELSE UNCHANGED <<last, prepared>>
               /\ Proceed
               /\ UNCHANGED <<wallet, connected, address, selected, candidate, signature, sessions>>

(* The backend enrolled the key and derived the account the SDK derives.   *)
Enrolled ==
    /\ Awaits("enroll")
    /\ sessions' = [sessions EXCEPT ![profile] =
           [owner |-> [key |-> signature.key, headers |-> signature.headers], address |-> address, profile |-> profile]]
    /\ Proceed
    /\ UNCHANGED <<wallet, connected, address, selected, candidate, signature, prepared, last>>

(* /state: the review panel shows what constructOperation makes of it.     *)
State(nonce) ==
    /\ Awaits("state")
    /\ IF flow = "review"
       THEN prepared' = [session |-> ActiveSession, mode |-> mode, action |-> action,
                         operation |-> [owner |-> ActiveSession.owner, profile |-> profile, nonce |-> nonce,
                                        deploy |-> nonce = 0, action |-> action]]
       ELSE UNCHANGED prepared
    /\ Proceed
    /\ UNCHANGED <<wallet, connected, address, selected, candidate, signature, sessions, last>>

(* The answers to /submit and /status.                                     *)
Submitted(ok) ==
    /\ Awaits("submit")
    /\ IF ok THEN Proceed /\ UNCHANGED <<wallet, connected, address, selected, candidate, signature, sessions, prepared, last>>
       ELSE Fail("other")
Reported(ok) ==
    /\ Awaits("status")
    /\ IF ~ok THEN Fail("other")
       ELSE /\ IF ActiveSession = None THEN Finish ELSE Proceed
            /\ UNCHANGED <<wallet, connected, address, selected, candidate, signature, sessions, prepared, last>>
===============================================================================
