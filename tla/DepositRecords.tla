---------------------------- MODULE DepositRecords ----------------------------
(***************************************************************************)
(* The backend's deposit route and the records it keeps: one per payment   *)
(* transaction.  A request either brings a signed group, payment and       *)
(* deposit call together, which the backend submits and then records; or   *)
(* the id of a payment made before, which it verifies, and a signed call,  *)
(* which it submits before it records the payment.  Every await is a step; *)
(* requests interleave, waits give up, the process restarts.               *)
(***************************************************************************)
EXTENDS Integers

CONSTANTS
    Wallets,   \* wallets of the registered users
    Groups,    \* signed groups, each named by its payment
    Payments,  \* payments outside such a group
    Calls,     \* signed application calls outside such a group
    Requests,  \* bound: requests the backend handles at once
    MaxFaults  \* bound: lost answers, failed inserts and restarts of a run

Txns == Groups \cup Payments \cup Calls
None == "none"

ASSUME DepositRecordsAssumption ==
    /\ None \notin Wallets \cup Txns
    /\ Groups \cap (Payments \cup Calls) = {}
    /\ MaxFaults \in Nat

VARIABLES
    signer,    \* who signed each transaction; never changes
    ledger,    \* how far each transaction has come
    records,   \* how many deposit records bear a transaction's id
    request,   \* what each request is doing
    submitted, \* history: the groups the backend has handed to the ledger
    struck,    \* history: the groups a request for which met a fault
    faults     \* faults so far

vars == <<signer, ledger, records, request, submitted, struck, faults>>
chain == <<signer, ledger>>
history == <<submitted, struck, faults>>

Stages == {"unsent", "pending", "confirmed", "expired"}

\* The awaits of the handler.
RequestStates == {"free", "looking", "verifying", "sending", "waiting",
                  "checking", "recording"}

\* tx: the payment to record; call: the call that came with its id, if so.
Request == [at: RequestStates, user: Wallets \cup {None}, tx: Txns \cup {None},
            call: Calls \cup {None}]

Idle == [at |-> "free", user |-> None, tx |-> None, call |-> None]

Init ==
    /\ signer \in [Txns -> Wallets]
    /\ ledger = [t \in Txns |-> "unsent"]
    /\ records = [t \in Txns |-> 0]
    /\ request = [r \in Requests |-> Idle]
    /\ submitted = {} /\ struck = {} /\ faults = 0

At(r, state) == request[r].at = state
Becomes(r, q) == request' = [request EXCEPT ![r] = q]
Moves(r, state) == Becomes(r, [request[r] EXCEPT !.at = state])
Ends(r) == Becomes(r, Idle)

WithGroup(q) == q.call = None
\* What the request has the backend submit.
Sent(q) == IF WithGroup(q) THEN q.tx ELSE q.call

\* The sender of a transaction is the wallet of the user who brings it.
SignedByAnyone(u, t) == t \in Txns
SignedBy(u, t) == signer[t] = u

\* findOne({txId}).
UsedByWallet(t) == \E other \in Txns : signer[other] = signer[t] /\ records[other] > 0
Used(t) == records[t] > 0

\* The unique index on txId.
InsertableAnyway(t) == TRUE
Insertable(t) == records[t] = 0

\* waitForConfirmation, and the indexer's confirmedRound.
SettledOnceSent(t) == ledger[t] # "unsent"
Settled(t) == ledger[t] = "confirmed"

-----------------------------------------------------------------------------
(* deposit. *)

ArriveWithGroup(r, u, t) ==
    /\ At(r, "free")
    /\ Becomes(r, [at |-> "sending", user |-> u, tx |-> t, call |-> None])
    /\ UNCHANGED <<chain, records, history>>

\* Any transaction's id may be given.
ArriveWithId(r, u, t, c) ==
    /\ At(r, "free")
    /\ Becomes(r, [at |-> "looking", user |-> u, tx |-> t, call |-> c])
    /\ UNCHANGED <<chain, records, history>>

LookUp(r) ==
    /\ At(r, "looking")
    /\ ~Used(request[r].tx)
    /\ Moves(r, "verifying")
    /\ UNCHANGED <<chain, records, history>>

Verify(r) ==
    /\ At(r, "verifying")
    /\ Settled(request[r].tx)
    /\ SignedBy(request[r].user, request[r].tx)
    /\ Moves(r, "sending")
    /\ UNCHANGED <<chain, records, history>>

\* The ledger takes a transaction once.
HandOver(t) ==
    /\ ledger[t] = "unsent"
    /\ ledger' = [ledger EXCEPT ![t] = "pending"]
    /\ UNCHANGED signer

\* submitSignedDepositGroup, submitSignedAppCall.
SendRaw(r) ==
    /\ At(r, "sending")
    /\ SignedBy(request[r].user, Sent(request[r]))
    /\ HandOver(Sent(request[r]))
    /\ submitted' = submitted \cup (Groups \cap {Sent(request[r])})

Send(r) ==
    /\ SendRaw(r)
    /\ Moves(r, "waiting")
    /\ UNCHANGED <<records, struck, faults>>

Confirmed(r) ==
    /\ At(r, "waiting")
    /\ Settled(Sent(request[r]))
    /\ Moves(r, IF WithGroup(request[r]) THEN "checking" ELSE "recording")
    /\ UNCHANGED <<chain, records, history>>

Check(r) ==
    /\ At(r, "checking")
    /\ ~Used(request[r].tx)
    /\ Moves(r, "recording")
    /\ UNCHANGED <<chain, records, history>>

Record(r) ==
    /\ At(r, "recording")
    /\ Insertable(request[r].tx)
    /\ records' = [records EXCEPT ![request[r].tx] = @ + 1]
    /\ Ends(r)
    /\ UNCHANGED <<chain, history>>

\* An answer other than success that no fault causes: the transaction is used,
\* does not verify, is not the user's, or the ledger does not take it.
Refuse(r) ==
    /\ \/ request[r].at \in {"looking", "verifying", "sending"}
       \/ At(r, "waiting") /\ ledger[Sent(request[r])] = "expired"
       \/ At(r, "checking") /\ Used(request[r].tx)
       \/ At(r, "recording") /\ ~Insertable(request[r].tx)
    /\ Ends(r)
    /\ UNCHANGED <<chain, records, history>>

-----------------------------------------------------------------------------
(* Faults. *)

Strikes(hit) ==
    /\ faults < MaxFaults /\ faults' = faults + 1
    /\ struck' = struck \cup
        {request[r].tx : r \in {o \in hit : ~At(o, "free") /\ WithGroup(request[o])}}

\* The ledger took it; the backend does not hear so.
SendAnswerLost(r) ==
    /\ SendRaw(r)
    /\ Ends(r)
    /\ Strikes({r}) /\ UNCHANGED records

\* The wait gives up after its rounds; a lookup or the insert fails.
AwaitFails(r) ==
    /\ request[r].at \in {"waiting", "checking", "recording"}
    /\ Ends(r)
    /\ Strikes({r}) /\ UNCHANGED <<chain, records, submitted>>

Restart ==
    /\ \E r \in Requests : ~At(r, "free")
    /\ request' = [r \in Requests |-> Idle]
    /\ Strikes(Requests)
    /\ UNCHANGED <<chain, records, submitted>>

-----------------------------------------------------------------------------
(* The ledger, and wallets that submit by themselves. *)

Confirm(t) ==
    /\ ledger[t] = "pending"
    /\ ledger' = [ledger EXCEPT ![t] = "confirmed"]
    /\ UNCHANGED <<signer, records, request, history>>

\* Its last valid round passes.
Expire(t) ==
    /\ ledger[t] = "pending"
    /\ ledger' = [ledger EXCEPT ![t] = "expired"]
    /\ UNCHANGED <<signer, records, request, history>>

WalletSends(t) ==
    /\ HandOver(t)
    /\ UNCHANGED <<records, request, history>>

RequestStep(r) ==
    \/ LookUp(r) \/ Verify(r) \/ Send(r) \/ Confirmed(r) \/ Check(r)
    \/ Record(r) \/ Refuse(r)

Next ==
    \/ \E r \in Requests :
        \/ \E u \in Wallets :
            \/ \E t \in Groups : ArriveWithGroup(r, u, t)
            \/ \E t \in Txns, c \in Calls : ArriveWithId(r, u, t, c)
        \/ RequestStep(r) \/ SendAnswerLost(r) \/ AwaitFails(r)
    \/ Restart
    \/ \E t \in Txns : Confirm(t) \/ Expire(t) \/ WalletSends(t)

\* Awaits return or throw, and a transaction is valid for some rounds only.
Spec ==
    /\ Init /\ [][Next]_vars
    /\ \A r \in Requests : WF_vars(RequestStep(r))
    /\ \A t \in Txns : WF_vars(Confirm(t) \/ Expire(t))

-----------------------------------------------------------------------------
(* Properties. *)

\* Requests, records and transactions keep their shape: an answered request holds
\* nothing, and one that verified or submitted a payment holds a payment its own
\* user signed, so that no path records the deposit of another wallet.
DepositTypeOK ==
    /\ signer \in [Txns -> Wallets]
    /\ ledger \in [Txns -> Stages]
    /\ records \in [Txns -> Nat]
    /\ request \in [Requests -> Request]
    /\ \A r \in Requests :
        IF At(r, "free") THEN request[r] = Idle
        ELSE /\ request[r].user # None /\ request[r].tx # None
             /\ request[r].at \notin {"looking", "verifying"} =>
                    \/ At(r, "sending") /\ WithGroup(request[r])
                    \/ signer[request[r].tx] = request[r].user
    /\ submitted \subseteq Groups /\ struck \subseteq Groups
    /\ faults \in 0 .. MaxFaults

\* depositModel.js, "prevent duplicate recording": however requests for one
\* transaction interleave, by either path, it is recorded once.
RecordedOnce == \A t \in Txns : records[t] <= 1

\* A deposit is recorded only for what the ledger has confirmed.
RecordedIsConfirmed ==
    \A t \in Txns : records[t] > 0 => ledger[t] = "confirmed"

\* A group the backend got confirmed is recorded, or on its way to be, or its
\* request met a fault after the submission: nothing else loses a deposit, not
\* another request for it by either path.
DepositAccounted(t) ==
    \/ records[t] > 0
    \/ t \in struck
    \/ \E r \in Requests :
        /\ request[r].tx = t /\ WithGroup(request[r])
        /\ request[r].at \in {"waiting", "checking", "recording"}
DepositsAccounted ==
    \A t \in submitted : ledger[t] = "confirmed" => DepositAccounted(t)

\* And it does not stay on its way.
DepositsSettle ==
    \A t \in Groups :
        t \in submitted /\ ledger[t] = "confirmed" ~> records[t] > 0 \/ t \in struck
=============================================================================
