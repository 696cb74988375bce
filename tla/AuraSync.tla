------------------------------- MODULE AuraSync -------------------------------
(***************************************************************************)
(* The backend's repayment route beside the AlgoPool contract and the      *)
(* separate AURA application: a request reads the wallet's AURA, submits   *)
(* the repayment, reads the AURA again and adds the difference to the AURA *)
(* application.  Every await is a step of its own; wallets also act on the *)
(* contract directly, answers get lost, the process may restart.           *)
(*                                                                         *)
(* AURA_APP_ID is taken as set; without it the route adds nothing.         *)
(***************************************************************************)
EXTENDS AlgoPool

CONSTANTS
    Requests,  \* bound: requests the backend handles at once
    Overlap,   \* whether a wallet may have two of them under way
    ResourcesChecked, \* whether the ledger holds a call to what it names
    MaxFaults, \* bound: lost answers and restarts of a run
    MaxPaid    \* bound: the AURA points a wallet's repayments reach

NoWallet == "none"

ASSUME AuraSyncAssumption ==
    /\ NoWallet \notin Accounts
    /\ Overlap \in BOOLEAN /\ ResourcesChecked \in BOOLEAN
    /\ MaxFaults \in Nat /\ MaxPaid \in Nat

VARIABLES
    request,     \* what each request is doing and has read
    auraMembers, \* accounts that hold local state of the AURA application
    auraEarned,  \* its aura_earned
    paid,        \* history: the AURA points of all interest ever repaid
    faults       \* faults so far

syncVars == <<request, auraMembers, auraEarned, paid, faults>>
allVars == <<vars, syncVars>>

\* "before", "after": about to read the wallet's AURA.
RequestStates == {"free", "before", "submitting", "after", "syncing"}

\* before, delta: the handler's own.  own, base, kept: history, the points its
\* repayment earned, what had been paid when it first read, and whether the
\* wallet has kept its local state of the pool since.
Request == [at: RequestStates, wallet: Accounts \cup {NoWallet},
            before: UInt64, delta: UInt64, own: UInt64, base: Nat, kept: BOOLEAN]

Idle == [at |-> "free", wallet |-> NoWallet, before |-> 0, delta |-> 0,
         own |-> 0, base |-> 0, kept |-> FALSE]

\* A request that has been answered is gone with all it held.
Free(q) == Idle

AuraInit ==
    /\ Init
    /\ request = [r \in Requests |-> Idle]
    /\ auraMembers = {} /\ auraEarned = [u \in Accounts |-> 0]
    /\ paid = [u \in Accounts |-> 0] /\ faults = 0

At(r, state) == request[r].at = state
Wallet(r) == request[r].wallet
Becomes(r, q) == request' = [request EXCEPT ![r] = q]

-----------------------------------------------------------------------------
(* History: what a step of the contract earns and drops. *)

\* Only a repayment both ends a loan and pays into the pool.
PointsPaid(u) ==
    IF loan[u].loan_active = 1 /\ loan'[u].loan_active = 0 /\ pool' # pool
    THEN InterestToAuraPoints(loan[u].interest_due) ELSE 0

Pay == paid' = [u \in Accounts |-> paid[u] + PointsPaid(u)]
WithinBounds == \A u \in Accounts : paid[u] + PointsPaid(u) <= MaxPaid

\* A wallet that clears its local state starts again from nothing.
KeptBy(q) == IF q.wallet \in optedIn \ optedIn' THEN [q EXCEPT !.kept = FALSE] ELSE q

-----------------------------------------------------------------------------
(* repayLoan. *)

Arrive(r, u) ==
    /\ At(r, "free")
    /\ Overlap \/ \A o \in Requests : Wallet(o) # u
    /\ Becomes(r, [Idle EXCEPT !.at = "before", !.wallet = u])
    /\ UNCHANGED <<vars, auraMembers, auraEarned, paid, faults>>

\* getLendingUserState: nothing earned when the wallet is not opted in.
ReadBefore(r) ==
    /\ At(r, "before")
    /\ Becomes(r, [request[r] EXCEPT
            !.at = "submitting", !.before = aura[Wallet(r)].aura_earned,
            !.base = paid[Wallet(r)], !.kept = TRUE])
    /\ UNCHANGED <<vars, auraMembers, auraEarned, paid, faults>>

SubmittedReadingBefore(q) ==
    [q EXCEPT !.at = "after", !.before = aura'[q.wallet].aura_earned,
              !.own = PointsPaid(q.wallet)]
Submitted(q) == [q EXCEPT !.at = "after", !.own = PointsPaid(q.wallet)]

Submit(r, amount) ==
    /\ At(r, "submitting")
    /\ Repay(Wallet(r), amount)
    /\ WithinBounds /\ Pay
    /\ Becomes(r, Submitted(request[r]))
    /\ UNCHANGED <<auraMembers, auraEarned, faults>>

DeltaUnclamped(q) == aura[q.wallet].aura_earned - q.before
DeltaOfWhole(q) == aura[q.wallet].aura_earned
Delta(q) ==
    IF aura[q.wallet].aura_earned > q.before
    THEN aura[q.wallet].aura_earned - q.before ELSE 0

\* Nothing gained, nothing to add.
ReadAfter(r) ==
    /\ At(r, "after")
    /\ Becomes(r, IF Delta(request[r]) = 0 THEN Free(request[r])
                  ELSE [request[r] EXCEPT !.at = "syncing", !.delta = Delta(request[r])])
    /\ UNCHANGED <<vars, auraMembers, auraEarned, paid, faults>>

\* The ledger shows the application the local state of the accounts a call
\* names (external); the backend's call names none.
SyncCall == [accounts |-> {}]
LedgerRuns(call, u) == ResourcesChecked => u \in call.accounts

\* add_repayment_aura of the AURA application.
AddRepaymentAura(u, points) ==
    /\ LedgerRuns(SyncCall, u)
    /\ u \in auraMembers
    /\ Fits(auraEarned[u] + points)
    /\ auraEarned' = [auraEarned EXCEPT ![u] = @ + points]
    /\ UNCHANGED auraMembers

Sync(r) ==
    /\ At(r, "syncing")
    /\ AddRepaymentAura(Wallet(r), request[r].delta)
    /\ Becomes(r, Free(request[r]))
    /\ UNCHANGED <<vars, paid, faults>>

\* The signed group or the call to the AURA application is refused: the route
\* answers with an error, whatever has happened by then.
Refused(r) ==
    /\ request[r].at \in {"submitting", "syncing"}
    /\ Becomes(r, Free(request[r]))
    /\ UNCHANGED <<vars, auraMembers, auraEarned, paid, faults>>

-----------------------------------------------------------------------------
(* Faults. *)

Faulty == faults < MaxFaults /\ faults' = faults + 1

ReadFails(r) ==
    /\ request[r].at \in {"before", "after"}
    /\ Becomes(r, Free(request[r]))
    /\ Faulty /\ UNCHANGED <<vars, auraMembers, auraEarned, paid>>

\* Confirmed, and the backend does not hear of it.
SubmitAnswerLost(r, amount) ==
    /\ At(r, "submitting")
    /\ Repay(Wallet(r), amount)
    /\ WithinBounds /\ Pay
    /\ Becomes(r, Free(request[r]))
    /\ Faulty /\ UNCHANGED <<auraMembers, auraEarned>>

SyncAnswerLost(r) ==
    /\ At(r, "syncing")
    /\ AddRepaymentAura(Wallet(r), request[r].delta)
    /\ Becomes(r, Free(request[r]))
    /\ Faulty /\ UNCHANGED <<vars, paid>>

Restart ==
    /\ \E r \in Requests : ~At(r, "free")
    /\ request' = [r \in Requests |-> Free(request[r])]
    /\ Faulty /\ UNCHANGED <<vars, auraMembers, auraEarned, paid>>

-----------------------------------------------------------------------------
(* The wallets by themselves: on the contract, and on the AURA application. *)

ChainMoves ==
    /\ Next
    /\ WithinBounds /\ Pay
    /\ request' = [r \in Requests |-> KeptBy(request[r])]
    /\ UNCHANGED <<auraMembers, auraEarned, faults>>

AuraOptIn(u) ==
    /\ u \notin auraMembers
    /\ auraMembers' = auraMembers \cup {u}
    /\ auraEarned' = [auraEarned EXCEPT ![u] = 0]
    /\ UNCHANGED <<vars, request, paid, faults>>

AuraClearState(u) ==
    /\ u \in auraMembers
    /\ auraMembers' = auraMembers \ {u}
    /\ auraEarned' = [auraEarned EXCEPT ![u] = 0]
    /\ UNCHANGED <<vars, request, paid, faults>>

AuraNext ==
    \/ \E r \in Requests :
        \/ \E u \in Accounts : Arrive(r, u)
        \/ \E amount \in PaymentAmounts : Submit(r, amount) \/ SubmitAnswerLost(r, amount)
        \/ ReadBefore(r) \/ ReadAfter(r) \/ Sync(r) \/ Refused(r)
        \/ ReadFails(r) \/ SyncAnswerLost(r)
    \/ Restart
    \/ ChainMoves
    \/ \E u \in Accounts : AuraOptIn(u) \/ AuraClearState(u)

AuraSpec == AuraInit /\ [][AuraNext]_allVars

-----------------------------------------------------------------------------
(* Properties. *)

\* The requests and the AURA application keep their shape; a free request holds
\* nothing of a wallet.
AuraTypeOK ==
    /\ request \in [Requests -> Request]
    /\ \A r \in Requests : At(r, "free") = (Wallet(r) = NoWallet)
    /\ auraMembers \subseteq Accounts
    /\ auraEarned \in [Accounts -> UInt64]
    /\ paid \in [Accounts -> Nat]
    /\ faults \in 0 .. MaxFaults

\* README, "How to Earn AURA": a wallet's AURA comes from interest it repaid.
\* The AURA application never counts more than that, whatever the wallet does
\* on the contract between the two reads, and whichever answers are lost.
NotOvercounted == \A u \in Accounts : auraEarned[u] <= paid[u]

\* The difference a request computes holds the points of its own repayment,
\* unless the wallet dropped its local state: they reach the call to the AURA
\* application, or the request fails aloud.
RepaymentReachesSync ==
    [][\A r \in Requests :
        /\ At(r, "after") /\ ~At(r, "after")' /\ UNCHANGED faults
        /\ request[r].kept
        => request'[r].delta >= request[r].own]_allVars
=============================================================================
