------------------------- MODULE DefaultLiquidation -------------------------
(***************************************************************************)
(* The backend's default-liquidation job, running against the AlgoPool     *)
(* contract: a cron firing walks the known wallets, reads each wallet's    *)
(* loan key by key, liquidates what its own clock calls overdue, and sells *)
(* the seized USDC.  Every await is a step of its own, so borrowers, the   *)
(* admin route (a plain LiquidateDefault) and time move in between; calls  *)
(* may be lost before or after they took effect, and the process may       *)
(* restart.                                                                *)
(***************************************************************************)
EXTENDS AlgoPool

CONSTANTS
    Users,            \* the wallets in the User collection, opted in or not
    MinSwapUsdc,      \* TINYMAN_MIN_SWAP_USDC_UNITS
    ResourcesChecked, \* whether the ledger holds a call to what it names
    MaxSkew,          \* how far the backend's clock and the chain's may differ
    MaxFaults         \* bound: lost calls and restarts of a run

NoWallet == "none"

ASSUME JobAssumption ==
    /\ NoWallet \notin Users \cup Accounts
    /\ MinSwapUsdc \in Nat /\ ResourcesChecked \in BOOLEAN
    /\ MaxSkew \in Nat /\ MaxFaults \in Nat

VARIABLES
    running, \* the module's flag against a second run of the job
    job,     \* where the run is, and what it knows of the wallet it is at
    wall,    \* Date.now(), in the chain's unit
    faults   \* faults so far

jobVars == <<running, job, wall, faults>>
allVars == <<vars, jobVars>>

Keys == {"loan_active", "due_ts", "collateral_usdc"}
Unread == [k \in Keys |-> 0]

\* between:   at the head of the loop over the users
\* optedIn, reading, deciding: the steps of reading one wallet's status
\* liquidating, swapping:      a call is out
JobStates == {"idle", "finding", "between", "optedIn", "reading", "deciding",
              "liquidating", "swapping"}

Job == [at: JobStates, todo: SUBSET Users, wallet: Users \cup {NoWallet},
        since: UInt64, toRead: SUBSET Keys, status: [Keys -> UInt64],
        seized: UInt64]

Idle == [at |-> "idle", todo |-> {}, wallet |-> NoWallet, since |-> 0,
         toRead |-> {}, status |-> Unread, seized |-> 0]

\* The head of the loop: what was known of the last wallet is gone.
NextWallet == [Idle EXCEPT !.at = "between", !.todo = job.todo]

JobInit == Init /\ running = FALSE /\ job = Idle /\ wall = 0 /\ faults = 0

\* A step of the job that leaves the chain and the clocks alone.
JobMoves == UNCHANGED <<vars, wall, faults>>

-----------------------------------------------------------------------------
(* What a call must carry for the ledger to run it (external): the account *)
(* and the asset it touches, and a fee that also pays the inner transfer.  *)
(* The backend's calls carry no more than their arguments and one fee.     *)

AdminCall == [accounts |-> {}, assets |-> {}, fees |-> 1]

LedgerRuns(call, u) ==
    ResourcesChecked =>
        /\ u \in call.accounts
        /\ loan[u].collateral_usdc > 0 =>
            "usdc" \in call.assets /\ call.fees >= 2

-----------------------------------------------------------------------------
\* A firing while a run is in progress returns at once.
CronFires ==
    /\ ~running
    /\ running' = TRUE
    /\ job' = [Idle EXCEPT !.at = "finding"]
    /\ JobMoves

FindUsers ==
    /\ job.at = "finding"
    /\ job' = [job EXCEPT !.at = "between", !.todo = Users]
    /\ UNCHANGED running /\ JobMoves

StartWallet(u) ==
    /\ job.at = "between" /\ u \in job.todo
    /\ job' = [job EXCEPT !.at = "optedIn", !.todo = @ \ {u},
                          !.wallet = u, !.since = now]
    /\ UNCHANGED running /\ JobMoves

RunningAfterEndKept == running
RunningAfterEnd == FALSE

EndRun ==
    /\ job.at = "between" /\ job.todo = {}
    /\ running' = RunningAfterEnd
    /\ job' = Idle
    /\ JobMoves

-----------------------------------------------------------------------------
(* One wallet: getLendingUserState, then the decision.                     *)

CheckOptedIn ==
    /\ job.at = "optedIn"
    /\ job' = IF job.wallet \in optedIn
              THEN [job EXCEPT !.at = "reading", !.toRead = Keys]
              ELSE [job EXCEPT !.at = "deciding"]
    /\ UNCHANGED running /\ JobMoves

\* The keys are requested together and answered in any order.
ReadKey(k) ==
    /\ job.at = "reading" /\ k \in job.toRead
    /\ job' = [job EXCEPT
                !.status[k] = loan[job.wallet][k],
                !.toRead = @ \ {k},
                !.at = IF job.toRead = {k} THEN "deciding" ELSE "reading"]
    /\ UNCHANGED running /\ JobMoves

LooksOverdue == job.status["due_ts"] # 0 /\ job.status["due_ts"] < wall

Decide ==
    /\ job.at = "deciding"
    /\ job' = IF job.status["loan_active"] = 1 /\ LooksOverdue
              THEN [job EXCEPT !.at = "liquidating"]
              ELSE NextWallet
    /\ UNCHANGED running /\ JobMoves

AfterLiquidation ==
    IF job.status["collateral_usdc"] >= MinSwapUsdc
    THEN [job EXCEPT !.at = "swapping", !.seized = loan[job.wallet].collateral_usdc]
    ELSE NextWallet

Liquidate ==
    /\ job.at = "liquidating"
    /\ LedgerRuns(AdminCall, job.wallet)
    /\ LiquidateDefault(Creator, job.wallet)
    /\ job' = AfterLiquidation
    /\ UNCHANGED <<running, wall, faults>>

AfterFailureSwap == [job EXCEPT !.at = "swapping"]

\* An error ends the wallet's turn: it is noted and the loop goes on.
AfterFailure == NextWallet

LiquidationRefused ==
    /\ job.at = "liquidating"
    /\ ~(LedgerRuns(AdminCall, job.wallet) /\ Defaulted(job.wallet))
    /\ job' = AfterFailure
    /\ UNCHANGED running /\ JobMoves

\* Sold, skipped by configuration or failed: the job forgets it either way.
SwapCollateral ==
    /\ job.at = "swapping"
    /\ job' = NextWallet
    /\ UNCHANGED running /\ JobMoves

-----------------------------------------------------------------------------
(* Faults. *)

Faulty == faults < MaxFaults /\ faults' = faults + 1

FindUsersFails ==
    /\ job.at = "finding"
    /\ running' = RunningAfterEnd
    /\ job' = Idle
    /\ Faulty /\ UNCHANGED <<vars, wall>>

\* A read or the liquidation call fails without an effect on the chain.
CallFails ==
    /\ job.at \in {"optedIn", "reading", "liquidating"}
    /\ job' = AfterFailure
    /\ Faulty /\ UNCHANGED <<vars, running, wall>>

\* The liquidation is confirmed, and the job does not hear of it in time.
AnswerLost ==
    /\ job.at = "liquidating"
    /\ LedgerRuns(AdminCall, job.wallet)
    /\ LiquidateDefault(Creator, job.wallet)
    /\ job' = AfterFailure
    /\ Faulty /\ UNCHANGED <<running, wall>>

Restart ==
    /\ job # Idle
    /\ running' = FALSE
    /\ job' = Idle
    /\ Faulty /\ UNCHANGED <<vars, wall>>

-----------------------------------------------------------------------------
(* The chain and the clocks.  Reading a wallet's status and sending the    *)
(* call are bounded by request timeouts and by the rounds a transaction    *)
(* stays valid, far less than the shortest loan.                           *)

InFlight == job.at \in {"optedIn", "reading", "deciding", "liquidating"}

ChainMoves ==
    /\ Next
    /\ now' <= wall + MaxSkew
    /\ InFlight => now' < job.since + SecondsPerDay
    /\ UNCHANGED jobVars

WallTick ==
    /\ wall < MaxTime + MaxSkew
    /\ wall' = wall + 1
    /\ wall' <= now + MaxSkew
    /\ UNCHANGED <<vars, running, job, faults>>

JobStep ==
    \/ CronFires \/ FindUsers \/ EndRun
    \/ \E u \in Users : StartWallet(u)
    \/ CheckOptedIn
    \/ \E k \in Keys : ReadKey(k)
    \/ Decide \/ Liquidate \/ LiquidationRefused \/ SwapCollateral

JobFault == FindUsersFails \/ CallFails \/ AnswerLost \/ Restart

JobNext == JobStep \/ JobFault \/ ChainMoves \/ WallTick

\* The cron keeps firing, every request is answered or times out, and the
\* backend's clock follows the chain's.
JobSpec ==
    /\ JobInit /\ [][JobNext]_allVars
    /\ WF_allVars(JobStep) /\ WF_allVars(WallTick)

-----------------------------------------------------------------------------
(* Properties. *)

\* The job's own state: the flag is up exactly while a run is under way.
JobTypeOK ==
    /\ job \in Job
    /\ running \in BOOLEAN /\ running = (job # Idle)
    /\ wall \in Nat /\ faults \in 0 .. MaxFaults

\* The amount the job sells was read key by key before the liquidation; it is
\* what the liquidation seized, whatever the borrower, the admin route and
\* the clocks did between the reads and the call.
SwapsWhatWasSeized ==
    job.at = "swapping" => job.status["collateral_usdc"] = job.seized

\* README, "Automated Liquidation": the overdue loan of a known wallet does
\* not stay open, in spite of lost calls, restarts, refusals and clock skew.
OverdueLiquidated ==
    \A u \in Users \cap Accounts :
        (loan[u].loan_active = 1 /\ now > loan[u].due_ts)
            ~> loan[u].loan_active = 0
=============================================================================
