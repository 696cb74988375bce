----------------------- MODULE DefaultLiquidationProofs -----------------------
(***************************************************************************)
(* Theorems about the liquidation job, for every set of wallets, every     *)
(* swap minimum, clock skew and number of faults.                          *)
(***************************************************************************)
EXTENDS DefaultLiquidation, AlgoPoolProofs

-----------------------------------------------------------------------------
(* The job and its faults move the chain only by calls of the contract.    *)

\* A liquidation the job has confirmed is a step of the contract.
LEMMA LiquidationIsACall ==
    ASSUME TypeOK, LiquidateDefault(Creator, job.wallet)
    PROVE  Next /\ job.wallet \in Accounts
  <1>1. job.wallet \in Accounts
    BY DEF LiquidateDefault, Defaulted, TypeOK
  <1> QED
    BY <1>1 DEF Next

\* Every step of the job, its faults and clocks is a step of the contract or none.
LEMMA JobStepIsACall ==
    ASSUME TypeOK, [JobNext]_allVars
    PROVE  [Next]_vars
  <1>1. CASE UNCHANGED allVars
    BY <1>1 DEF allVars
  <1>2. CASE Liquidate \/ AnswerLost
    BY <1>2, LiquidationIsACall DEF Liquidate, AnswerLost
  <1>3. CASE JobStep /\ ~Liquidate
    BY <1>3 DEF JobStep, JobMoves, CronFires, FindUsers, EndRun, StartWallet,
                CheckOptedIn, ReadKey, Decide, LiquidationRefused, SwapCollateral
  <1>4. CASE JobFault /\ ~AnswerLost
    BY <1>4 DEF JobFault, FindUsersFails, CallFails, Restart
  <1>5. CASE ChainMoves \/ WallTick
    BY <1>5 DEF ChainMoves, WallTick
  <1> QED
    BY <1>1, <1>2, <1>3, <1>4, <1>5 DEF JobNext

\* The job drives the contract by legal calls only, at any moment and after
\* any fault, so what is proved of the contract holds beside the job.
THEOREM JobUsesContract == JobSpec => Spec
  <1>1. JobInit => Init /\ TypeOK
    BY InitTyped DEF JobInit
  <1>2. TypeOK /\ [JobNext]_allVars => TypeOK' /\ [Next]_vars
    BY JobStepIsACall, NextTyped
  <1> QED
    BY <1>1, <1>2, PTL DEF JobSpec, Spec

-----------------------------------------------------------------------------
(* What the job knows.  What it has read of a wallet may be out of date,   *)
(* but not of a loan that is due within a day of the first read: a loan    *)
(* granted after that read is due later, and a loan's terms never change.  *)

DueSoon(l) == l.loan_active = 1 /\ l.due_ts < job.since + SecondsPerDay

Known ==
    /\ job.wallet \in Accounts
    /\ DueSoon(loan[job.wallet]) =>
           \A k \in Keys \ job.toRead : job.status[k] = loan[job.wallet][k]

NothingRead == job.status = Unread /\ job.toRead = {}

JobInv ==
    /\ Inv
    /\ JobTypeOK
    /\ InFlight => job.since <= now /\ now <= job.since + SecondsPerDay
    /\ job.at \in {"finding", "between", "optedIn"} => NothingRead
    /\ job.at = "reading" => Known
    /\ job.at = "deciding" => NothingRead \/ (Known /\ job.toRead = {})
    /\ job.at = "liquidating" => Known /\ job.toRead = {}
    /\ SwapsWhatWasSeized

\* One step leaves an account's loan as it is, or ends it, or opens one that
\* is due at least a day later.
LEMMA OpenLoanDueLater ==
    ASSUME TypeOK, NEW u \in Accounts, NEW type, NEW a, NEW d \in Nat, NEW c,
           d > 0, OpenLoan(u, LoanTerms(type, a, d, c)), NEW v \in Accounts
    PROVE  loan'[v] = loan[v] \/ loan'[v].due_ts >= now + SecondsPerDay
  <1>1. d * SecondsPerDay >= SecondsPerDay
    <2>1. ASSUME NEW n \in Nat, NEW s \in Nat, n > 0 PROVE n * s >= s
      BY <2>1, SMT
    <2> QED
      BY <2>1, AlgoPoolAssumption
  <1>2. d * SecondsPerDay \in Nat /\ now \in Nat
    BY ProductIsNat, AlgoPoolAssumption DEF TypeOK, UInt64
  <1> DEFINE due == now + d * SecondsPerDay
  <1>3. due >= now + SecondsPerDay
    BY <1>1, <1>2, AlgoPoolAssumption
  <1>4. LoanTerms(type, a, d, c).due_ts = due
    BY DEF LoanTerms
  <1>5. loan' = [loan EXCEPT ![u] = LoanTerms(type, a, d, c)]
    BY DEF OpenLoan
  <1> HIDE DEF due
  <1> QED
    BY <1>3, <1>4, <1>5 DEF TypeOK

\* Every step leaves a loan as it is, ends it, or opens one due a day later or more.
LEMMA LoanStep ==
    ASSUME TypeOK, [Next]_vars, NEW v \in Accounts
    PROVE  \/ loan'[v] = loan[v]
           \/ loan'[v] = NoLoan
           \/ loan'[v].due_ts >= now + SecondsPerDay
  <1> DEFINE P == \/ loan'[v] = loan[v]
                  \/ loan'[v] = NoLoan
                  \/ loan'[v].due_ts >= now + SecondsPerDay
  <1>1. CASE UNCHANGED vars \/ Tick \/ NewGroup
    BY <1>1 DEF vars, Tick, NewGroup, localVars
  <1>2. CASE \E a \in PaymentAmounts : Fund(a)
    BY <1>2 DEF Fund, localVars
  <1>3. ASSUME NEW sender \in Accounts \cup {Creator},
               \/ AppOptInUsdc(sender)
               \/ \E a \in PaymentAmounts : AdminAddPoolLiquidity(sender, a)
               \/ \E u \in Accounts : LiquidateDefault(sender, u)
        PROVE  P
    BY <1>3 DEF AppOptInUsdc, AdminAddPoolLiquidity, LiquidateDefault, Closed,
                localVars, TypeOK
  <1>4. ASSUME NEW u \in Accounts, OptIn(u) \/ ClearState(u)
        PROVE  P
    BY <1>4 DEF OptIn, ClearState, TypeOK
  <1>5. ASSUME NEW u \in Accounts, NEW a \in PaymentAmounts, Deposit(u, a) \/ Repay(u, a)
        PROVE  P
    BY <1>5 DEF Deposit, Repay, Closed, TypeOK
  <1>6. ASSUME NEW u \in Accounts, NEW s \in ShareAmounts, Withdraw(u, s)
        PROVE  P
    BY <1>6 DEF Withdraw
  <1>7. ASSUME NEW u \in Accounts, NEW a \in LoanAmounts, NEW d \in LoanDays,
               \/ RequestUnsecuredLoan(u, a, d)
               \/ \E m, c \in UsdcAmounts : RequestCollateralLoan(u, a, d, m, c)
        PROVE  P
    <2>1. d \in Nat /\ d > 0
      BY <1>7, AlgoPoolAssumption
         DEF RequestUnsecuredLoan, RequestCollateralLoan, CanBorrow
    <2> QED
      BY <1>7, <2>1, OpenLoanDueLater DEF RequestUnsecuredLoan, RequestCollateralLoan
  <1> QED
    BY <1>1, <1>2, <1>3, <1>4, <1>5, <1>6, <1>7 DEF Next

\* Time never runs back.
LEMMA NowNeverFalls ==
    ASSUME TypeOK, [Next]_vars
    PROVE  now <= now'
  <1>1. now \in Nat
    BY AlgoPoolAssumption DEF TypeOK, UInt64
  <1>2. now' = now \/ now' = now + 1
    BY DEF Next, vars, Tick, NewGroup, Fund, AppOptInUsdc, AdminAddPoolLiquidity,
           LiquidateDefault, OptIn, ClearState, Deposit, Repay, Withdraw,
           RequestUnsecuredLoan, RequestCollateralLoan, OpenLoan
  <1> QED
    BY <1>1, <1>2

\* A key of a loan record is a 64-bit number.
LEMMA KeyTyped ==
    ASSUME NEW l \in Loan, NEW k \in Keys
    PROVE  l[k] \in UInt64
  <1>1. CASE k = "loan_active"
    <2>1. l.loan_active \in {0, 1}
      BY DEF Loan
    <2> QED
      BY <1>1, <2>1, AlgoPoolAssumption DEF UInt64
  <1>2. CASE k = "due_ts"
    BY <1>2 DEF Loan
  <1>3. CASE k = "collateral_usdc"
    BY <1>3 DEF Loan
  <1> QED
    BY <1>1, <1>2, <1>3 DEF Keys

\* The status of a wallet not read yet is of its type.
LEMMA UnreadTyped == Unread \in [Keys -> UInt64]
  BY AlgoPoolAssumption DEF Unread, UInt64

\* The job between two runs is of its type.
LEMMA IdleTyped == Idle \in Job
  BY UnreadTyped, AlgoPoolAssumption DEF Idle, Job, JobStates, UInt64

\* The job's invariant holds at start-up.
LEMMA InitJobInv == JobInit => JobInv
  <1> SUFFICES ASSUME JobInit PROVE JobInv
    OBVIOUS
  <1>1. Inv
    BY InitInv DEF JobInit
  <1>2. Idle \in Job
    BY IdleTyped
  <1>3. JobTypeOK
    <2>1. running \in BOOLEAN /\ running = (job # Idle)
      BY DEF JobInit
    <2>2. wall \in Nat /\ faults \in 0 .. MaxFaults
      BY JobAssumption DEF JobInit
    <2> QED
      BY <1>2, <2>1, <2>2 DEF JobInit, JobTypeOK
  <1> QED
    BY <1>1, <1>2, <1>3 DEF JobInit, JobInv, Idle, InFlight, SwapsWhatWasSeized

\* The contract's moves: what is known of the wallet stays known.
LEMMA ChainKeepsJobInv ==
    ASSUME JobInv, ChainMoves
    PROVE  JobInv'
  <1>1. Inv' /\ TypeOK /\ [Next]_vars
    BY NextInv DEF JobInv, ChainMoves, Inv
  <1>2. UNCHANGED <<running, job, wall, faults>>
    BY DEF ChainMoves, jobVars
  <1>3. JobTypeOK'
    BY <1>2 DEF JobInv, JobTypeOK
  <1>4. now \in Nat /\ now' \in Nat /\ now <= now'
    <2>1. now \in Nat /\ now' \in Nat
      BY <1>1, AlgoPoolAssumption DEF Inv, TypeOK, UInt64
    <2> QED
      BY <1>1, <2>1, NowNeverFalls
  <1>5. job.since \in Nat
    BY AlgoPoolAssumption DEF JobInv, JobTypeOK, Job, UInt64
  <1>6. ASSUME InFlight' PROVE (job.since <= now /\ now <= job.since + SecondsPerDay)'
    BY <1>2, <1>4, <1>5, <1>6, AlgoPoolAssumption DEF JobInv, InFlight, ChainMoves
  <1>7. ASSUME Known, job.since <= now PROVE Known'
    <2> DEFINE v == job.wallet
    <2>1. v \in Accounts /\ v' = v
      BY <1>2, <1>7 DEF Known
    <2>2. CASE loan'[v] = loan[v]
      BY <1>2, <1>7, <2>1, <2>2 DEF Known, DueSoon
    <2>3. CASE loan'[v] = NoLoan
      BY <1>2, <2>1, <2>3 DEF Known, DueSoon, NoLoan
    <2>4. CASE loan'[v].due_ts >= now + SecondsPerDay
      <3>1. loan'[v].due_ts \in Nat
        BY <1>1, <2>1, AlgoPoolAssumption DEF Inv, TypeOK, Loan, UInt64
      <3> QED
        BY <1>2, <1>4, <1>5, <1>7, <2>1, <2>4, <3>1, AlgoPoolAssumption
           DEF Known, DueSoon
    <2> QED
      BY <1>1, <2>1, <2>2, <2>3, <2>4, LoanStep
  <1> QED
    BY <1>1, <1>2, <1>3, <1>6, <1>7
       DEF JobInv, InFlight, NothingRead, SwapsWhatWasSeized

-----------------------------------------------------------------------------
(* The job's own moves. *)

\* The head of the loop satisfies what is asked of it.
LEMMA NextWalletJobInv ==
    ASSUME JobInv, Inv', job # Idle, job' = NextWallet, UNCHANGED <<running, wall>>,
           faults' \in 0 .. MaxFaults
    PROVE  JobInv'
  <1>1. job.todo \subseteq Users
    BY DEF JobInv, JobTypeOK, Job
  <1>2. NextWallet \in Job /\ NextWallet.at = "between"
    BY <1>1, IdleTyped DEF NextWallet, Job, JobStates
  <1>3. NextWallet # Idle
    BY <1>2 DEF Idle
  <1>4. running' = (job' # Idle) /\ running' \in BOOLEAN
    BY <1>3 DEF JobInv, JobTypeOK
  <1>5. JobTypeOK'
    BY <1>2, <1>4 DEF JobInv, JobTypeOK
  <1> QED
    BY <1>2, <1>5
       DEF JobInv, NextWallet, Idle, NothingRead, InFlight, SwapsWhatWasSeized

\* So does a run that ends, however it ends.
LEMMA EndedJobInv ==
    ASSUME JobInv, Inv', job' = Idle, running' = FALSE, UNCHANGED wall,
           faults' \in 0 .. MaxFaults
    PROVE  JobInv'
  <1>1. Idle \in Job
    BY IdleTyped
  <1>2. JobTypeOK'
    BY <1>1 DEF JobInv, JobTypeOK
  <1> QED
    BY <1>1, <1>2 DEF JobInv, Idle, NothingRead, InFlight, SwapsWhatWasSeized

\* A move of a run that is under way, and leaves the chain and clocks alone.
LEMMA MovedJobTypeOK ==
    ASSUME JobInv, job # Idle, job' \in Job, job'.at # "idle",
           UNCHANGED <<running, wall, faults>>
    PROVE  JobTypeOK'
  <1>1. job' # Idle
    BY DEF Idle
  <1>2. running' = (job' # Idle) /\ running' \in BOOLEAN
    BY <1>1 DEF JobInv, JobTypeOK
  <1> QED
    BY <1>2 DEF JobInv, JobTypeOK

\* A fault stays within the bound.
LEMMA FaultCounted ==
    ASSUME JobInv, Faulty PROVE faults' \in 0 .. MaxFaults
  BY JobAssumption DEF JobInv, JobTypeOK, Faulty

\* A step that leaves the contract alone keeps the contract's invariant.
LEMMA ChainUntouched ==
    ASSUME Inv, UNCHANGED vars PROVE Inv'
  BY NextInv

\* A firing starts a run that knows nothing.
LEMMA CronFiresJobInv ==
    ASSUME JobInv, CronFires PROVE JobInv'
  <1>1. Inv'
    BY ChainUntouched DEF JobInv, CronFires, JobMoves
  <1>2. job' = [Idle EXCEPT !.at = "finding"] /\ job' # Idle
    BY DEF CronFires, Idle
  <1>3. job' \in Job
    BY <1>2, UnreadTyped, AlgoPoolAssumption DEF Idle, Job, JobStates, UInt64
  <1>4. JobTypeOK'
    BY <1>2, <1>3 DEF JobInv, CronFires, JobMoves, JobTypeOK
  <1> QED
    BY <1>1, <1>2, <1>4 DEF JobInv, Idle, NothingRead, InFlight, SwapsWhatWasSeized

\* The list of wallets arrives.
LEMMA FindUsersJobInv ==
    ASSUME JobInv, FindUsers PROVE JobInv'
  <1>1. Inv'
    BY ChainUntouched DEF JobInv, FindUsers, JobMoves
  <1>2. job \in Job /\ job # Idle
    BY DEF FindUsers, Idle, JobInv, JobTypeOK
  <1>3. job' \in Job /\ job'.at = "between" /\ job'.status = job.status
        /\ job'.toRead = job.toRead
    BY <1>2 DEF FindUsers, Job, JobStates
  <1>4. JobTypeOK'
    BY <1>2, <1>3, MovedJobTypeOK DEF FindUsers, JobMoves
  <1> QED
    BY <1>1, <1>3, <1>4
       DEF JobInv, FindUsers, NothingRead, InFlight, SwapsWhatWasSeized

\* A wallet's turn starts with nothing read of it.
LEMMA StartWalletJobInv ==
    ASSUME JobInv, NEW u \in Users, StartWallet(u) PROVE JobInv'
  <1>1. Inv'
    BY ChainUntouched DEF JobInv, StartWallet, JobMoves
  <1>2. job \in Job /\ job # Idle
    BY DEF StartWallet, Idle, JobInv, JobTypeOK
  <1>3. now \in UInt64 /\ now' = now
    BY DEF JobInv, Inv, TypeOK, StartWallet, JobMoves, vars
  <1>4. job' \in Job /\ job'.at = "optedIn" /\ job'.status = job.status
        /\ job'.toRead = job.toRead /\ job'.since = now
    BY <1>2, <1>3 DEF StartWallet, Job, JobStates
  <1>5. JobTypeOK'
    BY <1>2, <1>4, MovedJobTypeOK DEF StartWallet, JobMoves
  <1>6. (job.since <= now /\ now <= job.since + SecondsPerDay)'
    BY <1>3, <1>4, AlgoPoolAssumption DEF UInt64
  <1> QED
    BY <1>1, <1>4, <1>5, <1>6
       DEF JobInv, StartWallet, NothingRead, InFlight, SwapsWhatWasSeized

\* Only an account with local state has its keys read.
LEMMA CheckOptedInJobInv ==
    ASSUME JobInv, CheckOptedIn PROVE JobInv'
  <1>1. Inv' /\ UNCHANGED vars
    BY ChainUntouched DEF JobInv, CheckOptedIn, JobMoves
  <1>2. job \in Job /\ job # Idle /\ NothingRead
    BY DEF CheckOptedIn, Idle, JobInv, JobTypeOK
  <1>3. (job.since <= now /\ now <= job.since + SecondsPerDay)'
    BY <1>1 DEF JobInv, CheckOptedIn, InFlight, vars
  <1>4. CASE job.wallet \in optedIn
    <2>1. job' \in Job /\ job'.at = "reading" /\ job'.toRead = Keys
          /\ job'.wallet = job.wallet
      BY <1>2, <1>4 DEF CheckOptedIn, Job, JobStates
    <2>2. JobTypeOK'
      BY <1>2, <2>1, MovedJobTypeOK DEF CheckOptedIn, JobMoves
    <2>3. Known'
      BY <1>4, <2>1 DEF Known, JobInv, Inv, TypeOK
    <2> QED
      BY <1>1, <1>3, <2>1, <2>2, <2>3 DEF JobInv, SwapsWhatWasSeized
  <1>5. CASE job.wallet \notin optedIn
    <2>1. job' \in Job /\ job'.at = "deciding" /\ NothingRead'
      BY <1>2, <1>5 DEF CheckOptedIn, Job, JobStates, NothingRead
    <2>2. JobTypeOK'
      BY <1>2, <2>1, MovedJobTypeOK DEF CheckOptedIn, JobMoves
    <2> QED
      BY <1>1, <1>3, <2>1, <2>2 DEF JobInv, SwapsWhatWasSeized
  <1> QED
    BY <1>4, <1>5

\* An answer that arrives is what the chain holds now.
LEMMA ReadKeyJobInv ==
    ASSUME JobInv, NEW k \in Keys, ReadKey(k) PROVE JobInv'
  <1>1. Inv' /\ UNCHANGED <<vars, loan, now>>
    BY ChainUntouched DEF JobInv, ReadKey, JobMoves, vars
  <1>2. job \in Job /\ job # Idle /\ job.at = "reading" /\ Known
    BY DEF ReadKey, Idle, JobInv, JobTypeOK
  <1>3. loan[job.wallet] \in Loan
    BY <1>2 DEF JobInv, Inv, TypeOK, Known
  <1>4. loan[job.wallet][k] \in UInt64
    BY <1>3, KeyTyped
  <1>5. /\ job'.status = [job.status EXCEPT ![k] = loan[job.wallet][k]]
        /\ job'.toRead = job.toRead \ {k}
        /\ job'.at = IF job.toRead = {k} THEN "deciding" ELSE "reading"
        /\ job'.wallet = job.wallet /\ job'.since = job.since
        /\ job'.todo = job.todo /\ job'.seized = job.seized
    BY <1>2 DEF ReadKey, Job
  <1>6. job.status \in [Keys -> UInt64] /\ job.toRead \subseteq Keys
    BY <1>2 DEF Job
  <1>7. job'.status \in [Keys -> UInt64]
    BY <1>4, <1>5, <1>6
  <1>8. job' \in Job
    <2>1. job' = [at |-> job'.at, todo |-> job.todo, wallet |-> job.wallet,
                  since |-> job.since, toRead |-> job'.toRead,
                  status |-> job'.status, seized |-> job.seized]
      BY <1>2 DEF ReadKey, Job
    <2>2. job'.at \in JobStates /\ job'.toRead \subseteq Keys
      BY <1>5, <1>6 DEF JobStates
    <2> QED
      BY <1>2, <1>7, <2>1, <2>2 DEF Job
  <1>9. JobTypeOK'
    BY <1>2, <1>5, <1>8, MovedJobTypeOK DEF ReadKey, JobMoves
  <1>10. Known'
    <2>1. DueSoon(loan[job.wallet])' <=> DueSoon(loan[job.wallet])
      BY <1>1, <1>5 DEF DueSoon
    <2>2. ASSUME DueSoon(loan[job.wallet]), NEW j \in Keys \ job'.toRead
          PROVE  job'.status[j] = loan[job.wallet][j]
      <3>1. CASE j = k
        BY <1>5, <1>6, <3>1
      <3>2. CASE j # k
        BY <1>2, <1>5, <1>6, <2>2, <3>2 DEF Known
      <3> QED
        BY <3>1, <3>2
    <2> QED
      BY <1>1, <1>2, <1>5, <2>1, <2>2 DEF Known
  <1>11. job'.at = "deciding" => job'.toRead = {}
    BY <1>5
  <1>12. (job.since <= now /\ now <= job.since + SecondsPerDay)'
    BY <1>1, <1>2, <1>5 DEF JobInv, InFlight
  <1>13. job'.at \in {"deciding", "reading"}
    BY <1>5
  <1> QED
    BY <1>1, <1>9, <1>10, <1>11, <1>12, <1>13 DEF JobInv, SwapsWhatWasSeized

\* A decision to liquidate rests on a loan that was read.
LEMMA DecideJobInv ==
    ASSUME JobInv, Decide PROVE JobInv'
  <1>1. Inv' /\ UNCHANGED <<vars, loan, now, running, wall, faults>>
    BY ChainUntouched DEF JobInv, Decide, JobMoves, vars
  <1>2. job \in Job /\ job # Idle
    BY DEF Decide, Idle, JobInv, JobTypeOK
  <1>3. CASE job.status["loan_active"] = 1 /\ LooksOverdue
    <2>1. ~NothingRead
      BY <1>3 DEF NothingRead, Unread, Keys
    <2>2. Known /\ job.toRead = {}
      BY <2>1 DEF JobInv, Decide
    <2>3. job' = [job EXCEPT !.at = "liquidating"]
      BY <1>3 DEF Decide
    <2>4. job' \in Job /\ job'.at = "liquidating"
      BY <1>2, <2>3 DEF Job, JobStates
    <2>5. /\ job'.wallet = job.wallet /\ job'.since = job.since
          /\ job'.status = job.status /\ job'.toRead = job.toRead
      BY <1>2, <2>3 DEF Job
    <2>6. JobTypeOK'
      BY <1>1, <1>2, <2>4, MovedJobTypeOK
    <2>7. Known' /\ job'.toRead = {}
      BY <1>1, <2>2, <2>5 DEF Known, DueSoon
    <2>8. (job.since <= now /\ now <= job.since + SecondsPerDay)'
      BY <1>1, <2>5 DEF JobInv, InFlight, Decide
    <2> QED
      BY <1>1, <2>4, <2>6, <2>7, <2>8 DEF JobInv, SwapsWhatWasSeized
  <1>4. CASE ~(job.status["loan_active"] = 1 /\ LooksOverdue)
    <2>1. job' = NextWallet
      BY <1>4 DEF Decide
    <2> QED
      BY <1>1, <1>2, <2>1, NextWalletJobInv DEF JobInv, JobTypeOK
  <1> QED
    BY <1>3, <1>4

\* The loan a liquidation ends was due when the job read it, so the collateral
\* the job read is the collateral it seized.
LEMMA LiquidatedWasKnown ==
    ASSUME JobInv, job.at = "liquidating", LiquidateDefault(Creator, job.wallet)
    PROVE  /\ job.wallet \in Accounts
           /\ job.status["collateral_usdc"] = loan[job.wallet].collateral_usdc
           /\ loan[job.wallet].collateral_usdc \in UInt64
  <1> DEFINE l == loan[job.wallet]
  <1>1. Known /\ job.toRead = {}
    BY DEF JobInv
  <1>2. job.wallet \in Accounts /\ l \in Loan
    BY <1>1 DEF Known, JobInv, Inv, TypeOK
  <1>3. l.loan_active = 1 /\ l.due_ts < now
    BY <1>2, AlgoPoolAssumption
       DEF LiquidateDefault, Defaulted, Overdue, JobInv, Inv, TypeOK, Loan, UInt64
  <1>4. now <= job.since + SecondsPerDay
    BY DEF JobInv, InFlight
  <1>5. job.since \in Nat /\ now \in Nat /\ l.due_ts \in Nat
    BY <1>2, AlgoPoolAssumption DEF JobInv, JobTypeOK, Job, Inv, TypeOK, Loan, UInt64
  <1>6. DueSoon(l)
    BY <1>3, <1>4, <1>5, AlgoPoolAssumption DEF DueSoon
  <1>7. "collateral_usdc" \in Keys \ job.toRead
    BY <1>1 DEF Keys
  <1>8. job.status["collateral_usdc"] = l["collateral_usdc"]
    BY <1>1, <1>6, <1>7 DEF Known
  <1> QED
    BY <1>2, <1>8 DEF Loan

\* A confirmed liquidation: what it seized is what was read.
LEMMA LiquidateJobInv ==
    ASSUME JobInv, Liquidate PROVE JobInv'
  <1> DEFINE usdc == loan[job.wallet].collateral_usdc
  <1>1. LiquidateDefault(Creator, job.wallet) /\ job.at = "liquidating"
    BY DEF Liquidate
  <1>2. usdc \in UInt64 /\ job.status["collateral_usdc"] = usdc
    BY <1>1, LiquidatedWasKnown
  <1>3. Inv'
    BY <1>1, LiquidationIsACall, NextInv DEF JobInv, Inv
  <1>4. job \in Job /\ job # Idle
    BY <1>1 DEF Idle, JobInv, JobTypeOK
  <1>5. UNCHANGED <<running, wall, faults>> /\ job' = AfterLiquidation
    BY DEF Liquidate
  <1>6. CASE job.status["collateral_usdc"] >= MinSwapUsdc
    <2>1. job' = [job EXCEPT !.at = "swapping", !.seized = usdc]
      BY <1>5, <1>6 DEF AfterLiquidation
    <2>2. job' \in Job /\ job'.at = "swapping"
      BY <1>2, <1>4, <2>1 DEF Job, JobStates
    <2>3. job'.seized = usdc /\ job'.status = job.status
      BY <1>4, <2>1 DEF Job
    <2>4. JobTypeOK'
      BY <1>4, <1>5, <2>2, MovedJobTypeOK
    <2> QED
      BY <1>2, <1>3, <2>2, <2>3, <2>4 DEF JobInv, InFlight, SwapsWhatWasSeized
  <1>7. CASE ~(job.status["collateral_usdc"] >= MinSwapUsdc)
    <2>1. job' = NextWallet
      BY <1>5, <1>7 DEF AfterLiquidation
    <2> QED
      BY <1>3, <1>4, <1>5, <2>1, NextWalletJobInv DEF JobInv, JobTypeOK
  <1> QED
    BY <1>6, <1>7

\* The moves that give a wallet up: the call is refused or fails, its answer is
\* lost, or the swap is over.
LEMMA GivenUpJobInv ==
    ASSUME JobInv, LiquidationRefused \/ SwapCollateral \/ CallFails \/ AnswerLost
    PROVE  JobInv'
  <1>1. Inv'
    <2>1. CASE AnswerLost
      BY <2>1, LiquidationIsACall, NextInv DEF JobInv, Inv, AnswerLost
    <2>2. CASE LiquidationRefused \/ SwapCollateral \/ CallFails
      BY <2>2, ChainUntouched
         DEF JobInv, LiquidationRefused, SwapCollateral, CallFails, JobMoves
    <2> QED
      BY <2>1, <2>2
  <1>2. job' = NextWallet /\ UNCHANGED <<running, wall>>
    BY DEF LiquidationRefused, SwapCollateral, CallFails, AnswerLost,
           AfterFailure, JobMoves
  <1>3. job # Idle
    BY DEF LiquidationRefused, SwapCollateral, CallFails, AnswerLost, Idle
  <1>4. faults' \in 0 .. MaxFaults
    BY FaultCounted DEF LiquidationRefused, SwapCollateral, CallFails, AnswerLost,
                        JobMoves, JobInv, JobTypeOK
  <1> QED
    BY <1>1, <1>2, <1>3, <1>4, NextWalletJobInv

\* The ways a run ends.
LEMMA EndOfRunJobInv ==
    ASSUME JobInv, EndRun \/ FindUsersFails \/ Restart
    PROVE  JobInv'
  <1>1. Inv'
    BY ChainUntouched DEF JobInv, EndRun, FindUsersFails, Restart, JobMoves
  <1>2. job' = Idle /\ running' = FALSE /\ UNCHANGED wall
    BY DEF EndRun, FindUsersFails, Restart, RunningAfterEnd, JobMoves
  <1>3. faults' \in 0 .. MaxFaults
    BY FaultCounted DEF EndRun, FindUsersFails, Restart, JobMoves, JobInv, JobTypeOK
  <1> QED
    BY <1>1, <1>2, <1>3, EndedJobInv

\* Moves of nothing but the backend's clock.
LEMMA ClockJobInv ==
    ASSUME JobInv, UNCHANGED <<vars, running, job, faults>>, wall' \in Nat
    PROVE  JobInv'
  <1>1. Inv' /\ UNCHANGED <<loan, now>>
    BY ChainUntouched DEF JobInv, vars
  <1>2. JobTypeOK'
    BY DEF JobInv, JobTypeOK
  <1> QED
    BY <1>1, <1>2
       DEF JobInv, InFlight, NothingRead, Known, DueSoon, SwapsWhatWasSeized

\* Every step keeps the job's invariant.
LEMMA NextJobInv == JobInv /\ [JobNext]_allVars => JobInv'
  <1> SUFFICES ASSUME JobInv, [JobNext]_allVars PROVE JobInv'
    OBVIOUS
  <1>1. wall \in Nat
    BY DEF JobInv, JobTypeOK
  <1>2. CASE UNCHANGED allVars
    BY <1>1, <1>2, ClockJobInv DEF allVars, jobVars
  <1>3. CASE WallTick
    BY <1>1, <1>3, ClockJobInv DEF WallTick
  <1>4. CASE ChainMoves
    BY <1>4, ChainKeepsJobInv
  <1>5. CASE JobFault
    BY <1>5, EndOfRunJobInv, GivenUpJobInv DEF JobFault
  <1>6. CASE JobStep
    BY <1>6, CronFiresJobInv, FindUsersJobInv, EndOfRunJobInv, StartWalletJobInv,
       CheckOptedInJobInv, ReadKeyJobInv, DecideJobInv, LiquidateJobInv,
       GivenUpJobInv DEF JobStep
  <1> QED
    BY <1>2, <1>3, <1>4, <1>5, <1>6 DEF JobNext

\* The job's invariant is an invariant.
LEMMA JobInvHolds == JobSpec => []JobInv
  BY InitJobInv, NextJobInv, PTL DEF JobSpec

\* The job's state has its types and its flag is up exactly during a run, so a
\* second run never starts beside the first and no error leaves the flag up.
THEOREM JobTypeCorrect == JobSpec => []JobTypeOK
  <1>1. JobInv => JobTypeOK
    BY DEF JobInv
  <1> QED
    BY <1>1, JobInvHolds, PTL

\* The USDC the job sells is the USDC its liquidation seized, although it was
\* read before the liquidation and the borrower and the admin kept moving.
THEOREM SwapsWhatWasSeizedHolds == JobSpec => []SwapsWhatWasSeized
  <1>1. JobInv => SwapsWhatWasSeized
    BY DEF JobInv
  <1> QED
    BY <1>1, JobInvHolds, PTL
=============================================================================
