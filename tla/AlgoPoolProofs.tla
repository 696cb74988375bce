--------------------------- MODULE AlgoPoolProofs ---------------------------
(***************************************************************************)
(* Theorems about AlgoPool for every value of its constants.               *)
(***************************************************************************)
EXTENDS AlgoPool, FiniteSetTheorems, TLAPS

USE DEF groupVars

-----------------------------------------------------------------------------
(* Arithmetic. *)

\* Integer division of naturals stays natural and rounds down.
LEMMA DivRoundsDown ==
    ASSUME NEW a \in Nat, NEW b \in Nat \ {0}
    PROVE  /\ a \div b \in Nat
           /\ (a \div b) * b <= a
  BY SMT

\* A product of naturals is a natural.
LEMMA ProductIsNat ==
    ASSUME NEW a \in Nat, NEW b \in Nat
    PROVE  a * b \in Nat
  BY SMT

\* The interest of a loan is a natural number.
LEMMA InterestIsNat ==
    ASSUME NEW amount \in Nat, NEW days \in Nat
    PROVE  Interest(amount, days) \in Nat
  <1>1. amount * DailyInterestBps \in Nat
    BY AlgoPoolAssumption, ProductIsNat
  <1>2. PerDayInterest(amount) \in Nat
    BY <1>1, AlgoPoolAssumption, DivRoundsDown DEF PerDayInterest
  <1> QED
    BY <1>2, ProductIsNat DEF Interest

\* AURA points for interest are a natural number.
LEMMA PointsAreNat ==
    ASSUME NEW interest \in Nat
    PROVE  InterestToAuraPoints(interest) \in Nat
  BY AlgoPoolAssumption, DivRoundsDown DEF InterestToAuraPoints

\* The shares minted for a deposit are a natural number.
LEMMA SharesMintedIsNat ==
    ASSUME TypeOK, NEW amount \in Nat
    PROVE  SharesMinted(amount) \in Nat
  <1>1. pool \in Nat /\ total_shares \in Nat
    BY AlgoPoolAssumption DEF TypeOK, UInt64
  <1>2. amount * total_shares \in Nat
    BY <1>1, ProductIsNat
  <1> QED
    BY <1>1, <1>2, DivRoundsDown DEF SharesMinted

-----------------------------------------------------------------------------
(* Naming a payment.  Whether it is new or named again, the contract is told *)
(* of its amount, and either the account or the history grows by it.         *)

\* A payment of ALGO.
LEMMA NamedPayment ==
    ASSUME TypeOK, NEW u \in Accounts \cup {Creator}, NEW a \in Nat, NamesPayment(u, a)
    PROVE  /\ appAlgo' \in UInt64 /\ algoAgain' \in 0 .. MaxAgain
           /\ usdcAgain' = usdcAgain /\ named' \subseteq Payments
           /\ appAlgo' + algoAgain' = appAlgo + algoAgain + a
  <1>1. /\ appAlgo \in Nat /\ algoAgain \in Nat /\ MaxUInt \in Nat /\ MaxAgain \in Nat
        /\ MinBalance \in Nat
    BY AlgoPoolAssumption DEF TypeOK, UInt64
  <1>2. CASE NamesNewPayment(u, a)
    <2>1. appAlgo' = appAlgo + a /\ appAlgo' \in UInt64 /\ a \in UInt64
      BY <1>1, <1>2 DEF NamesNewPayment, ReceiveAlgo, Reserve, UInt64
    <2>2. AlgoPayment(u, a) \in Payments
      BY <2>1 DEF AlgoPayment, Payments
    <2> QED
      BY <1>1, <1>2, <2>1, <2>2 DEF NamesNewPayment, Named, TypeOK
  <1>3. CASE NamesPaymentAgain(u, a)
    BY <1>1, <1>3 DEF NamesPaymentAgain, TypeOK
  <1> QED
    BY <1>2, <1>3 DEF NamesPayment

\* A transfer of USDC.
LEMMA NamedTransfer ==
    ASSUME TypeOK, NEW u \in Accounts, NEW c \in Nat, NamesTransfer(u, c)
    PROVE  /\ appUsdc' \in UInt64 /\ usdcAgain' \in 0 .. MaxAgain /\ c \in UInt64
           /\ algoAgain' = algoAgain /\ named' \subseteq Payments
           /\ appUsdc' + usdcAgain' = appUsdc + usdcAgain + c
  <1>1. /\ appUsdc \in Nat /\ usdcAgain \in Nat /\ MaxUInt \in Nat /\ MaxAgain \in Nat
    BY AlgoPoolAssumption DEF TypeOK, UInt64
  <1>2. CASE NamesNewTransfer(u, c)
    <2>1. appUsdc' = appUsdc + c /\ appUsdc' \in UInt64 /\ c \in UInt64
      BY <1>1, <1>2 DEF NamesNewTransfer, ReceiveUsdc, Fits, UInt64
    <2>2. UsdcTransfer(u, c) \in Payments
      BY <2>1 DEF UsdcTransfer, Payments
    <2> QED
      BY <1>1, <1>2, <2>1, <2>2 DEF NamesNewTransfer, Named, TypeOK
  <1>3. CASE NamesTransferAgain(u, c)
    <2>1. c \in UInt64
      BY <1>3 DEF NamesTransferAgain, UsdcTransfer, TypeOK, Payments
    <2> QED
      BY <1>1, <1>3, <2>1 DEF NamesTransferAgain, TypeOK
  <1> QED
    BY <1>2, <1>3 DEF NamesTransfer

-----------------------------------------------------------------------------
(* Type correctness. *)

\* The empty records are of their types.
LEMMA EmptyRecordsTyped == NoLoan \in Loan /\ NoAura \in Aura
  BY AlgoPoolAssumption DEF NoLoan, NoAura, Loan, Aura, UInt64

\* What a request that passed its checks writes is a loan record.
LEMMA LoanTermsTyped ==
    ASSUME TypeOK, NEW u \in Accounts, NEW type \in {1, 2},
           NEW amount \in Nat, NEW days \in Nat, NEW usdc \in UInt64,
           CanBorrow(u, amount, days)
    PROVE  LoanTerms(type, amount, days, usdc) \in Loan
  <1>1. Interest(amount, days) \in Nat
    BY InterestIsNat
  <1>2. days * SecondsPerDay \in Nat
    BY AlgoPoolAssumption, ProductIsNat
  <1>3. amount \in UInt64
    BY AlgoPoolAssumption DEF CanBorrow, TypeOK, UInt64
  <1>4. Interest(amount, days) \in UInt64 /\ amount + Interest(amount, days) \in UInt64
    BY <1>1, AlgoPoolAssumption DEF CanBorrow, Fits, UInt64
  <1>5. now + days * SecondsPerDay \in UInt64
    BY <1>2, AlgoPoolAssumption DEF CanBorrow, Fits, TypeOK, UInt64
  <1> QED
    BY <1>3, <1>4, <1>5 DEF LoanTerms, Loan

\* The types hold initially.
LEMMA InitTyped == Init => TypeOK
  <1> SUFFICES ASSUME Init PROVE TypeOK
    OBVIOUS
  <1>1. 0 \in UInt64
    BY AlgoPoolAssumption DEF UInt64
  <1>2. shares \in [Accounts -> UInt64]
    BY <1>1 DEF Init
  <1>3. loan \in [Accounts -> Loan] /\ aura \in [Accounts -> Aura]
    BY EmptyRecordsTyped DEF Init
  <1>4. 0 \in 0 .. MaxAgain
    BY AlgoPoolAssumption
  <1> QED
    BY <1>1, <1>2, <1>3, <1>4 DEF Init, TypeOK

\* A deposit keeps the types.
LEMMA DepositTyped ==
    ASSUME TypeOK, NEW u \in Accounts, NEW a \in PaymentAmounts, Deposit(u, a)
    PROVE  TypeOK'
  <1>1. a \in Nat
    BY AlgoPoolAssumption
  <1>2. SharesMinted(a) \in Nat
    BY <1>1, SharesMintedIsNat
  <1>3. pool' \in UInt64
    BY <1>1, AlgoPoolAssumption DEF Deposit, Fits, TypeOK, UInt64
  <1>4. /\ total_shares + SharesMinted(a) \in UInt64
        /\ shares[u] + SharesMinted(a) \in UInt64
    BY <1>2, AlgoPoolAssumption DEF Deposit, Fits, TypeOK, UInt64
  <1>5. total_shares' \in UInt64 /\ shares' \in [Accounts -> UInt64]
    BY <1>4 DEF Deposit, MoveShares, TypeOK
  <1> QED
    BY <1>1, <1>3, <1>5, NamedPayment DEF Deposit, TypeOK

\* A withdrawal keeps the types: neither the pool nor the shares underflow.
LEMMA WithdrawTyped ==
    ASSUME TypeOK, NEW u \in Accounts, NEW s \in ShareAmounts, Withdraw(u, s)
    PROVE  TypeOK'
  <1>1. s \in Nat
    BY AlgoPoolAssumption
  <1>2. s * pool \in Nat /\ total_shares \in Nat \ {0}
    BY <1>1, ProductIsNat, AlgoPoolAssumption DEF Withdraw, TypeOK, UInt64
  <1>3. AlgoForShares(s) \in Nat
    BY <1>2, DivRoundsDown DEF AlgoForShares
  <1>4. pool' \in UInt64 /\ appAlgo' \in UInt64
    BY <1>3, AlgoPoolAssumption DEF Withdraw, PayAlgo, Reserve, TypeOK, UInt64
  <1>5. total_shares + (-s) \in UInt64 /\ shares[u] + (-s) \in UInt64
    BY <1>1, AlgoPoolAssumption DEF Withdraw, TypeOK, UInt64
  <1>6. total_shares' \in UInt64 /\ shares' \in [Accounts -> UInt64]
    BY <1>5 DEF Withdraw, MoveShares, TypeOK
  <1> QED
    BY <1>4, <1>6 DEF Withdraw, TypeOK

\* Granting a loan keeps the types.
LEMMA OpenLoanTyped ==
    ASSUME TypeOK, NEW u \in Accounts, NEW terms \in Loan,
           terms.principal <= pool, OpenLoan(u, terms), appUsdc' \in UInt64,
           named' \subseteq Payments, algoAgain' = algoAgain, usdcAgain' \in 0 .. MaxAgain
    PROVE  TypeOK'
  <1>1. terms.principal \in UInt64
    BY DEF Loan
  <1>2. pool' \in UInt64 /\ appAlgo' \in UInt64
    BY <1>1, AlgoPoolAssumption DEF OpenLoan, PayAlgo, Reserve, TypeOK, UInt64
  <1> QED
    BY <1>2 DEF OpenLoan, TypeOK

\* A collateral loan keeps the types.
LEMMA RequestCollateralLoanTyped ==
    ASSUME TypeOK, NEW u \in Accounts, NEW a \in LoanAmounts, NEW d \in LoanDays,
           NEW m \in UsdcAmounts, NEW c \in UsdcAmounts,
           RequestCollateralLoan(u, a, d, m, c)
    PROVE  TypeOK'
  <1>1. a \in Nat /\ d \in Nat /\ c \in Nat
    BY AlgoPoolAssumption
  <1>2. /\ c \in UInt64 /\ appUsdc' \in UInt64 /\ named' \subseteq Payments
        /\ algoAgain' = algoAgain /\ usdcAgain' \in 0 .. MaxAgain
    BY <1>1, NamedTransfer DEF RequestCollateralLoan
  <1>3. LoanTerms(1, a, d, c) \in Loan
    BY <1>1, <1>2, LoanTermsTyped DEF RequestCollateralLoan
  <1>4. LoanTerms(1, a, d, c).principal <= pool
    BY DEF RequestCollateralLoan, CanBorrow, LoanTerms
  <1> QED
    BY <1>2, <1>3, <1>4, OpenLoanTyped DEF RequestCollateralLoan

\* An unsecured loan keeps the types.
LEMMA RequestUnsecuredLoanTyped ==
    ASSUME TypeOK, NEW u \in Accounts, NEW a \in LoanAmounts, NEW d \in LoanDays,
           RequestUnsecuredLoan(u, a, d)
    PROVE  TypeOK'
  <1>1. a \in Nat /\ d \in Nat /\ 0 \in UInt64
    BY AlgoPoolAssumption DEF UInt64
  <1>2. LoanTerms(2, a, d, 0) \in Loan
    BY <1>1, LoanTermsTyped DEF RequestUnsecuredLoan
  <1>3. LoanTerms(2, a, d, 0).principal <= pool
    BY DEF RequestUnsecuredLoan, CanBorrow, LoanTerms
  <1>4. /\ appUsdc' \in UInt64 /\ named' \subseteq Payments
        /\ algoAgain' = algoAgain /\ usdcAgain' \in 0 .. MaxAgain
    BY DEF RequestUnsecuredLoan, TypeOK
  <1> QED
    BY <1>2, <1>3, <1>4, OpenLoanTyped DEF RequestUnsecuredLoan

\* A repayment keeps the types.
LEMMA RepayTyped ==
    ASSUME TypeOK, NEW u \in Accounts, NEW a \in PaymentAmounts, Repay(u, a)
    PROVE  TypeOK'
  <1>1. a \in Nat /\ loan[u] \in Loan /\ aura[u] \in Aura
    BY AlgoPoolAssumption DEF TypeOK
  <1> DEFINE points == InterestToAuraPoints(loan[u].interest_due)
  <1>2. points \in Nat
    BY <1>1, PointsAreNat, AlgoPoolAssumption DEF Loan, UInt64
  <1>3. aura[u].aura_earned + points \in UInt64
    BY <1>1, <1>2, AlgoPoolAssumption DEF Repay, Fits, Aura, UInt64
  <1>4. aura' = [aura EXCEPT ![u].aura_earned = @ + points]
    BY DEF Repay
  <1>5. aura' \in [Accounts -> Aura]
    BY <1>1, <1>3, <1>4 DEF TypeOK, Aura
  <1>6. pool' \in UInt64 /\ appUsdc' \in UInt64
    BY <1>1, AlgoPoolAssumption
       DEF Repay, PayUsdc, CreditToPool, Fits, TypeOK, Loan, UInt64
  <1>7. loan' \in [Accounts -> Loan]
    BY EmptyRecordsTyped DEF Repay, Closed, TypeOK
  <1> QED
    BY <1>1, <1>5, <1>6, <1>7, NamedPayment DEF Repay, TypeOK

\* A liquidation keeps the types.
LEMMA LiquidateDefaultTyped ==
    ASSUME TypeOK, NEW sender, NEW u \in Accounts, LiquidateDefault(sender, u)
    PROVE  TypeOK'
  <1>1. loan[u] \in Loan /\ aura[u] \in Aura
    BY DEF TypeOK
  <1>2. InterestToAuraPoints(loan[u].interest_due) \in Nat
    BY <1>1, PointsAreNat, AlgoPoolAssumption DEF Loan, UInt64
  <1>3. /\ Penalised(aura[u], loan[u]).aura_penalty \in UInt64
        /\ Penalised(aura[u], loan[u]).aura_blacklisted \in {0, 1}
        /\ aura[u].aura_earned \in UInt64
    BY <1>1, <1>2, AlgoPoolAssumption
       DEF LiquidateDefault, Defaulted, Penalised, Fits, Aura, UInt64
  <1>4. Penalised(aura[u], loan[u]) \in Aura
    BY <1>3 DEF Penalised, Aura
  <1>5. aura' \in [Accounts -> Aura]
    BY <1>4 DEF LiquidateDefault, Defaulted, TypeOK
  <1>6. appUsdc' \in UInt64
    BY <1>1, AlgoPoolAssumption DEF LiquidateDefault, Defaulted, PayUsdc, TypeOK, Loan, UInt64
  <1>7. loan' \in [Accounts -> Loan]
    BY EmptyRecordsTyped DEF LiquidateDefault, Defaulted, Closed, TypeOK
  <1> QED
    BY <1>5, <1>6, <1>7 DEF LiquidateDefault, Defaulted, TypeOK

\* The other actions keep the types.
LEMMA OtherActionsTyped ==
    ASSUME TypeOK
    PROVE  /\ Tick \/ NewGroup => TypeOK'
           /\ \A a \in PaymentAmounts : Fund(a) => TypeOK'
           /\ \A sender : AppOptInUsdc(sender) => TypeOK'
           /\ \A sender : \A a \in PaymentAmounts : AdminAddPoolLiquidity(sender, a) => TypeOK'
           /\ \A u \in Accounts : OptIn(u) \/ ClearState(u) => TypeOK'
  <1>1. Tick \/ NewGroup => TypeOK'
    BY AlgoPoolAssumption DEF Tick, NewGroup, TypeOK, UInt64, localVars
  <1>2. ASSUME NEW a \in PaymentAmounts, Fund(a) PROVE TypeOK'
    <2>1. appAlgo' \in UInt64
      BY <1>2, AlgoPoolAssumption DEF Fund, ReceiveAlgo, Reserve, TypeOK, UInt64
    <2> QED
      BY <1>2, <2>1 DEF Fund, TypeOK, localVars
  <1>3. ASSUME NEW sender, AppOptInUsdc(sender) PROVE TypeOK'
    BY <1>3 DEF AppOptInUsdc, TypeOK, localVars
  <1>4. ASSUME NEW sender, NEW a \in PaymentAmounts, AdminAddPoolLiquidity(sender, a)
        PROVE  TypeOK'
    <2>1. a \in Nat /\ sender \in Accounts \cup {Creator} /\ pool' \in UInt64
      BY <1>4, AlgoPoolAssumption DEF AdminAddPoolLiquidity, Fits, TypeOK, UInt64
    <2> QED
      BY <1>4, <2>1, NamedPayment DEF AdminAddPoolLiquidity, TypeOK, localVars
  <1>5. ASSUME NEW u \in Accounts, OptIn(u) \/ ClearState(u) PROVE TypeOK'
    <2>1. /\ shares' \in [Accounts -> UInt64] /\ loan' \in [Accounts -> Loan]
          /\ aura' \in [Accounts -> Aura] /\ optedIn' \subseteq Accounts
      BY <1>5, EmptyRecordsTyped, AlgoPoolAssumption DEF OptIn, ClearState, TypeOK, UInt64
    <2> QED
      BY <1>5, <2>1 DEF OptIn, ClearState, TypeOK
  <1> QED
    BY <1>1, <1>2, <1>3, <1>4, <1>5

\* Every step keeps the types.
LEMMA NextTyped == TypeOK /\ [Next]_vars => TypeOK'
  <1> SUFFICES ASSUME TypeOK, [Next]_vars PROVE TypeOK'
    OBVIOUS
  <1>1. CASE UNCHANGED vars
    BY <1>1 DEF vars, TypeOK
  <1>2. CASE Tick \/ NewGroup
    BY <1>2, OtherActionsTyped
  <1>3. CASE \E a \in PaymentAmounts : Fund(a)
    BY <1>3, OtherActionsTyped
  <1>4. ASSUME NEW sender \in Accounts \cup {Creator},
               \/ AppOptInUsdc(sender)
               \/ \E a \in PaymentAmounts : AdminAddPoolLiquidity(sender, a)
               \/ \E u \in Accounts : LiquidateDefault(sender, u)
        PROVE  TypeOK'
    <2>1. CASE AppOptInUsdc(sender)
      BY <2>1, OtherActionsTyped
    <2>2. ASSUME NEW a \in PaymentAmounts, AdminAddPoolLiquidity(sender, a)
          PROVE  TypeOK'
      BY <2>2, OtherActionsTyped
    <2>3. ASSUME NEW u \in Accounts, LiquidateDefault(sender, u)
          PROVE  TypeOK'
      BY <2>3, LiquidateDefaultTyped
    <2> QED
      BY <1>4, <2>1, <2>2, <2>3
  <1>5. ASSUME NEW u \in Accounts, OptIn(u) \/ ClearState(u)
        PROVE  TypeOK'
    BY <1>5, OtherActionsTyped
  <1>6. ASSUME NEW u \in Accounts, NEW a \in PaymentAmounts, Deposit(u, a) \/ Repay(u, a)
        PROVE  TypeOK'
    BY <1>6, DepositTyped, RepayTyped
  <1>7. ASSUME NEW u \in Accounts, NEW s \in ShareAmounts, Withdraw(u, s)
        PROVE  TypeOK'
    BY <1>7, WithdrawTyped
  <1>8. ASSUME NEW u \in Accounts, NEW a \in LoanAmounts, NEW d \in LoanDays,
               \/ RequestUnsecuredLoan(u, a, d)
               \/ \E m, c \in UsdcAmounts : RequestCollateralLoan(u, a, d, m, c)
        PROVE  TypeOK'
    BY <1>8, RequestUnsecuredLoanTyped, RequestCollateralLoanTyped
  <1> QED
    BY <1>1, <1>2, <1>3, <1>4, <1>5, <1>6, <1>7, <1>8 DEF Next

\* Type correctness: no sequence of calls, whatever the amounts, takes a
\* quantity of the contract or of its account out of 64 bits.
THEOREM TypeCorrect == Spec => []TypeOK
  BY InitTyped, NextTyped, PTL DEF Spec

-----------------------------------------------------------------------------
(* Safety.  The inductive invariant is the conjunction of the safety       *)
(* invariants with the types they need; LoanWellFormed carries the others, *)
(* since it ties an open loan to local state and to its arithmetic.        *)

Inv ==
    /\ TypeOK
    /\ Solvency
    /\ LoanWellFormed
    /\ UnsecuredStaysCreditworthy

\* A limit computed with a rounded-down division is a limit.
LEMMA WithinLimit ==
    ASSUME NEW a \in Nat, NEW x \in Nat, NEW b \in Nat \ {0}, a <= x \div b
    PROVE  a * b <= x
  <1>1. x \div b \in Nat /\ (x \div b) * b <= x
    BY DivRoundsDown
  <1> DEFINE q == x \div b
  <1>2. ASSUME NEW p \in Nat, a <= p PROVE a * b <= p * b
    BY <1>2, SMT
  <1>3. a * b <= q * b
    BY <1>1, <1>2
  <1>4. a * b \in Nat /\ q * b \in Nat
    BY <1>1, ProductIsNat
  <1> QED
    BY <1>1, <1>3, <1>4

\* The inductive invariant holds before the first call.
LEMMA InitInv == Init => Inv
  <1> SUFFICES ASSUME Init PROVE Inv
    OBVIOUS
  <1>1. TypeOK
    BY InitTyped
  <1>2. Solvency
    BY DEF Init, Solvency
  <1>3. LoanWellFormed
    BY DEF Init, LoanWellFormed
  <1>4. UnsecuredStaysCreditworthy
    BY DEF Init, UnsecuredStaysCreditworthy, NoLoan
  <1> QED
    BY <1>1, <1>2, <1>3, <1>4 DEF Inv

\* Steps that touch neither loans nor AURA nor the opt-ins disturb only solvency.
LEMMA LoansUntouched ==
    ASSUME Inv, TypeOK', Solvency', UNCHANGED <<loan, aura, optedIn>>
    PROVE  Inv'
  BY DEF Inv, LoanWellFormed, UnsecuredStaysCreditworthy

\* A deposit brings the ALGO it credits to the pool.
LEMMA DepositInv ==
    ASSUME Inv, NEW u \in Accounts, NEW a \in PaymentAmounts, Deposit(u, a)
    PROVE  Inv'
  <1>1. TypeOK'
    BY DepositTyped DEF Inv
  <1>2. appAlgo' + algoAgain' = appAlgo + algoAgain + a
    BY AlgoPoolAssumption, NamedPayment DEF Inv, Deposit
  <1>3. Solvency'
    BY <1>2, AlgoPoolAssumption DEF Inv, TypeOK, UInt64, Solvency, Deposit
  <1> QED
    BY <1>1, <1>3, LoansUntouched DEF Deposit

\* A withdrawal pays from the account what it debits from the pool.
LEMMA WithdrawInv ==
    ASSUME Inv, NEW u \in Accounts, NEW s \in ShareAmounts, Withdraw(u, s)
    PROVE  Inv'
  <1>1. TypeOK'
    BY WithdrawTyped DEF Inv
  <1>2. s * pool \in Nat /\ total_shares \in Nat \ {0}
    BY ProductIsNat, AlgoPoolAssumption DEF Inv, Withdraw, TypeOK, UInt64
  <1>3. AlgoForShares(s) \in Nat
    BY <1>2, DivRoundsDown DEF AlgoForShares
  <1>4. Solvency'
    BY <1>3, AlgoPoolAssumption DEF Inv, TypeOK, UInt64, Solvency, Withdraw, PayAlgo
  <1> QED
    BY <1>1, <1>4, LoansUntouched DEF Withdraw

\* An open loan that meets the conditions of its kind keeps the invariant.
LEMMA OpenLoanInv ==
    ASSUME Inv, TypeOK', NEW u \in optedIn, NEW type \in {1, 2},
           NEW amount \in Nat, NEW days \in Nat, NEW usdc \in UInt64,
           CanBorrow(u, amount, days),
           OpenLoan(u, LoanTerms(type, amount, days, usdc)),
           type = 2 => Creditworthy(u, amount) /\ usdc = 0,
           algoAgain' = algoAgain
    PROVE  Inv'
  <1> DEFINE terms == LoanTerms(type, amount, days, usdc)
  <1>1. /\ u \in Accounts
        /\ loan' = [loan EXCEPT ![u] = terms]
        /\ aura' = aura /\ optedIn' = optedIn
    BY DEF Inv, TypeOK, OpenLoan
  <1>2. Solvency'
    BY AlgoPoolAssumption
       DEF Inv, TypeOK, UInt64, Solvency, OpenLoan, PayAlgo, LoanTerms
  <1>3. LoanWellFormed'
    <2> SUFFICES ASSUME NEW v \in Accounts
                 PROVE  LoanWellFormed!(v)'
      BY DEF LoanWellFormed
    <2>1. CASE v = u
      BY <1>1, <2>1, InterestIsNat DEF Inv, TypeOK, LoanTerms, CanBorrow
    <2>2. CASE v # u
      BY <1>1, <2>2 DEF Inv, LoanWellFormed, TypeOK
    <2> QED
      BY <2>1, <2>2
  <1>4. UnsecuredStaysCreditworthy'
    <2> SUFFICES ASSUME NEW v \in Accounts, loan'[v].loan_type = 2
                 PROVE  /\ aura[v].aura_blacklisted = 0
                        /\ aura[v].aura_earned - aura[v].aura_penalty
                             >= MinAuraForUnsecured
                        /\ loan'[v].principal * BpsScale
                             <= (aura[v].aura_earned - aura[v].aura_penalty)
                                  * LimitBpsOfAura * MicroalgosPerAlgo
      BY <1>1 DEF UnsecuredStaysCreditworthy
    <2>1. CASE v # u
      BY <1>1, <2>1 DEF Inv, UnsecuredStaysCreditworthy, TypeOK
    <2>2. CASE v = u
      <3>1. loan'[v] = terms /\ type = 2
        BY <1>1, <2>2 DEF Inv, TypeOK, LoanTerms
      <3>2. /\ aura[u].aura_blacklisted = 0
            /\ NetAura(u) >= MinAuraForUnsecured
            /\ amount <= LimitProduct(u) \div BpsScale
            /\ amount > 0
        BY <3>1 DEF Creditworthy, MaxUnsecured, CanBorrow
      <3>3. /\ NetAura(u) \in Nat
            /\ aura[u].aura_earned \in Nat /\ aura[u].aura_penalty \in Nat
        BY <1>1, AlgoPoolAssumption DEF Inv, TypeOK, Aura, UInt64, NetAura
      <3>4. LimitProduct(u) \in Nat
        <4>1. NetAura(u) * LimitBpsOfAura \in Nat
          BY <3>3, ProductIsNat, AlgoPoolAssumption
        <4> QED
          BY <4>1, ProductIsNat, AlgoPoolAssumption DEF LimitProduct
      <3>5. amount * BpsScale <= LimitProduct(u)
        BY <3>2, <3>4, WithinLimit, AlgoPoolAssumption
      <3>6. NetAura(u) # 0
        <4> SUFFICES ASSUME NetAura(u) = 0 PROVE FALSE
          OBVIOUS
        <4>1. LimitProduct(u) = 0
          BY AlgoPoolAssumption DEF LimitProduct
        <4>2. amount * BpsScale >= 1
          BY <3>2, AlgoPoolAssumption, SMT
        <4> QED
          BY <3>5, <4>1, <4>2, ProductIsNat, AlgoPoolAssumption
      <3>7. NetAura(u) = aura[u].aura_earned - aura[u].aura_penalty
        BY <3>3, <3>6 DEF NetAura
      <3> QED
        BY <2>2, <3>1, <3>2, <3>5, <3>7 DEF LimitProduct, LoanTerms
    <2> QED
      BY <2>1, <2>2
  <1> QED
    BY <1>2, <1>3, <1>4 DEF Inv

\* A collateral loan keeps the invariant, whatever collateral is asked for.
LEMMA RequestCollateralLoanInv ==
    ASSUME Inv, NEW u \in Accounts, NEW a \in LoanAmounts, NEW d \in LoanDays,
           NEW m \in UsdcAmounts, NEW c \in UsdcAmounts,
           RequestCollateralLoan(u, a, d, m, c)
    PROVE  Inv'
  <1>1. TypeOK'
    BY RequestCollateralLoanTyped DEF Inv
  <1>2. a \in Nat /\ d \in Nat /\ c \in UInt64 /\ algoAgain' = algoAgain
    BY AlgoPoolAssumption, NamedTransfer DEF Inv, RequestCollateralLoan
  <1>3. u \in optedIn
    BY DEF RequestCollateralLoan, CanBorrow
  <1> QED
    BY <1>1, <1>2, <1>3, OpenLoanInv DEF RequestCollateralLoan

\* An unsecured loan passed the limit that the invariant speaks of.
LEMMA RequestUnsecuredLoanInv ==
    ASSUME Inv, NEW u \in Accounts, NEW a \in LoanAmounts, NEW d \in LoanDays,
           RequestUnsecuredLoan(u, a, d)
    PROVE  Inv'
  <1>1. TypeOK'
    BY RequestUnsecuredLoanTyped DEF Inv
  <1>2. a \in Nat /\ d \in Nat /\ 0 \in UInt64
    BY AlgoPoolAssumption DEF UInt64
  <1>3. u \in optedIn
    BY DEF RequestUnsecuredLoan, CanBorrow
  <1> QED
    BY <1>1, <1>2, <1>3, OpenLoanInv DEF RequestUnsecuredLoan

\* Emptying one account's loan keeps the loan invariants, whatever happens to
\* that account's AURA and opt-in.
LEMMA EmptiedLoan ==
    ASSUME Inv, TypeOK', Solvency', NEW u \in Accounts,
           loan' = [loan EXCEPT ![u] = NoLoan],
           \A v \in Accounts \ {u} : aura'[v] = aura[v] /\ (v \in optedIn => v \in optedIn')
    PROVE  Inv'
  <1>1. \A v \in Accounts : loan'[v] = IF v = u THEN NoLoan ELSE loan[v]
    BY DEF Inv, TypeOK
  <1>2. LoanWellFormed'
    BY <1>1 DEF Inv, LoanWellFormed
  <1>3. UnsecuredStaysCreditworthy'
    BY <1>1 DEF Inv, UnsecuredStaysCreditworthy, NoLoan
  <1> QED
    BY <1>2, <1>3 DEF Inv

\* A repayment ends the loan before its AURA can matter to it.
LEMMA RepayInv ==
    ASSUME Inv, NEW u \in Accounts, NEW a \in PaymentAmounts, Repay(u, a)
    PROVE  Inv'
  <1>1. TypeOK'
    BY RepayTyped DEF Inv
  <1>2. loan[u].due_amount \in Nat /\ a \in Nat
    BY AlgoPoolAssumption DEF Inv, TypeOK, Loan, UInt64
  <1>3. appAlgo' + algoAgain' = appAlgo + algoAgain + a
    BY <1>2, NamedPayment DEF Inv, Repay
  <1>4. Solvency'
    BY <1>2, <1>3, AlgoPoolAssumption
       DEF Inv, TypeOK, UInt64, Solvency, Repay, CreditToPool
  <1>5. \A v \in Accounts \ {u} : aura'[v] = aura[v]
    BY DEF Inv, TypeOK, Repay
  <1> QED
    BY <1>1, <1>4, <1>5, EmptiedLoan DEF Repay, Closed

\* A liquidation penalises a borrower who then has no loan.
LEMMA LiquidateDefaultInv ==
    ASSUME Inv, NEW sender, NEW u \in Accounts, LiquidateDefault(sender, u)
    PROVE  Inv'
  <1>1. TypeOK'
    BY LiquidateDefaultTyped DEF Inv
  <1>2. Solvency'
    BY DEF Inv, Solvency, LiquidateDefault, Defaulted
  <1>3. \A v \in Accounts \ {u} : aura'[v] = aura[v]
    BY DEF Inv, TypeOK, LiquidateDefault, Defaulted
  <1> QED
    BY <1>1, <1>2, <1>3, EmptiedLoan DEF LiquidateDefault, Defaulted, Closed

\* The remaining actions keep the invariant.
LEMMA OtherActionsInv ==
    ASSUME Inv
    PROVE  /\ Tick \/ NewGroup => Inv'
           /\ \A a \in PaymentAmounts : Fund(a) => Inv'
           /\ \A sender : AppOptInUsdc(sender) => Inv'
           /\ \A sender : \A a \in PaymentAmounts : AdminAddPoolLiquidity(sender, a) => Inv'
           /\ \A u \in Accounts : OptIn(u) \/ ClearState(u) => Inv'
  <1> USE DEF localVars
  <1>1. ASSUME Tick \/ NewGroup PROVE Inv'
    <2>1. TypeOK' /\ Solvency'
      BY <1>1, OtherActionsTyped DEF Inv, Tick, NewGroup, Solvency
    <2> QED
      BY <1>1, <2>1, LoansUntouched DEF Tick, NewGroup
  <1>2. ASSUME NEW a \in PaymentAmounts, Fund(a) PROVE Inv'
    <2>1. TypeOK'
      BY <1>2, OtherActionsTyped DEF Inv
    <2>2. Solvency'
      BY <1>2, AlgoPoolAssumption DEF Inv, TypeOK, UInt64, Solvency, Fund, ReceiveAlgo
    <2> QED
      BY <1>2, <2>1, <2>2, LoansUntouched DEF Fund
  <1>3. ASSUME NEW sender, AppOptInUsdc(sender) PROVE Inv'
    <2>1. TypeOK' /\ Solvency'
      BY <1>3, OtherActionsTyped DEF Inv, AppOptInUsdc, Solvency
    <2> QED
      BY <1>3, <2>1, LoansUntouched DEF AppOptInUsdc
  <1>4. ASSUME NEW sender, NEW a \in PaymentAmounts, AdminAddPoolLiquidity(sender, a)
        PROVE  Inv'
    <2>1. TypeOK'
      BY <1>4, OtherActionsTyped DEF Inv
    <2>2. appAlgo' + algoAgain' = appAlgo + algoAgain + a
      BY <1>4, AlgoPoolAssumption, NamedPayment DEF Inv, AdminAddPoolLiquidity
    <2>3. Solvency'
      BY <1>4, <2>2, AlgoPoolAssumption
         DEF Inv, TypeOK, UInt64, Solvency, AdminAddPoolLiquidity
    <2> QED
      BY <1>4, <2>1, <2>3, LoansUntouched DEF AdminAddPoolLiquidity
  <1>5. ASSUME NEW u \in Accounts, OptIn(u) \/ ClearState(u) PROVE Inv'
    <2>1. TypeOK' /\ Solvency'
      BY <1>5, OtherActionsTyped DEF Inv, OptIn, ClearState, Solvency
    <2>2. \A v \in Accounts \ {u} : aura'[v] = aura[v] /\ (v \in optedIn => v \in optedIn')
      BY <1>5 DEF Inv, TypeOK, OptIn, ClearState
    <2> QED
      BY <1>5, <2>1, <2>2, EmptiedLoan DEF OptIn, ClearState
  <1> QED
    BY <1>1, <1>2, <1>3, <1>4, <1>5

\* Every step keeps the inductive invariant.
LEMMA NextInv == Inv /\ [Next]_vars => Inv'
  <1> SUFFICES ASSUME Inv, [Next]_vars PROVE Inv'
    OBVIOUS
  <1>1. CASE UNCHANGED vars
    BY <1>1 DEF vars, Inv, TypeOK, Solvency, LoanWellFormed, UnsecuredStaysCreditworthy
  <1>2. CASE Tick \/ NewGroup
    BY <1>2, OtherActionsInv
  <1>3. CASE \E a \in PaymentAmounts : Fund(a)
    BY <1>3, OtherActionsInv
  <1>4. ASSUME NEW sender \in Accounts \cup {Creator},
               \/ AppOptInUsdc(sender)
               \/ \E a \in PaymentAmounts : AdminAddPoolLiquidity(sender, a)
               \/ \E u \in Accounts : LiquidateDefault(sender, u)
        PROVE  Inv'
    <2>1. CASE AppOptInUsdc(sender)
      BY <2>1, OtherActionsInv
    <2>2. ASSUME NEW a \in PaymentAmounts, AdminAddPoolLiquidity(sender, a)
          PROVE  Inv'
      BY <2>2, OtherActionsInv
    <2>3. ASSUME NEW u \in Accounts, LiquidateDefault(sender, u)
          PROVE  Inv'
      BY <2>3, LiquidateDefaultInv
    <2> QED
      BY <1>4, <2>1, <2>2, <2>3
  <1>5. ASSUME NEW u \in Accounts, OptIn(u) \/ ClearState(u)
        PROVE  Inv'
    BY <1>5, OtherActionsInv
  <1>6. ASSUME NEW u \in Accounts, NEW a \in PaymentAmounts, Deposit(u, a) \/ Repay(u, a)
        PROVE  Inv'
    BY <1>6, DepositInv, RepayInv
  <1>7. ASSUME NEW u \in Accounts, NEW s \in ShareAmounts, Withdraw(u, s)
        PROVE  Inv'
    BY <1>7, WithdrawInv
  <1>8. ASSUME NEW u \in Accounts, NEW a \in LoanAmounts, NEW d \in LoanDays,
               \/ RequestUnsecuredLoan(u, a, d)
               \/ \E m, c \in UsdcAmounts : RequestCollateralLoan(u, a, d, m, c)
        PROVE  Inv'
    BY <1>8, RequestUnsecuredLoanInv, RequestCollateralLoanInv
  <1> QED
    BY <1>1, <1>2, <1>3, <1>4, <1>5, <1>6, <1>7, <1>8 DEF Next

\* The inductive invariant is an invariant.
LEMMA InvHolds == Spec => []Inv
  BY InitInv, NextInv, PTL DEF Spec

\* The pool never counts more ALGO than its account holds and groups have named
\* over again, for any amounts, rates, groups and number of accounts.
THEOREM SolvencyHolds == Spec => []Solvency
  <1>1. Inv => Solvency
    BY DEF Inv
  <1> QED
    BY <1>1, InvHolds, PTL

\* Every loan record is empty or what a loan request wrote.
THEOREM LoanWellFormedHolds == Spec => []LoanWellFormed
  <1>1. Inv => LoanWellFormed
    BY DEF Inv
  <1> QED
    BY <1>1, InvHolds, PTL

\* An open unsecured loan is carried by its borrower's AURA, and its borrower
\* is not blacklisted, for every rate, unit and limit.
THEOREM CreditworthinessHolds == Spec => []UnsecuredStaysCreditworthy
  <1>1. Inv => UnsecuredStaysCreditworthy
    BY DEF Inv
  <1> QED
    BY <1>1, InvHolds, PTL

-----------------------------------------------------------------------------
(* The ALGO behind a share. *)

\* Minting no more than the deposit's proportion keeps the price of a share.
LEMMA MintKeepsPrice ==
    ASSUME NEW p \in Nat, NEW t \in Nat, NEW a \in Nat, NEW m \in Nat,
           m * p <= a * t
    PROVE  (p + a) * t >= p * (t + m)
  BY SMT

\* Paying no more than the burnt shares' proportion keeps it too.
LEMMA BurnKeepsPrice ==
    ASSUME NEW p \in Nat, NEW t \in Nat, NEW a \in Nat, NEW s \in Nat,
           a * t <= s * p
    PROVE  (p - a) * t >= p * (t + (-s))
  BY SMT

\* More ALGO behind the same shares.
LEMMA MoreInThePool ==
    ASSUME NEW p \in Nat, NEW q \in Nat, NEW t \in Nat, q >= p
    PROVE  q * t >= p * t
  BY SMT

\* A deposit mints at most its proportion.
LEMMA DepositKeepsPrice ==
    ASSUME TypeOK, NEW u \in Accounts, NEW a \in PaymentAmounts, Deposit(u, a)
    PROVE  pool' * total_shares >= pool * total_shares'
  <1> DEFINE m == SharesMinted(a)
  <1>1. pool \in Nat /\ total_shares \in Nat /\ a \in Nat /\ m \in Nat
    BY SharesMintedIsNat, AlgoPoolAssumption DEF TypeOK, UInt64
  <1>2. pool' = pool + a /\ total_shares' = total_shares + m
    BY DEF Deposit, MoveShares
  <1>3. m * pool <= a * total_shares
    <2>1. a * total_shares \in Nat
      BY <1>1, ProductIsNat
    <2>2. CASE pool = 0
      BY <1>1, <2>1, <2>2
    <2>3. CASE pool # 0
      BY <1>1, <2>1, <2>3, DivRoundsDown DEF SharesMinted
    <2> QED
      BY <2>2, <2>3
  <1> HIDE DEF m
  <1> QED
    BY <1>1, <1>2, <1>3, MintKeepsPrice

\* A withdrawal pays at most its proportion.
LEMMA WithdrawKeepsPrice ==
    ASSUME TypeOK, NEW u \in Accounts, NEW s \in ShareAmounts, Withdraw(u, s)
    PROVE  pool' * total_shares >= pool * total_shares'
  <1> DEFINE a == AlgoForShares(s)
  <1>1. pool \in Nat /\ total_shares \in Nat \ {0} /\ s \in Nat
    BY AlgoPoolAssumption DEF Withdraw, TypeOK, UInt64
  <1>2. a \in Nat /\ a * total_shares <= s * pool
    BY <1>1, ProductIsNat, DivRoundsDown DEF AlgoForShares
  <1>3. pool' = pool - a /\ total_shares' = total_shares + (-s)
    BY DEF Withdraw, MoveShares
  <1> HIDE DEF a
  <1> QED
    BY <1>1, <1>2, <1>3, BurnKeepsPrice

\* The calls that only add to the pool.
LEMMA AddingKeepsPrice ==
    ASSUME TypeOK, NEW a \in PaymentAmounts,
           \/ \E sender : AdminAddPoolLiquidity(sender, a)
           \/ \E u \in Accounts : Repay(u, a)
    PROVE  pool' * total_shares >= pool * total_shares'
  <1>1. pool \in Nat /\ total_shares \in Nat
    BY AlgoPoolAssumption DEF TypeOK, UInt64
  <1>2. pool' \in Nat /\ pool' >= pool /\ total_shares' = total_shares
    <2>1. CASE \E sender : AdminAddPoolLiquidity(sender, a)
      BY <1>1, <2>1, AlgoPoolAssumption DEF AdminAddPoolLiquidity
    <2>2. ASSUME NEW u \in Accounts, Repay(u, a)
          PROVE  pool' \in Nat /\ pool' >= pool /\ total_shares' = total_shares
      <3>1. loan[u].due_amount \in Nat
        BY AlgoPoolAssumption DEF TypeOK, Loan, UInt64
      <3> QED
        BY <1>1, <2>2, <3>1 DEF Repay, CreditToPool
    <2> QED
      BY <2>1, <2>2
  <1> QED
    BY <1>1, <1>2, MoreInThePool

\* Steps that leave the pool and the shares alone.
LEMMA UntouchedPrice ==
    ASSUME TypeOK, UNCHANGED <<pool, total_shares>>
    PROVE  pool' * total_shares >= pool * total_shares'
  <1>1. pool * total_shares \in Nat
    BY ProductIsNat, AlgoPoolAssumption DEF TypeOK, UInt64
  <1> QED
    BY <1>1

\* A loan request that passes grants a loan.
LEMMA OpenLoanGrants ==
    ASSUME TypeOK, NEW u \in Accounts, NEW a, NEW d,
           \/ RequestUnsecuredLoan(u, a, d)
           \/ \E m, c \in UsdcAmounts : RequestCollateralLoan(u, a, d, m, c)
    PROVE  LoanGranted(u)
  BY DEF TypeOK, RequestUnsecuredLoan, RequestCollateralLoan, CanBorrow, OpenLoan,
         LoanTerms, LoanGranted

\* One step never lowers the ALGO behind a share, unless it grants a loan.
LEMMA StepKeepsPrice ==
    ASSUME TypeOK, Next
    PROVE  \/ \E u \in Accounts : LoanGranted(u)
           \/ pool' * total_shares >= pool * total_shares'
  <1>1. CASE Tick \/ NewGroup
    BY <1>1, UntouchedPrice DEF Tick, NewGroup
  <1>2. CASE \E a \in PaymentAmounts : Fund(a)
    BY <1>2, UntouchedPrice DEF Fund
  <1>3. ASSUME NEW sender \in Accounts \cup {Creator},
               \/ AppOptInUsdc(sender)
               \/ \E a \in PaymentAmounts : AdminAddPoolLiquidity(sender, a)
               \/ \E u \in Accounts : LiquidateDefault(sender, u)
        PROVE  pool' * total_shares >= pool * total_shares'
    <2>1. CASE AppOptInUsdc(sender)
      BY <2>1, UntouchedPrice DEF AppOptInUsdc
    <2>2. ASSUME NEW a \in PaymentAmounts, AdminAddPoolLiquidity(sender, a)
          PROVE  pool' * total_shares >= pool * total_shares'
      BY <2>2, AddingKeepsPrice
    <2>3. ASSUME NEW u \in Accounts, LiquidateDefault(sender, u)
          PROVE  pool' * total_shares >= pool * total_shares'
      BY <2>3, UntouchedPrice DEF LiquidateDefault, Defaulted
    <2> QED
      BY <1>3, <2>1, <2>2, <2>3
  <1>4. ASSUME NEW u \in Accounts, OptIn(u) \/ ClearState(u)
        PROVE  pool' * total_shares >= pool * total_shares'
    BY <1>4, UntouchedPrice DEF OptIn, ClearState
  <1>5. ASSUME NEW u \in Accounts, NEW a \in PaymentAmounts, Deposit(u, a) \/ Repay(u, a)
        PROVE  pool' * total_shares >= pool * total_shares'
    BY <1>5, DepositKeepsPrice, AddingKeepsPrice
  <1>6. ASSUME NEW u \in Accounts, NEW s \in ShareAmounts, Withdraw(u, s)
        PROVE  pool' * total_shares >= pool * total_shares'
    BY <1>6, WithdrawKeepsPrice
  <1>7. ASSUME NEW u \in Accounts, NEW a \in LoanAmounts, NEW d \in LoanDays,
               \/ RequestUnsecuredLoan(u, a, d)
               \/ \E m, c \in UsdcAmounts : RequestCollateralLoan(u, a, d, m, c)
        PROVE  LoanGranted(u)
    BY <1>7, OpenLoanGrants
  <1> QED
    BY <1>1, <1>2, <1>3, <1>4, <1>5, <1>6, <1>7 DEF Next

\* Whatever the amounts and however they round, no deposit, withdrawal,
\* repayment, liquidation or clear-state lowers the ALGO behind a share.
THEOREM SharePriceNeverFallsHolds == Spec => SharePriceNeverFalls
  <1>1. TypeOK /\ [Next]_vars =>
            [(\E u \in Accounts : LoanGranted(u))
               \/ pool' * total_shares >= pool * total_shares']_vars
    BY StepKeepsPrice
  <1> QED
    BY <1>1, TypeCorrect, PTL DEF Spec, SharePriceNeverFalls

-----------------------------------------------------------------------------
(* How a loan ends. *)

EndsPaidOrOverdue(u) ==
    loan[u].loan_active = 1 /\ loan'[u].loan_active = 0 =>
        \/ pool' - pool = loan[u].due_amount
        \/ /\ now > loan[u].due_ts
           /\ loan[u].loan_type = 2 => aura'[u].aura_blacklisted = 1

\* Steps that leave the loans alone end none.
LEMMA UntouchedLoansEndWell ==
    ASSUME Inv, UNCHANGED loan, NEW v \in Accounts
    PROVE  EndsPaidOrOverdue(v)
  BY DEF EndsPaidOrOverdue

\* Granting a loan ends none.
LEMMA OpenLoanEndsNone ==
    ASSUME Inv, NEW u \in Accounts, NEW a, NEW d, NEW v \in Accounts,
           \/ RequestUnsecuredLoan(u, a, d)
           \/ \E m, c \in UsdcAmounts : RequestCollateralLoan(u, a, d, m, c)
    PROVE  EndsPaidOrOverdue(v)
  BY DEF Inv, TypeOK, RequestUnsecuredLoan, RequestCollateralLoan, OpenLoan,
         LoanTerms, EndsPaidOrOverdue

\* A repayment pays the whole debt into the pool.
LEMMA RepayEndsPaid ==
    ASSUME Inv, NEW u \in Accounts, NEW a \in PaymentAmounts, Repay(u, a),
           NEW v \in Accounts
    PROVE  EndsPaidOrOverdue(v)
  <1>1. pool \in Nat /\ loan[u].due_amount \in Nat
    BY AlgoPoolAssumption DEF Inv, TypeOK, Loan, UInt64
  <1>2. CASE v = u
    BY <1>1, <1>2 DEF Repay, CreditToPool, EndsPaidOrOverdue
  <1>3. CASE v # u
    BY <1>3 DEF Inv, TypeOK, Repay, EndsPaidOrOverdue
  <1> QED
    BY <1>2, <1>3

\* A liquidation ends an overdue loan, and bans an unsecured borrower.
LEMMA LiquidateEndsOverdue ==
    ASSUME Inv, NEW sender, NEW u \in Accounts, LiquidateDefault(sender, u),
           NEW v \in Accounts
    PROVE  EndsPaidOrOverdue(v)
  <1>1. CASE v = u
    <2>1. loan[u].loan_type = 2 => aura'[u].aura_blacklisted = 1
      BY DEF Inv, TypeOK, LiquidateDefault, Penalised
    <2> QED
      BY <1>1, <2>1 DEF LiquidateDefault, Defaulted, Overdue, EndsPaidOrOverdue
  <1>2. CASE v # u
    BY <1>2 DEF Inv, TypeOK, LiquidateDefault, Defaulted, EndsPaidOrOverdue
  <1> QED
    BY <1>1, <1>2

\* An account that opts in has no loan, since a loan needs local state.
LEMMA OptInEndsNone ==
    ASSUME Inv, NEW u \in Accounts, OptIn(u) \/ ClearState(u),
           NEW v \in Accounts \cap optedIn'
    PROVE  EndsPaidOrOverdue(v)
  <1>1. CASE v = u
    <2>1. OptIn(u)
      BY <1>1 DEF ClearState
    <2>2. loan[u] = NoLoan
      BY <2>1 DEF OptIn, Inv, LoanWellFormed
    <2> QED
      BY <1>1, <2>2 DEF NoLoan, EndsPaidOrOverdue
  <1>2. CASE v # u
    BY <1>2 DEF Inv, TypeOK, OptIn, ClearState, EndsPaidOrOverdue
  <1> QED
    BY <1>1, <1>2

\* Every step ends loans paid or overdue only.
LEMMA StepEndsLoansWell ==
    ASSUME Inv, Next, NEW v \in Accounts \cap optedIn'
    PROVE  EndsPaidOrOverdue(v)
  <1>1. CASE Tick \/ NewGroup
    BY <1>1, UntouchedLoansEndWell DEF Tick, NewGroup, localVars
  <1>2. CASE \E a \in PaymentAmounts : Fund(a)
    BY <1>2, UntouchedLoansEndWell DEF Fund, localVars
  <1>3. ASSUME NEW sender \in Accounts \cup {Creator},
               \/ AppOptInUsdc(sender)
               \/ \E a \in PaymentAmounts : AdminAddPoolLiquidity(sender, a)
               \/ \E u \in Accounts : LiquidateDefault(sender, u)
        PROVE  EndsPaidOrOverdue(v)
    BY <1>3, UntouchedLoansEndWell, LiquidateEndsOverdue
       DEF AppOptInUsdc, AdminAddPoolLiquidity, localVars
  <1>4. ASSUME NEW u \in Accounts, OptIn(u) \/ ClearState(u)
        PROVE  EndsPaidOrOverdue(v)
    BY <1>4, OptInEndsNone
  <1>5. ASSUME NEW u \in Accounts, NEW a \in PaymentAmounts, Deposit(u, a) \/ Repay(u, a)
        PROVE  EndsPaidOrOverdue(v)
    BY <1>5, UntouchedLoansEndWell, RepayEndsPaid DEF Deposit
  <1>6. ASSUME NEW u \in Accounts, NEW s \in ShareAmounts, Withdraw(u, s)
        PROVE  EndsPaidOrOverdue(v)
    BY <1>6, UntouchedLoansEndWell DEF Withdraw
  <1>7. ASSUME NEW u \in Accounts, NEW a \in LoanAmounts, NEW d \in LoanDays,
               \/ RequestUnsecuredLoan(u, a, d)
               \/ \E m, c \in UsdcAmounts : RequestCollateralLoan(u, a, d, m, c)
        PROVE  EndsPaidOrOverdue(v)
    BY <1>7, OpenLoanEndsNone
  <1> QED
    BY <1>1, <1>2, <1>3, <1>4, <1>5, <1>6, <1>7 DEF Next

\* A borrower that keeps its local state leaves a loan by paying the whole debt
\* into the pool or after its due time, banned if the loan was unsecured.
THEOREM LoanEndsPaidOrOverdueHolds == Spec => LoanEndsPaidOrOverdue
  <1>1. Inv /\ [Next]_vars =>
            [\A u \in Accounts \cap optedIn' :
                loan[u].loan_active = 1 /\ loan'[u].loan_active = 0 =>
                    \/ pool' - pool = loan[u].due_amount
                    \/ /\ now > loan[u].due_ts
                       /\ loan[u].loan_type = 2 => aura'[u].aura_blacklisted = 1]_vars
    BY StepEndsLoansWell DEF EndsPaidOrOverdue
  <1> QED
    BY <1>1, InvHolds, PTL DEF Spec, LoanEndsPaidOrOverdue

-----------------------------------------------------------------------------
(* Sums over a finite set.  SumFunction adds up a function by a recursion  *)
(* over the subsets of its domain that picks an element by CHOOSE.         *)

\* Induction over the subsets of a finite set, along the well-founded order of
\* strict inclusion: H holds what is to be shown of a subset.
LEMMA FiniteInduction ==
    ASSUME NEW S, IsFiniteSet(S), NEW H,
           \A T \in SUBSET S : (\A U \in SUBSET T : U # T => U \in H) => T \in H
    PROVE  SUBSET S \subseteq H
  <1> DEFINE Bad == {T \in SUBSET S : T \notin H}
  <1>1. IsWellFoundedOn(StrictSubsetOrdering(S), SUBSET S)
    BY FS_FiniteSubsetsOfFinite, FS_StrictSubsetOrderingWellFounded, Zenon
  <1>2. SUFFICES ASSUME Bad # {} PROVE FALSE
    OBVIOUS
  <1>3. PICK T \in Bad : \A U \in Bad : <<U, T>> \notin StrictSubsetOrdering(S)
    <2> HIDE DEF Bad
    <2>1. Bad \subseteq SUBSET S BY DEF Bad
    <2>2. \A R, V, B : IsWellFoundedOn(R, V) /\ B \subseteq V /\ B # {}
                => \E x \in B : \A y \in B : ~ (<<y, x>> \in R)
      <3> TAKE R, V, B
      <3> HAVE IsWellFoundedOn(R, V) /\ B \subseteq V /\ B # {}
      <3> QED BY WFMin, SMT
    <2>3. \E x \in Bad : \A y \in Bad : ~ (<<y, x>> \in StrictSubsetOrdering(S))
      BY <1>1, <1>2, <2>1, <2>2, SMT
    <2> QED BY <2>3
  <1>4. \A U \in SUBSET T : U # T => U \in H
    BY <1>3, Zenon DEF StrictSubsetOrdering
  <1> QED
    BY <1>3, <1>4

\* What a sum is computed by: a function g on the subsets of S that takes one
\* element out of each, the one CHOOSE picks.
FoldStep(f, g, s) ==
    IF s = {} THEN 0
    ELSE f[CHOOSE x \in s : TRUE] + g[s \ {CHOOSE x \in s : TRUE}]
IsFold(f, S, g) == g = [s \in SUBSET S |-> FoldStep(f, g, s)]

\* Two such functions agree wherever both are defined.
LEMMA FoldIsUnique ==
    ASSUME NEW f, NEW S, IsFiniteSet(S), NEW R, NEW g, NEW h,
           IsFold(f, S, g), IsFold(f, R, h)
    PROVE  \A s \in (SUBSET S) \cap (SUBSET R) : g[s] = h[s]
  <1> DEFINE Agree == {s \in SUBSET S : s \in SUBSET R => g[s] = h[s]}
  <1>1. ASSUME NEW s \in SUBSET S, \A U \in SUBSET s : U # s => U \in Agree
        PROVE  s \in Agree
    <2> SUFFICES ASSUME s \in SUBSET R PROVE g[s] = h[s]
      OBVIOUS
    <2> DEFINE c == CHOOSE x \in s : TRUE
    <2>1. g[s] = FoldStep(f, g, s) /\ h[s] = FoldStep(f, h, s)
      BY Zenon DEF IsFold
    <2>2. CASE s = {}
      BY <2>1, <2>2 DEF FoldStep
    <2>3. CASE s # {}
      <3>1. c \in s
        BY <2>3
      <3>2. g[s \ {c}] = h[s \ {c}]
        BY <1>1, <3>1
      <3> QED
        BY <2>1, <2>3, <3>2 DEF FoldStep
    <2> QED
      BY <2>2, <2>3
  <1>2. SUBSET S \subseteq Agree
    <2> HIDE DEF Agree
    <2> QED BY <1>1, FiniteInduction
  <1> QED
    BY <1>2

\* There is one for every finite set.
LEMMA FoldExists ==
    ASSUME NEW f, NEW S, IsFiniteSet(S)
    PROVE  \E g : IsFold(f, S, g)
  <1> DEFINE Good == {T \in SUBSET S : \E g : IsFold(f, T, g)}
             Below(s) == CHOOSE g : IsFold(f, s, g)
  <1>1. ASSUME NEW T \in SUBSET S, \A U \in SUBSET T : U # T => U \in Good
        PROVE  T \in Good
    <2> DEFINE c(s) == CHOOSE x \in s : TRUE
               Value(s) == IF s = {} THEN 0 ELSE f[c(s)] + Below(s \ {c(s)})[s \ {c(s)}]
               G == [s \in SUBSET T |-> Value(s)]
    <2>1. \A U \in SUBSET T : U # T => IsFold(f, U, Below(U))
      BY <1>1
    <2>2. ASSUME NEW s \in SUBSET T
          PROVE  G[s] = FoldStep(f, G, s)
      <3>1. CASE s = {}
        BY <3>1 DEF FoldStep
      <3>2. CASE s # {}
        <4> DEFINE r == s \ {c(s)}
        <4>1. c(s) \in s /\ r \in SUBSET T /\ r # T
          BY <3>2
        <4>2. IsFold(f, r, Below(r))
          BY <2>1, <4>1
        <4>3. Below(r)[r] = FoldStep(f, Below(r), r)
          BY <4>2, Zenon DEF IsFold
        <4>4. Below(r)[r] = Value(r)
          <5>1. CASE r = {}
            BY <4>3, <5>1 DEF FoldStep
          <5>2. CASE r # {}
            <6> DEFINE q == r \ {c(r)}
            <6>1. c(r) \in r /\ q \in SUBSET T /\ q # T /\ q \in SUBSET r
              BY <4>1, <5>2
            <6>2. IsFold(f, q, Below(q)) /\ IsFiniteSet(q)
              BY <2>1, <6>1, FS_Subset
            <6>3. Below(q)[q] = Below(r)[q]
              <7> HIDE DEF q, r, Below
              <7> QED BY <4>2, <6>1, <6>2, FoldIsUnique
            <6> QED
              BY <4>3, <5>2, <6>3 DEF FoldStep
          <5> QED
            BY <5>1, <5>2
        <4>5. G[r] = Value(r)
          BY <4>1
        <4> QED
          BY <3>2, <4>4, <4>5 DEF FoldStep
      <3> QED
        BY <3>1, <3>2
    <2>3. IsFold(f, T, G)
      BY <2>2, Zenon DEF IsFold
    <2> QED
      BY <2>3
  <1>2. SUBSET S \subseteq Good
    <2> HIDE DEF Good
    <2> QED BY <1>1, FiniteInduction
  <1> QED
    BY <1>2

\* A sum over a subset is its value there.
LEMMA SumIsFold ==
    ASSUME NEW f, NEW S, IsFiniteSet(S), NEW g, IsFold(f, S, g), NEW T \in SUBSET S
    PROVE  SumFunctionOnSet(f, T) = g[T]
  <1>1. PICK h : IsFold(f, T, h) /\ SumFunctionOnSet(f, T) = h[T]
    <2> DEFINE k == CHOOSE k : IsFold(f, T, k)
    <2>1. SumFunctionOnSet(f, T) = k[T]
      BY DEF SumFunctionOnSet, FoldFunctionOnSet, MapThenFoldSet, IsFold, FoldStep
    <2>2. IsFold(f, T, k)
      BY FS_Subset, FoldExists
    <2> QED
      BY <2>1, <2>2, Zenon
  <1>2. IsFold(f, T, h) /\ IsFold(f, S, g) /\ IsFiniteSet(S) /\ T \in (SUBSET S) \cap (SUBSET T)
    BY <1>1
  <1>3. g[T] = h[T]
    BY <1>2, FoldIsUnique
  <1> QED
    BY <1>1, <1>3

\* A sum over a set that is not empty is some summand and the sum of the rest.
LEMMA SumUnfolds ==
    ASSUME NEW f, NEW S, IsFiniteSet(S), S # {}
    PROVE  \E c \in S : SumFunctionOnSet(f, S) = f[c] + SumFunctionOnSet(f, S \ {c})
  <1>1. PICK g : IsFold(f, S, g)
    BY FoldExists
  <1> DEFINE c == CHOOSE x \in S : TRUE
  <1>2. c \in S
    OBVIOUS
  <1>3. g[S] = f[c] + g[S \ {c}]
    <2>1. g[S] = FoldStep(f, g, S)
      BY <1>1, Zenon DEF IsFold
    <2> QED BY <2>1 DEF FoldStep
  <1> HIDE DEF c
  <1>4. SumFunctionOnSet(f, S) = g[S] /\ SumFunctionOnSet(f, S \ {c}) = g[S \ {c}]
    BY <1>1, SumIsFold
  <1> QED
    BY <1>2, <1>3, <1>4

\* The empty sum is zero.
LEMMA SumOfNothing == ASSUME NEW f PROVE SumFunctionOnSet(f, {}) = 0
  <1>1. PICK g : IsFold(f, {}, g)
    BY FoldExists, FS_EmptySet
  <1>2. g[{}] = FoldStep(f, g, {})
    BY <1>1, Zenon DEF IsFold
  <1> QED
    BY <1>1, <1>2, SumIsFold, FS_EmptySet DEF FoldStep

\* A sum of integers is an integer.
LEMMA SumIsInt ==
    ASSUME NEW S, IsFiniteSet(S), NEW f, \A x \in S : f[x] \in Int
    PROVE  \A T \in SUBSET S : SumFunctionOnSet(f, T) \in Int
  <1> DEFINE Good == {T \in SUBSET S : SumFunctionOnSet(f, T) \in Int}
  <1>1. ASSUME NEW T \in SUBSET S, \A U \in SUBSET T : U # T => U \in Good
        PROVE  T \in Good
    <2>1. CASE T = {}
      BY <2>1, SumOfNothing
    <2>2. CASE T # {}
      <3>1. IsFiniteSet(T)
        BY FS_Subset
      <3>2. PICK c \in T : SumFunctionOnSet(f, T) = f[c] + SumFunctionOnSet(f, T \ {c})
        BY <2>2, <3>1, SumUnfolds
      <3>3. SumFunctionOnSet(f, T \ {c}) \in Int
        BY <1>1
      <3> QED
        BY <3>2, <3>3
    <2> QED
      BY <2>1, <2>2
  <1>2. SUBSET S \subseteq Good
    <2> HIDE DEF Good
    <2> QED BY <1>1, FiniteInduction
  <1> QED
    BY <1>2

\* The order of summation does not matter: any summand may be taken out.
LEMMA SumTakesOut ==
    ASSUME NEW S, IsFiniteSet(S), NEW f, \A x \in S : f[x] \in Int
    PROVE  \A T \in SUBSET S : \A x \in T :
              SumFunctionOnSet(f, T) = f[x] + SumFunctionOnSet(f, T \ {x})
  <1> DEFINE Sum(T) == SumFunctionOnSet(f, T)
             Good == {T \in SUBSET S : \A x \in T : Sum(T) = f[x] + Sum(T \ {x})}
  <1>1. ASSUME NEW T \in SUBSET S, \A U \in SUBSET T : U # T => U \in Good
        PROVE  T \in Good
    <2> SUFFICES ASSUME NEW x \in T PROVE Sum(T) = f[x] + Sum(T \ {x})
      OBVIOUS
    <2>1. IsFiniteSet(T)
      BY FS_Subset
    <2>2. PICK c \in T : Sum(T) = f[c] + Sum(T \ {c})
      BY <2>1, SumUnfolds
    <2>3. CASE c # x
      <3>1. Sum(T \ {c}) = f[x] + Sum((T \ {c}) \ {x})
        BY <1>1, <2>3
      <3>2. Sum(T \ {x}) = f[c] + Sum((T \ {x}) \ {c})
        BY <1>1, <2>3
      <3>3. (T \ {c}) \ {x} = (T \ {x}) \ {c}
        OBVIOUS
      <3>4. Sum((T \ {c}) \ {x}) \in Int /\ f[c] \in Int /\ f[x] \in Int
        BY SumIsInt
      <3>5. Sum(T) = f[c] + (f[x] + Sum((T \ {c}) \ {x}))
        BY <2>2, <3>1
      <3>6. f[x] + Sum(T \ {x}) = f[x] + (f[c] + Sum((T \ {c}) \ {x}))
        BY <3>2, <3>3
      <3>7. \A a, b, r \in Int : b + (a + r) = a + (b + r)
        OBVIOUS
      <3> QED
        BY <3>4, <3>5, <3>6, <3>7
    <2> QED
      BY <2>2, <2>3
  <1>2. SUBSET S \subseteq Good
    <2> HIDE DEF Good
    <2> QED BY <1>1, FiniteInduction
  <1> QED
    BY <1>2

\* A sum depends on nothing but its summands.
LEMMA SumDependsOnValues ==
    ASSUME NEW S, IsFiniteSet(S), NEW f, NEW g, \A x \in S : f[x] = g[x]
    PROVE  SumFunctionOnSet(f, S) = SumFunctionOnSet(g, S)
  <1>1. PICK F : IsFold(f, S, F)
    BY FoldExists
  <1>2. IsFold(g, S, F)
    <2>1. \A s \in SUBSET S : FoldStep(f, F, s) = FoldStep(g, F, s)
      BY DEF FoldStep
    <2> QED BY <1>1, <2>1, Zenon DEF IsFold
  <1> QED
    BY <1>1, <1>2, SumIsFold

\* A sum of zeros is zero.
LEMMA SumOfZeros ==
    ASSUME NEW S, IsFiniteSet(S)
    PROVE  SumFunction([x \in S |-> 0]) = 0
  <1> DEFINE z == [x \in S |-> 0]
             Good == {T \in SUBSET S : SumFunctionOnSet(z, T) = 0}
  <1>1. ASSUME NEW T \in SUBSET S, \A U \in SUBSET T : U # T => U \in Good
        PROVE  T \in Good
    <2>1. CASE T = {}
      BY <2>1, SumOfNothing
    <2>2. CASE T # {}
      <3>1. IsFiniteSet(T)
        BY FS_Subset
      <3>2. PICK c \in T : SumFunctionOnSet(z, T) = z[c] + SumFunctionOnSet(z, T \ {c})
        BY <2>2, <3>1, SumUnfolds
      <3>3. SumFunctionOnSet(z, T \ {c}) = 0 /\ z[c] = 0
        BY <1>1
      <3> QED
        BY <3>2, <3>3
    <2> QED
      BY <2>1, <2>2
  <1>2. SUBSET S \subseteq Good
    <2> HIDE DEF Good
    <2> QED BY <1>1, FiniteInduction
  <1>3. SumFunctionOnSet(z, S) = 0 /\ DOMAIN z = S
    BY <1>2
  <1> QED
    BY <1>3 DEF SumFunction

\* A sum moves by what one of its summands moves by.
LEMMA SumChanges ==
    ASSUME NEW S, IsFiniteSet(S), NEW f \in [S -> Int], NEW g \in [S -> Int], NEW x \in S,
           \A y \in S \ {x} : g[y] = f[y]
    PROVE  /\ SumFunction(f) \in Int
           /\ SumFunction(g) = SumFunction(f) - f[x] + g[x]
  <1>1. SumFunctionOnSet(f, S) = f[x] + SumFunctionOnSet(f, S \ {x})
    BY SumTakesOut
  <1>2. SumFunctionOnSet(g, S) = g[x] + SumFunctionOnSet(g, S \ {x})
    BY SumTakesOut
  <1>3. SumFunctionOnSet(g, S \ {x}) = SumFunctionOnSet(f, S \ {x})
    BY FS_RemoveElement, SumDependsOnValues
  <1>4. SumFunctionOnSet(f, S) \in Int /\ SumFunctionOnSet(f, S \ {x}) \in Int
    BY SumIsInt
  <1> QED
    BY <1>1, <1>2, <1>3, <1>4 DEF SumFunction

-----------------------------------------------------------------------------
(* What the contract owes is there: the holders' shares, the borrowers'    *)
(* collateral.                                                             *)

Backed == SharesBacked /\ CollateralBacked

Collateral == [u \in Accounts |-> loan[u].collateral_usdc]

\* Nothing is owed before the first call.
LEMMA InitBacked == Init => Backed
  <1> SUFFICES ASSUME Init PROVE Backed
    OBVIOUS
  <1>1. SumFunction(shares) = 0
    BY SumOfZeros, AccountsAssumption DEF Init
  <1>2. Collateral = [u \in Accounts |-> 0]
    BY DEF Init, Collateral, NoLoan
  <1>3. SumFunction(Collateral) = 0
    BY <1>2, SumOfZeros, AccountsAssumption
  <1>4. total_shares = 0 /\ appUsdc = 0 /\ usdcAgain = 0
    BY DEF Init
  <1> QED
    BY <1>1, <1>3, <1>4 DEF Backed, SharesBacked, CollateralBacked, Collateral

\* Moving one account's shares keeps the sum covered when total_shares moves by
\* at least as much.
LEMMA SharesMove ==
    ASSUME TypeOK, TypeOK', SharesBacked, NEW u \in Accounts,
           \A v \in Accounts \ {u} : shares'[v] = shares[v],
           total_shares' - total_shares >= shares'[u] - shares[u]
    PROVE  SharesBacked'
  <1>1. shares \in [Accounts -> Int] /\ shares' \in [Accounts -> Int]
    BY AlgoPoolAssumption DEF TypeOK, UInt64
  <1>2. /\ SumFunction(shares) \in Int
        /\ SumFunction(shares') = SumFunction(shares) - shares[u] + shares'[u]
    BY <1>1, SumChanges, AccountsAssumption
  <1>3. /\ shares[u] \in Int /\ shares'[u] \in Int
        /\ total_shares \in Int /\ total_shares' \in Int
    BY <1>1, AlgoPoolAssumption DEF TypeOK, UInt64
  <1> QED
    BY <1>2, <1>3 DEF SharesBacked

\* Rewriting one account's loan keeps the collateral covered when the USDC the
\* application was told of moves by at least as much.
LEMMA CollateralMoves ==
    ASSUME TypeOK, TypeOK', CollateralBacked, NEW u \in Accounts,
           \A v \in Accounts \ {u} : loan'[v] = loan[v],
           (appUsdc' + usdcAgain') - (appUsdc + usdcAgain)
             >= loan'[u].collateral_usdc - loan[u].collateral_usdc
    PROVE  CollateralBacked'
  <1>1. /\ \A v \in Accounts : /\ loan[v].collateral_usdc \in Int
                              /\ loan'[v].collateral_usdc \in Int
        /\ appUsdc + usdcAgain \in Int /\ appUsdc' + usdcAgain' \in Int
    BY AlgoPoolAssumption DEF TypeOK, Loan, UInt64
  <1>2. Collateral \in [Accounts -> Int] /\ Collateral' \in [Accounts -> Int]
    BY <1>1 DEF Collateral
  <1>3. \A v \in Accounts \ {u} : Collateral'[v] = Collateral[v]
    BY DEF Collateral
  <1>4. /\ SumFunction(Collateral) \in Int
        /\ SumFunction(Collateral') = SumFunction(Collateral) - Collateral[u] + Collateral'[u]
    BY <1>2, <1>3, SumChanges, AccountsAssumption
  <1>5. /\ Collateral[u] = loan[u].collateral_usdc
        /\ Collateral'[u] = loan'[u].collateral_usdc
    BY DEF Collateral
  <1>6. SumFunction(Collateral) <= appUsdc + usdcAgain
    BY DEF CollateralBacked, Collateral
  <1>7. SumFunction(Collateral') <= appUsdc' + usdcAgain'
    BY <1>1, <1>4, <1>5, <1>6
  <1> QED
    BY <1>7 DEF CollateralBacked, Collateral

\* Steps that touch neither shares nor loans nor the application's USDC.
LEMMA NothingOwedMoves ==
    ASSUME Backed, UNCHANGED <<total_shares, shares, loan, appUsdc, usdcAgain>>
    PROVE  Backed'
  BY DEF Backed, SharesBacked, CollateralBacked

\* A deposit gives one account the shares it mints, a withdrawal burns them.
LEMMA ShareCallsBacked ==
    ASSUME TypeOK, TypeOK', Backed, NEW u \in Accounts, NEW n \in Nat,
           Deposit(u, n) \/ Withdraw(u, n)
    PROVE  Backed'
  <1>1. PICK delta : /\ shares' = [shares EXCEPT ![u] = @ + delta]
                     /\ total_shares' = total_shares + delta
                     /\ delta = SharesMinted(n) \/ delta = -n
    BY DEF Deposit, Withdraw, MoveShares
  <1>2. /\ \A v \in Accounts \ {u} : shares'[v] = shares[v]
        /\ shares'[u] = shares[u] + delta
    BY <1>1 DEF TypeOK
  <1>3. UNCHANGED <<loan, appUsdc, usdcAgain>>
    BY NamedPayment DEF Deposit, Withdraw
  <1>4. delta \in Int /\ total_shares \in Int /\ shares[u] \in Int
    BY <1>1, SharesMintedIsNat, AlgoPoolAssumption DEF TypeOK, UInt64
  <1>5. total_shares' - total_shares >= shares'[u] - shares[u]
    BY <1>1, <1>2, <1>4
  <1>6. SharesBacked'
    BY <1>2, <1>5, SharesMove DEF Backed
  <1> QED
    BY <1>3, <1>6 DEF Backed, CollateralBacked

\* An account that opts in or clears its state has no shares and no loan left.
LEMMA OptInAndClearBacked ==
    ASSUME TypeOK, TypeOK', Backed, NEW u \in Accounts, OptIn(u) \/ ClearState(u)
    PROVE  Backed'
  <1>1. /\ shares' = [shares EXCEPT ![u] = 0] /\ loan' = [loan EXCEPT ![u] = NoLoan]
        /\ UNCHANGED <<total_shares, appUsdc, usdcAgain>>
    BY DEF OptIn, ClearState
  <1>2. \A v \in Accounts \ {u} : shares'[v] = shares[v] /\ loan'[v] = loan[v]
    BY <1>1 DEF TypeOK
  <1>3. /\ shares'[u] = 0 /\ loan'[u].collateral_usdc = 0
        /\ shares[u] \in Nat /\ loan[u].collateral_usdc \in Nat
        /\ total_shares \in Nat /\ appUsdc + usdcAgain \in Nat
    BY <1>1, AlgoPoolAssumption DEF TypeOK, Loan, NoLoan, UInt64
  <1>4. SharesBacked'
    BY <1>1, <1>2, <1>3, SharesMove DEF Backed
  <1>5. CollateralBacked'
    BY <1>1, <1>2, <1>3, CollateralMoves DEF Backed
  <1> QED
    BY <1>4, <1>5 DEF Backed

\* A loan request that passes its checks finds no earlier loan of the account,
\* so the collateral it records is the collateral it was told of.
LEMMA LoanRequestBacked ==
    ASSUME Inv, TypeOK', Backed, NEW u \in Accounts, NEW a, NEW d,
           \/ RequestUnsecuredLoan(u, a, d)
           \/ \E m, c \in UsdcAmounts : RequestCollateralLoan(u, a, d, m, c)
    PROVE  Backed'
  <1>1. loan[u] = NoLoan
    BY DEF RequestUnsecuredLoan, RequestCollateralLoan, CanBorrow, Inv, LoanWellFormed
  <1>2. PICK terms : /\ OpenLoan(u, terms)
                     /\ appUsdc' + usdcAgain' = appUsdc + usdcAgain + terms.collateral_usdc
    <2>1. CASE RequestUnsecuredLoan(u, a, d)
      <3>1. appUsdc' + usdcAgain' = appUsdc + usdcAgain + 0
        BY <2>1, AlgoPoolAssumption DEF RequestUnsecuredLoan, Inv, TypeOK, UInt64
      <3> QED
        BY <2>1, <3>1 DEF RequestUnsecuredLoan, LoanTerms
    <2>2. ASSUME NEW m \in UsdcAmounts, NEW c \in UsdcAmounts,
                 RequestCollateralLoan(u, a, d, m, c)
          PROVE  \E terms : /\ OpenLoan(u, terms)
                            /\ appUsdc' + usdcAgain'
                                 = appUsdc + usdcAgain + terms.collateral_usdc
      BY <2>2, NamedTransfer, AlgoPoolAssumption DEF Inv, RequestCollateralLoan, LoanTerms
    <2> QED
      BY <2>1, <2>2
  <1>3. /\ loan'[u] = terms
        /\ \A v \in Accounts \ {u} : loan'[v] = loan[v]
        /\ UNCHANGED <<shares, total_shares>>
    BY <1>2 DEF OpenLoan, Inv, TypeOK
  <1>4. /\ terms.collateral_usdc \in Nat /\ appUsdc + usdcAgain \in Nat
        /\ loan[u].collateral_usdc = 0
    BY <1>1, <1>3, AlgoPoolAssumption DEF Inv, TypeOK, Loan, NoLoan, UInt64
  <1>5. CollateralBacked'
    BY <1>2, <1>3, <1>4, CollateralMoves DEF Inv, Backed
  <1> QED
    BY <1>3, <1>5 DEF Backed, SharesBacked

\* A loan that is repaid or liquidated pays out the collateral it recorded.
LEMMA LoanEndBacked ==
    ASSUME TypeOK, TypeOK', Backed, NEW u \in Accounts,
           \/ \E a \in PaymentAmounts : Repay(u, a)
           \/ \E sender : LiquidateDefault(sender, u)
    PROVE  Backed'
  <1>1. /\ loan' = [loan EXCEPT ![u] = NoLoan]
        /\ appUsdc' = appUsdc - loan[u].collateral_usdc
        /\ UNCHANGED <<shares, total_shares, usdcAgain>>
    BY AlgoPoolAssumption, NamedPayment
       DEF Repay, LiquidateDefault, Defaulted, PayUsdc, Closed
  <1>2. /\ loan'[u].collateral_usdc = 0
        /\ \A v \in Accounts \ {u} : loan'[v] = loan[v]
    BY <1>1 DEF TypeOK, NoLoan
  <1>3. loan[u].collateral_usdc \in Nat /\ appUsdc \in Nat /\ usdcAgain \in Nat
    BY AlgoPoolAssumption DEF TypeOK, Loan, UInt64
  <1>4. CollateralBacked'
    BY <1>1, <1>2, <1>3, CollateralMoves DEF Backed
  <1> QED
    BY <1>1, <1>4 DEF Backed, SharesBacked

\* Every step keeps what the contract owes covered.
LEMMA NextBacked == Inv /\ Inv' /\ Backed /\ [Next]_vars => Backed'
  <1> SUFFICES ASSUME Inv, TypeOK', Backed, [Next]_vars PROVE Backed'
    BY DEF Inv
  <1>1. CASE UNCHANGED vars
    BY <1>1, NothingOwedMoves DEF vars
  <1>2. CASE Tick \/ NewGroup
    BY <1>2, NothingOwedMoves DEF Tick, NewGroup, localVars
  <1>3. CASE \E a \in PaymentAmounts : Fund(a)
    BY <1>3, NothingOwedMoves DEF Fund, localVars
  <1>4. ASSUME NEW sender \in Accounts \cup {Creator},
               \/ AppOptInUsdc(sender)
               \/ \E a \in PaymentAmounts : AdminAddPoolLiquidity(sender, a)
               \/ \E u \in Accounts : LiquidateDefault(sender, u)
        PROVE  Backed'
    <2>1. CASE AppOptInUsdc(sender)
      BY <2>1, NothingOwedMoves DEF AppOptInUsdc, localVars
    <2>2. CASE \E a \in PaymentAmounts : AdminAddPoolLiquidity(sender, a)
      BY <2>2, AlgoPoolAssumption, NamedPayment, NothingOwedMoves
         DEF Inv, AdminAddPoolLiquidity, localVars
    <2>3. CASE \E u \in Accounts : LiquidateDefault(sender, u)
      BY <2>3, LoanEndBacked DEF Inv
    <2> QED
      BY <1>4, <2>1, <2>2, <2>3
  <1>5. ASSUME NEW u \in Accounts, OptIn(u) \/ ClearState(u)
        PROVE  Backed'
    BY <1>5, OptInAndClearBacked DEF Inv
  <1>6. ASSUME NEW u \in Accounts, NEW a \in PaymentAmounts, Deposit(u, a) \/ Repay(u, a)
        PROVE  Backed'
    BY <1>6, AlgoPoolAssumption, ShareCallsBacked, LoanEndBacked DEF Inv
  <1>7. ASSUME NEW u \in Accounts, NEW s \in ShareAmounts, Withdraw(u, s)
        PROVE  Backed'
    BY <1>7, AlgoPoolAssumption, ShareCallsBacked DEF Inv
  <1>8. ASSUME NEW u \in Accounts, NEW a \in LoanAmounts, NEW d \in LoanDays,
               \/ RequestUnsecuredLoan(u, a, d)
               \/ \E m, c \in UsdcAmounts : RequestCollateralLoan(u, a, d, m, c)
        PROVE  Backed'
    BY <1>8, LoanRequestBacked
  <1> QED
    BY <1>1, <1>2, <1>3, <1>4, <1>5, <1>6, <1>7, <1>8 DEF Next

\* What the contract owes is always covered.
LEMMA BackedHolds == Spec => []Backed
  BY InvHolds, InitBacked, NextBacked, PTL DEF Spec

\* The shares of all accounts together never exceed total_shares, however many
\* accounts deposit, withdraw, clear their state and come back.
THEOREM SharesBackedHolds == Spec => []SharesBacked
  <1>1. Backed => SharesBacked
    BY DEF Backed
  <1> QED
    BY <1>1, BackedHolds, PTL

\* The application holds the collateral of all open loans together, but for the
\* transfers that groups named over again: without any, no repayment or
\* liquidation is refused because another one came first.
THEOREM CollateralBackedHolds == Spec => []CollateralBacked
  <1>1. Backed => CollateralBacked
    BY DEF Backed
  <1> QED
    BY <1>1, BackedHolds, PTL

=============================================================================
