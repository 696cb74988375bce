------------------------- MODULE LoanBookRefinement -------------------------
(***************************************************************************)
(* The contract's loans implement LoanBook, for every value of the         *)
(* constants: its initial state is a book's, and each of its steps is a    *)
(* step of the book or leaves the book as it is.                           *)
(***************************************************************************)
EXTENDS AlgoPoolProofs

USE DEF groupVars

bookTerms == [u \in Accounts |-> TermsOf(loan[u])]

\* What the contract was told it received, less what it paid out.
bookTill == appAlgo + algoAgain
bookEscrow == appUsdc + usdcAgain

\* What the book shows of one account follows from that account's record.
LEMMA BookTermsOf ==
    ASSUME NEW u \in Accounts
    PROVE  bookTerms[u] = TermsOf(loan[u]) /\ bookTerms'[u] = TermsOf(loan'[u])
  BY DEF bookTerms

\* No loan in the contract is a free borrower in the book.
LEMMA NoLoanIsFree == TermsOf(NoLoan) = Book!Free
  BY DEF TermsOf, NoLoan, Book!Free

\* A well-formed open loan of type t appears with its kind and amounts.
LEMMA LoanTermsInBook ==
    ASSUME NEW l \in Loan, l.loan_type \in {1, 2}
    PROVE  /\ TermsOf(l) \in Book!Terms
           /\ TermsOf(l).kind # "none"
           /\ TermsOf(l).kind = "unsecured" <=> l.loan_type = 2
           /\ TermsOf(l).due = l.due_amount
           /\ TermsOf(l).pledge = l.collateral_usdc
           /\ TermsOf(l).deadline = l.due_ts
  BY AlgoPoolAssumption DEF TermsOf, Loan, UInt64, Book!Terms

\* Changing one account's record changes one line of the book.
LEMMA OneLine ==
    ASSUME TypeOK, NEW u \in Accounts, NEW l, loan' = [loan EXCEPT ![u] = l]
    PROVE  /\ loan'[u] = l
           /\ \A v \in Accounts \ {u} : bookTerms'[v] = bookTerms[v]
  BY BookTermsOf DEF TypeOK

\* Initial states map to initial states.
LEMMA InitMapsToInit == Init => Book!BookInit
  BY NoLoanIsFree DEF Init, Book!BookInit, NoAura

-----------------------------------------------------------------------------
\* A loan opened by the contract is a grant in the book.
LEMMA GrantMaps ==
    ASSUME Inv, TypeOK', NEW u \in Accounts, NEW type \in {1, 2},
           NEW amount \in Nat, NEW days \in Nat, NEW usdc \in UInt64,
           CanBorrow(u, amount, days),
           OpenLoan(u, LoanTerms(type, amount, days, usdc)),
           bookEscrow' = bookEscrow + usdc, algoAgain' = algoAgain,
           type = 2 => usdc = 0
    PROVE  Book!Grant(u)
  <1> DEFINE l == LoanTerms(type, amount, days, usdc)
  <1>1. l \in Loan /\ l.loan_type = type
    BY LoanTermsTyped DEF Inv, LoanTerms
  <1>2. loan[u] = NoLoan
    BY DEF Inv, LoanWellFormed, CanBorrow
  <1>3. /\ loan'[u] = l
        /\ \A v \in Accounts \ {u} : bookTerms'[v] = bookTerms[v]
    BY OneLine DEF Inv, OpenLoan
  <1>4. bookTerms[u] = Book!Free
    BY <1>2, BookTermsOf, NoLoanIsFree
  <1>5. /\ bookTerms'[u] \in Book!Terms
        /\ bookTerms'[u].kind # "none"
        /\ bookTerms'[u].kind = "unsecured" <=> type = 2
        /\ bookTerms'[u].due = amount + Interest(amount, days)
        /\ bookTerms'[u].pledge = usdc
        /\ bookTerms'[u].deadline = now + days * SecondsPerDay
    BY <1>1, <1>3, BookTermsOf, LoanTermsInBook DEF LoanTerms
  <1>6. /\ now' = now /\ appAlgo' = appAlgo - amount
        /\ u \in optedIn /\ optedIn' = optedIn
    BY DEF OpenLoan, PayAlgo, LoanTerms, CanBorrow
  <1>7. /\ days * SecondsPerDay \in Nat /\ Interest(amount, days) \in Nat
        /\ bookTill \in Nat /\ bookTill' = bookTill - amount
        /\ now \in Nat /\ amount > 0
    BY <1>6, ProductIsNat, InterestIsNat, AlgoPoolAssumption
       DEF Inv, TypeOK, UInt64, CanBorrow, bookTill
  <1>8. now + days * SecondsPerDay >= now
    BY <1>7
  <1>9. /\ bookTill' < bookTill
        /\ amount + Interest(amount, days) >= bookTill - bookTill'
    BY <1>7
  <1> QED
    BY <1>3, <1>4, <1>5, <1>6, <1>8, <1>9
       DEF Book!Grant, Book!OnlyTermsOf, bookTerms, bookTill, bookEscrow

\* A collateral loan maps to a secured grant.
LEMMA CollateralLoanMaps ==
    ASSUME Inv, NEW u \in Accounts, NEW a \in LoanAmounts, NEW d \in LoanDays,
           NEW m \in UsdcAmounts, NEW c \in UsdcAmounts,
           RequestCollateralLoan(u, a, d, m, c)
    PROVE  Book!Grant(u)
  <1>1. TypeOK'
    BY RequestCollateralLoanTyped DEF Inv
  <1>2. /\ a \in Nat /\ d \in Nat /\ c \in UInt64
        /\ bookEscrow' = bookEscrow + c /\ algoAgain' = algoAgain
    BY AlgoPoolAssumption, NamedTransfer DEF Inv, RequestCollateralLoan, bookEscrow
  <1>3. CanBorrow(u, a, d) /\ OpenLoan(u, LoanTerms(1, a, d, c))
    BY DEF RequestCollateralLoan
  <1> QED
    BY <1>1, <1>2, <1>3, GrantMaps

\* An unsecured loan maps to an unsecured grant.
LEMMA UnsecuredLoanMaps ==
    ASSUME Inv, NEW u \in Accounts, NEW a \in LoanAmounts, NEW d \in LoanDays,
           RequestUnsecuredLoan(u, a, d)
    PROVE  Book!Grant(u)
  <1>1. TypeOK'
    BY RequestUnsecuredLoanTyped DEF Inv
  <1>2. a \in Nat /\ d \in Nat /\ 0 \in UInt64
    BY AlgoPoolAssumption DEF UInt64
  <1>3. /\ CanBorrow(u, a, d) /\ OpenLoan(u, LoanTerms(2, a, d, 0))
        /\ bookEscrow' = bookEscrow + 0 /\ algoAgain' = algoAgain
    BY AlgoPoolAssumption
       DEF RequestUnsecuredLoan, Inv, TypeOK, UInt64, bookEscrow
  <1> QED
    BY <1>1, <1>2, <1>3, GrantMaps

\* A repayment settles the loan.
LEMMA RepayMaps ==
    ASSUME Inv, NEW u \in Accounts, NEW a \in PaymentAmounts, Repay(u, a)
    PROVE  Book!Settle(u)
  <1>1. loan[u] \in Loan /\ loan[u].loan_type \in {1, 2}
    BY DEF Inv, TypeOK, LoanWellFormed, Repay, NoLoan
  <1>2. /\ loan'[u] = NoLoan
        /\ \A v \in Accounts \ {u} : bookTerms'[v] = bookTerms[v]
    BY OneLine DEF Inv, Repay, Closed
  <1>3. /\ bookTerms[u].kind # "none"
        /\ bookTerms[u].due = loan[u].due_amount
        /\ bookTerms[u].pledge = loan[u].collateral_usdc
        /\ bookTerms'[u] = Book!Free
    BY <1>1, <1>2, BookTermsOf, LoanTermsInBook, NoLoanIsFree
  <1>4. bookTill' = bookTill + a /\ usdcAgain' = usdcAgain
    BY AlgoPoolAssumption, NamedPayment DEF Inv, Repay, bookTill
  <1>5. /\ bookTill' >= bookTill + loan[u].due_amount
        /\ bookEscrow' = bookEscrow - loan[u].collateral_usdc
        /\ now' = now /\ optedIn' = optedIn
    BY <1>1, <1>4, AlgoPoolAssumption
       DEF Inv, TypeOK, Loan, UInt64, Repay, PayUsdc, bookTill, bookEscrow
  <1> QED
    BY <1>2, <1>3, <1>5
       DEF Book!Settle, Book!OnlyTermsOf, bookTerms, bookTill, bookEscrow

\* A liquidation forecloses the loan.
LEMMA LiquidateMaps ==
    ASSUME Inv, NEW sender, NEW u \in Accounts, LiquidateDefault(sender, u)
    PROVE  Book!Foreclose(u)
  <1>1. loan[u] \in Loan /\ loan[u].loan_type \in {1, 2}
    BY DEF Inv, TypeOK, LoanWellFormed, LiquidateDefault, Defaulted, NoLoan
  <1>2. /\ loan'[u] = NoLoan
        /\ \A v \in Accounts \ {u} : bookTerms'[v] = bookTerms[v]
    BY OneLine DEF Inv, LiquidateDefault, Defaulted, Closed
  <1>3. /\ bookTerms[u].kind # "none"
        /\ bookTerms[u].kind = "unsecured" <=> loan[u].loan_type = 2
        /\ bookTerms[u].pledge = loan[u].collateral_usdc
        /\ bookTerms[u].deadline = loan[u].due_ts
        /\ bookTerms'[u] = Book!Free
    BY <1>1, <1>2, BookTermsOf, LoanTermsInBook, NoLoanIsFree
  <1>4. /\ now > loan[u].due_ts
        /\ bookEscrow' = bookEscrow - loan[u].collateral_usdc
        /\ now' = now /\ bookTill' = bookTill /\ optedIn' = optedIn
    BY <1>1, AlgoPoolAssumption
       DEF Inv, TypeOK, Loan, UInt64, LiquidateDefault, Defaulted, PayUsdc, Overdue,
           bookTill, bookEscrow
  <1> QED
    BY <1>2, <1>3, <1>4
       DEF Book!Foreclose, Book!OnlyTermsOf, bookTerms, bookTill, bookEscrow

\* Opting in opens the account's line of the book, clearing the state drops it.
LEMMA RecordMaps ==
    ASSUME Inv, NEW u \in Accounts, OptIn(u) \/ ClearState(u)
    PROVE  Book!Join(u) \/ Book!Leave(u)
  <1>1. /\ loan' = [loan EXCEPT ![u] = NoLoan]
        /\ UNCHANGED <<appUsdc, appAlgo, now, usdcAgain, algoAgain>>
    BY DEF OptIn, ClearState
  <1>2. /\ loan'[u] = NoLoan
        /\ \A v \in Accounts \ {u} : bookTerms'[v] = bookTerms[v]
    BY <1>1, OneLine DEF Inv
  <1>3. bookTerms'[u] = Book!Free
    BY <1>2, BookTermsOf, NoLoanIsFree
  <1>4. Book!Clean(u)
    BY <1>1, <1>2, <1>3 DEF Book!Clean, Book!OnlyTermsOf, bookTerms
  <1> QED
    BY <1>4 DEF Book!Join, Book!Leave, OptIn, ClearState

\* Any other call is trade, or nothing to the book.
LEMMA TradeMaps ==
    ASSUME TypeOK', UNCHANGED <<loan, optedIn, appUsdc, usdcAgain, now>>
    PROVE  Book!Trade
  <1>1. appAlgo' \in Nat /\ algoAgain' \in Nat
    BY AlgoPoolAssumption DEF TypeOK, UInt64
  <1>2. appAlgo' + algoAgain' \in Nat
    <2>1. \A a, b \in Nat : a + b \in Nat
      BY SMT
    <2> QED
      BY <1>1, <2>1
  <1> QED
    BY <1>2 DEF Book!Trade

\* A call that only names a payment of ALGO leaves the escrow alone.
LEMMA PaymentIsNoTransfer ==
    ASSUME Inv, NEW u \in Accounts \cup {Creator}, NEW a \in PaymentAmounts,
           NamesPayment(u, a)
    PROVE  usdcAgain' = usdcAgain
  BY NamedPayment, AlgoPoolAssumption DEF Inv

\* The clock of the book follows the contract's.
LEMMA TickMaps ==
    ASSUME Inv, Tick
    PROVE  Book!Advance
  BY AlgoPoolAssumption DEF Book!Advance, Tick, Inv, TypeOK, UInt64, localVars

-----------------------------------------------------------------------------
\* Every step maps to a step of the book or to a stutter.
LEMMA StepMapsToStep ==
    ASSUME Inv, [Next]_vars
    PROVE  [Book!BookNext]_(Book!bookVars)
  <1> TypeOK'
    BY NextTyped DEF Inv
  <1>1. CASE UNCHANGED vars \/ NewGroup
    BY <1>1 DEF vars, NewGroup, localVars, Book!bookVars
  <1>2. CASE Tick
    BY <1>2, TickMaps DEF Book!BookNext
  <1>3. CASE \E a \in PaymentAmounts : Fund(a)
    BY <1>3, TradeMaps DEF Fund, localVars, Book!BookNext
  <1>4. ASSUME NEW sender \in Accounts \cup {Creator},
               \/ AppOptInUsdc(sender)
               \/ \E a \in PaymentAmounts : AdminAddPoolLiquidity(sender, a)
        PROVE  Book!BookNext
    BY <1>4, TradeMaps, PaymentIsNoTransfer
       DEF AppOptInUsdc, AdminAddPoolLiquidity, localVars, Book!BookNext
  <1>5. ASSUME NEW sender \in Accounts \cup {Creator}, NEW u \in Accounts,
               LiquidateDefault(sender, u)
        PROVE  Book!BookNext
    BY <1>5, LiquidateMaps DEF Book!BookNext
  <1>6. ASSUME NEW u \in Accounts, OptIn(u) \/ ClearState(u)
        PROVE  Book!BookNext
    BY <1>6, RecordMaps DEF Book!BookNext
  <1>7. ASSUME NEW u \in Accounts, NEW a \in PaymentAmounts, Repay(u, a)
        PROVE  Book!BookNext
    BY <1>7, RepayMaps DEF Book!BookNext
  <1>8. ASSUME NEW u \in Accounts,
               \/ \E a \in PaymentAmounts : Deposit(u, a)
               \/ \E s \in ShareAmounts : Withdraw(u, s)
        PROVE  Book!BookNext
    BY <1>8, TradeMaps, PaymentIsNoTransfer DEF Deposit, Withdraw, Book!BookNext
  <1>9. ASSUME NEW u \in Accounts, NEW a \in LoanAmounts, NEW d \in LoanDays,
               \/ RequestUnsecuredLoan(u, a, d)
               \/ \E m, c \in UsdcAmounts : RequestCollateralLoan(u, a, d, m, c)
        PROVE  Book!BookNext
    BY <1>9, UnsecuredLoanMaps, CollateralLoanMaps DEF Book!BookNext
  <1> QED
    BY <1>1, <1>2, <1>3, <1>4, <1>5, <1>6, <1>7, <1>8, <1>9 DEF Next

\* The contract implements the loan book: loans are granted, settled,
\* foreclosed and dropped only as the book allows.
THEOREM ImplementsLoanBookHolds == Spec => ImplementsLoanBook
  <1>1. Init => Book!BookInit
    BY InitMapsToInit
  <1>2. Inv /\ [Next]_vars => [Book!BookNext]_(Book!bookVars)
    BY StepMapsToStep
  <1> QED
    BY <1>1, <1>2, InvHolds, PTL DEF Spec, ImplementsLoanBook, Book!BookSpec
=============================================================================
