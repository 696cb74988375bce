------------------------------ MODULE AlgoPool ------------------------------
(***************************************************************************)
(* The AlgoPool contract: an application account that pools ALGO against   *)
(* shares, lends from the pool against USDC collateral or against AURA,    *)
(* and is repaid or liquidates.  A method call is one atomic transaction   *)
(* group, so it is one action; a failing assert, a 64-bit overflow or an   *)
(* inner transaction the ledger refuses undoes the group, so each of them  *)
(* is a conjunct of the action's guard.                                    *)
(*                                                                         *)
(* The calls of one transaction group follow one another; a call reads a   *)
(* payment of its group by index, and several calls may read the same one. *)
(* Fees and the length of a group are left out.                            *)
(***************************************************************************)
EXTENDS Integers, FiniteSets, Functions

CONSTANTS
    Accounts,            \* the accounts that may opt in to the application
    Creator,             \* Global.creator_address
    MaxUInt,             \* the largest value of a UInt64
    MinBalance,          \* what the ledger reserves for an account and per asset
    DailyInterestBps,    \* daily_interest_bps
    BpsScale,            \* UInt64(10_000)
    MicroalgosPerAlgo,   \* microalgos_per_algo
    MinAuraForUnsecured, \* min_aura_for_unsecured
    LimitBpsOfAura,      \* unsecured_limit_bps_of_aura
    SecondsPerDay,       \* UInt64(86_400)
    PaymentAmounts,      \* amounts callers pay to the application
    LoanAmounts,         \* loan amounts callers ask for
    ShareAmounts,        \* share amounts callers ask for
    UsdcAmounts,         \* collateral amounts callers ask for
    LoanDays,            \* loan durations callers ask for
    MaxFunding,          \* bound: plain payments stop at this balance
    MaxAgain,            \* bound: how much payments named again may add up to
    MaxTime              \* bound: the last timestamp a run reaches

UInt64 == 0 .. MaxUInt

ASSUME AlgoPoolAssumption ==
    /\ MaxUInt \in Nat \ {0} /\ MinBalance \in Nat
    /\ MaxTime \in UInt64 /\ MaxFunding \in UInt64 /\ MaxAgain \in Nat
    /\ DailyInterestBps \in Nat /\ LimitBpsOfAura \in Nat
    /\ BpsScale \in Nat \ {0} /\ MicroalgosPerAlgo \in Nat \ {0}
    /\ MinAuraForUnsecured \in Nat /\ SecondsPerDay \in Nat
    /\ PaymentAmounts \subseteq Nat /\ LoanAmounts \subseteq Nat
    /\ ShareAmounts \subseteq Nat
    /\ UsdcAmounts \subseteq Nat /\ LoanDays \subseteq Nat

\* Sums over the accounts are sums of finitely many: a ledger has no more.
ASSUME AccountsAssumption == IsFiniteSet(Accounts)

VARIABLES
    pool, total_shares,           \* global state
    shares, loan, aura,           \* local state; all zero when not opted in
    optedIn,                      \* accounts that hold local state
    appAlgo, appUsdc, usdcOptedIn,\* the application account on the ledger
    now,                          \* Global.latest_timestamp
    named,                        \* payments of the group that a call has named
    algoAgain, usdcAgain          \* history: the sums of those named again

localVars == <<shares, loan, aura, optedIn>>
groupVars == <<named, algoAgain, usdcAgain>>
vars == <<pool, total_shares, shares, loan, aura, optedIn,
          appAlgo, appUsdc, usdcOptedIn, now, groupVars>>

Loan == [loan_active: {0, 1}, loan_type: 0..2, principal: UInt64,
         interest_due: UInt64, due_amount: UInt64, collateral_usdc: UInt64,
         due_ts: UInt64]
Aura == [aura_earned: UInt64, aura_penalty: UInt64, aura_blacklisted: {0, 1}]

NoLoan == [loan_active |-> 0, loan_type |-> 0, principal |-> 0,
           interest_due |-> 0, due_amount |-> 0, collateral_usdc |-> 0,
           due_ts |-> 0]
NoAura == [aura_earned |-> 0, aura_penalty |-> 0, aura_blacklisted |-> 0]

-----------------------------------------------------------------------------
(* Arithmetic of the contract.  An operation whose result does not fit     *)
(* panics: callers require Fits of every intermediate result.              *)

FitsUnchecked(x) == TRUE
Fits(x) == x <= MaxUInt

InterestToAuraPoints(interest) == interest \div MicroalgosPerAlgo

NetAuraIgnoringPenalty(u) == aura[u].aura_earned
NetAura(u) ==
    IF aura[u].aura_earned >= aura[u].aura_penalty
    THEN aura[u].aura_earned - aura[u].aura_penalty
    ELSE 0

LimitProduct(u) == NetAura(u) * LimitBpsOfAura * MicroalgosPerAlgo
MaxUnsecured(u) == LimitProduct(u) \div BpsScale

SharesMintedRoundedUp(amount) ==
    IF pool = 0 THEN amount ELSE (amount * total_shares + pool - 1) \div pool
SharesMinted(amount) ==
    IF pool = 0 THEN amount ELSE (amount * total_shares) \div pool

AlgoForShares(share_amount) == (share_amount * pool) \div total_shares

PerDayInterest(amount) == (amount * DailyInterestBps) \div BpsScale
Interest(amount, days) == PerDayInterest(amount) * days

-----------------------------------------------------------------------------
(* The application account.  The ledger refuses a transaction that leaves  *)
(* an account under its minimum balance, which grows with the asset opt-in.*)

Reserve == IF usdcOptedIn THEN 2 * MinBalance ELSE MinBalance

ReceiveAlgo(amount) ==
    /\ appAlgo' = appAlgo + amount
    /\ appAlgo' \in Reserve .. MaxUInt

PayAlgo(amount) ==
    /\ appAlgo' = appAlgo - amount
    /\ appAlgo' >= Reserve

\* A transfer of nothing needs no opt-in.
ReceiveUsdc(amount) ==
    /\ amount > 0 => usdcOptedIn
    /\ appUsdc' = appUsdc + amount
    /\ Fits(appUsdc')

PayUsdc(amount) ==
    /\ amount <= appUsdc
    /\ appUsdc' = appUsdc - amount

-----------------------------------------------------------------------------
(* The payment or transfer a call names by its index in the group.  The    *)
(* contract checks its sender, receiver, asset and amount, and marks       *)
(* nothing: the payment arrives once, and every later call of the group    *)
(* may name it again.  It is taken to arrive with the first that does.     *)

AlgoPayment(sender, amount) ==
    [asset |-> "ALGO", sender |-> sender, amount |-> amount]
UsdcTransfer(sender, amount) ==
    [asset |-> "USDC", sender |-> sender, amount |-> amount]
Payments ==
    [asset: {"ALGO", "USDC"}, sender: Accounts \cup {Creator}, amount: UInt64]

\* Only what MaxAgain lets a later call name is remembered; naming a transfer
\* of nothing again is like sending another one.
Named(payment) ==
    named' = IF payment.amount \in 1 .. MaxAgain THEN named \cup {payment} ELSE named

NamesNewPayment(sender, amount) ==
    /\ ReceiveAlgo(amount)
    /\ Named(AlgoPayment(sender, amount))
    /\ UNCHANGED <<algoAgain, usdcAgain>>
NamesPaymentAgain(sender, amount) ==
    /\ AlgoPayment(sender, amount) \in named
    /\ algoAgain + amount <= MaxAgain
    /\ algoAgain' = algoAgain + amount
    /\ UNCHANGED <<appAlgo, named, usdcAgain>>
NamesPayment(sender, amount) ==
    NamesNewPayment(sender, amount) \/ NamesPaymentAgain(sender, amount)

NamesNewTransfer(sender, amount) ==
    /\ ReceiveUsdc(amount)
    /\ Named(UsdcTransfer(sender, amount))
    /\ UNCHANGED <<algoAgain, usdcAgain>>
NamesTransferAgain(sender, amount) ==
    /\ UsdcTransfer(sender, amount) \in named
    /\ usdcAgain + amount <= MaxAgain
    /\ usdcAgain' = usdcAgain + amount
    /\ UNCHANGED <<appUsdc, named, algoAgain>>
NamesTransfer(sender, amount) ==
    NamesNewTransfer(sender, amount) \/ NamesTransferAgain(sender, amount)

-----------------------------------------------------------------------------
Init ==
    /\ pool = 0 /\ total_shares = 0
    /\ shares = [u \in Accounts |-> 0]
    /\ loan = [u \in Accounts |-> NoLoan]
    /\ aura = [u \in Accounts |-> NoAura]
    /\ optedIn = {}
    /\ appAlgo = 0 /\ appUsdc = 0 /\ usdcOptedIn = FALSE
    /\ now = 0
    /\ named = {} /\ algoAgain = 0 /\ usdcAgain = 0

\* A plain payment to the application account, as the deployer makes to
\* cover the minimum balance.
Fund(amount) ==
    /\ appAlgo + amount <= MaxFunding
    /\ ReceiveAlgo(amount)
    /\ UNCHANGED <<pool, total_shares, localVars, appUsdc, usdcOptedIn, now, groupVars>>

OptIn(u) ==
    /\ u \notin optedIn
    /\ optedIn' = optedIn \cup {u}
    /\ shares' = [shares EXCEPT ![u] = 0]
    /\ loan' = [loan EXCEPT ![u] = NoLoan]
    /\ aura' = [aura EXCEPT ![u] = NoAura]
    /\ UNCHANGED <<pool, total_shares, appAlgo, appUsdc, usdcOptedIn, now, groupVars>>

\* The clear-state program approves: the local state is gone, and nothing
\* else of the application changes.
ClearState(u) ==
    /\ u \in optedIn
    /\ optedIn' = optedIn \ {u}
    /\ shares' = [shares EXCEPT ![u] = 0]
    /\ loan' = [loan EXCEPT ![u] = NoLoan]
    /\ aura' = [aura EXCEPT ![u] = NoAura]
    /\ UNCHANGED <<pool, total_shares, appAlgo, appUsdc, usdcOptedIn, now, groupVars>>

AppOptInUsdc(sender) ==
    /\ sender = Creator
    /\ appAlgo >= 2 * MinBalance
    /\ usdcOptedIn' = TRUE
    /\ UNCHANGED <<pool, total_shares, localVars, appAlgo, appUsdc, now, groupVars>>

MoveSharesOfUserOnly(u, delta) ==
    /\ shares' = [shares EXCEPT ![u] = @ + delta]
    /\ UNCHANGED total_shares
MoveShares(u, delta) ==
    /\ shares' = [shares EXCEPT ![u] = @ + delta]
    /\ total_shares' = total_shares + delta

Deposit(u, amount) ==
    /\ u \in optedIn
    /\ amount > 0
    /\ pool # 0 => Fits(amount * total_shares)
    /\ LET minted == SharesMinted(amount)
       IN /\ Fits(total_shares + minted) /\ Fits(shares[u] + minted)
          /\ MoveShares(u, minted)
    /\ Fits(pool + amount)
    /\ pool' = pool + amount
    /\ NamesPayment(u, amount)
    /\ UNCHANGED <<loan, aura, optedIn, appUsdc, usdcOptedIn, now>>

AdminAddPoolLiquidity(sender, amount) ==
    /\ sender = Creator
    /\ amount > 0
    /\ Fits(pool + amount)
    /\ pool' = pool + amount
    /\ NamesPayment(sender, amount)
    /\ UNCHANGED <<total_shares, localVars, appUsdc, usdcOptedIn, now>>

Withdraw(u, share_amount) ==
    /\ u \in optedIn
    /\ share_amount > 0
    /\ shares[u] >= share_amount
    /\ total_shares > 0
    /\ Fits(share_amount * pool)
    /\ LET algo == AlgoForShares(share_amount)
       IN /\ algo > 0
          /\ algo <= pool
          /\ pool' = pool - algo
          /\ PayAlgo(algo)
    /\ share_amount <= total_shares
    /\ MoveShares(u, -share_amount)
    /\ UNCHANGED <<loan, aura, optedIn, appUsdc, usdcOptedIn, now, groupVars>>

-----------------------------------------------------------------------------
(* Loans. *)

CanBorrow(u, amount, days) ==
    /\ u \in optedIn
    /\ amount > 0 /\ days > 0
    /\ loan[u].loan_active = 0
    /\ pool >= amount
    /\ Fits(amount * DailyInterestBps)
    /\ Fits(Interest(amount, days))
    /\ Fits(amount + Interest(amount, days))
    /\ Fits(days * SecondsPerDay)
    /\ Fits(now + days * SecondsPerDay)

CreditworthyIfBlacklisted(u, amount) ==
    /\ NetAura(u) >= MinAuraForUnsecured
    /\ Fits(LimitProduct(u))
    /\ amount <= MaxUnsecured(u)
Creditworthy(u, amount) ==
    /\ aura[u].aura_blacklisted = 0
    /\ NetAura(u) >= MinAuraForUnsecured
    /\ Fits(LimitProduct(u))
    /\ amount <= MaxUnsecured(u)

LoanTermsPrincipalOnly(type, amount, days, usdc) ==
    [loan_active |-> 1, loan_type |-> type, principal |-> amount,
     interest_due |-> Interest(amount, days), due_amount |-> amount,
     collateral_usdc |-> usdc, due_ts |-> now + days * SecondsPerDay]
LoanTerms(type, amount, days, usdc) ==
    [loan_active |-> 1, loan_type |-> type, principal |-> amount,
     interest_due |-> Interest(amount, days),
     due_amount |-> amount + Interest(amount, days),
     collateral_usdc |-> usdc, due_ts |-> now + days * SecondsPerDay]

\* What both loan requests do once their checks have passed.
OpenLoan(u, terms) ==
    /\ loan' = [loan EXCEPT ![u] = terms]
    /\ pool' = pool - terms.principal
    /\ PayAlgo(terms.principal)
    /\ UNCHANGED <<total_shares, shares, aura, optedIn, usdcOptedIn, now>>

RequestCollateralLoan(u, amount, days, min_usdc, usdc) ==
    /\ CanBorrow(u, amount, days)
    /\ usdc >= min_usdc
    /\ NamesTransfer(u, usdc)
    /\ OpenLoan(u, LoanTerms(1, amount, days, usdc))

RequestUnsecuredLoan(u, amount, days) ==
    /\ CanBorrow(u, amount, days)
    /\ Creditworthy(u, amount)
    /\ OpenLoan(u, LoanTerms(2, amount, days, 0))
    /\ UNCHANGED <<appUsdc, groupVars>>

ClosedKeepingCollateral(l) == [NoLoan EXCEPT !.collateral_usdc = l.collateral_usdc]
Closed(l) == NoLoan

CreditToPoolWithInterestTwice(l) == l.due_amount + l.interest_due
CreditToPool(l) == l.due_amount

\* Only the due amount is credited to the pool, whatever was paid.
Repay(u, amount) ==
    /\ u \in optedIn
    /\ loan[u].loan_active = 1
    /\ amount >= loan[u].due_amount
    /\ LET points == InterestToAuraPoints(loan[u].interest_due)
       IN /\ Fits(aura[u].aura_earned + points)
          /\ aura' = [aura EXCEPT ![u].aura_earned = @ + points]
    /\ Fits(pool + CreditToPool(loan[u]))
    /\ pool' = pool + CreditToPool(loan[u])
    /\ NamesPayment(u, amount)
    /\ PayUsdc(loan[u].collateral_usdc)
    /\ loan' = [loan EXCEPT ![u] = Closed(loan[u])]
    /\ UNCHANGED <<total_shares, shares, optedIn, usdcOptedIn, now>>

OverdueAtDeadline(l) == now >= l.due_ts
Overdue(l) == now > l.due_ts

PenalisedNotBlacklisted(a, l) ==
    [a EXCEPT !.aura_penalty = @ + InterestToAuraPoints(l.interest_due)]
Penalised(a, l) ==
    [aura_earned |-> a.aura_earned,
     aura_penalty |-> a.aura_penalty + InterestToAuraPoints(l.interest_due),
     aura_blacklisted |-> IF l.loan_type = 2 THEN 1 ELSE a.aura_blacklisted]

Defaulted(u) ==
    /\ u \in optedIn
    /\ loan[u].loan_active = 1
    /\ Overdue(loan[u])
    /\ Fits(Penalised(aura[u], loan[u]).aura_penalty)

\* The collateral goes to the creator; the pool gets nothing back.
LiquidateDefault(sender, u) ==
    /\ sender = Creator
    /\ Defaulted(u)
    /\ aura' = [aura EXCEPT ![u] = Penalised(@, loan[u])]
    /\ PayUsdc(loan[u].collateral_usdc)
    /\ loan' = [loan EXCEPT ![u] = Closed(loan[u])]
    /\ UNCHANGED <<pool, total_shares, shares, optedIn, appAlgo, usdcOptedIn, now, groupVars>>

\* The next group has payments of its own.
NewGroup ==
    /\ named # {}
    /\ named' = {}
    /\ UNCHANGED <<pool, total_shares, localVars, appAlgo, appUsdc, usdcOptedIn,
                   now, algoAgain, usdcAgain>>

\* The calls of a group share one timestamp.
Tick ==
    /\ named = {}
    /\ now < MaxTime
    /\ now' = now + 1
    /\ UNCHANGED <<pool, total_shares, localVars, appAlgo, appUsdc, usdcOptedIn, groupVars>>

Next ==
    \/ Tick
    \/ NewGroup
    \/ \E a \in PaymentAmounts : Fund(a)
    \/ \E sender \in Accounts \cup {Creator} :
        \/ AppOptInUsdc(sender)
        \/ \E a \in PaymentAmounts : AdminAddPoolLiquidity(sender, a)
        \/ \E u \in Accounts : LiquidateDefault(sender, u)
    \/ \E u \in Accounts :
        \/ OptIn(u)
        \/ ClearState(u)
        \/ \E a \in PaymentAmounts : Deposit(u, a) \/ Repay(u, a)
        \/ \E s \in ShareAmounts : Withdraw(u, s)
        \/ \E a \in LoanAmounts, d \in LoanDays :
            \/ RequestUnsecuredLoan(u, a, d)
            \/ \E m, c \in UsdcAmounts : RequestCollateralLoan(u, a, d, m, c)

Spec == Init /\ [][Next]_vars

-----------------------------------------------------------------------------
(* Properties. *)

\* Every global, local and ledger quantity is a UInt64 of its declared shape.
TypeOK ==
    /\ pool \in UInt64 /\ total_shares \in UInt64
    /\ shares \in [Accounts -> UInt64]
    /\ loan \in [Accounts -> Loan]
    /\ aura \in [Accounts -> Aura]
    /\ optedIn \subseteq Accounts
    /\ appAlgo \in UInt64 /\ appUsdc \in UInt64 /\ usdcOptedIn \in BOOLEAN
    /\ now \in UInt64
    /\ named \subseteq Payments
    /\ algoAgain \in 0 .. MaxAgain /\ usdcAgain \in 0 .. MaxAgain

\* No sequence of deposits, loans, repayments and withdrawals credits more than
\* was received or pays out more than was debited: the ALGO the contract accounts
\* for is in its account, short only of the payments that several calls of a
\* group named, once for each time too many.
Solvency == pool <= appAlgo + algoAgain

\* Every collateral recorded for a loan can be returned or seized, short only of
\* the transfers that a loan of a group named again, after the loan that named
\* them first had ended.
CollateralBacked ==
    SumFunction([u \in Accounts |-> loan[u].collateral_usdc]) <= appUsdc + usdcAgain

\* The shares of all accounts together never exceed total_shares, so a
\* withdrawal never makes total_shares underflow.
SharesBacked == SumFunction(shares) <= total_shares

\* A loan record is either wholly empty or one a loan request wrote: debt is
\* principal plus interest, and only a collateral loan holds collateral.
LoanWellFormed ==
    \A u \in Accounts :
        \/ loan[u] = NoLoan
        \/ /\ u \in optedIn
           /\ loan[u].loan_active = 1 /\ loan[u].loan_type \in {1, 2}
           /\ loan[u].principal > 0
           /\ loan[u].due_amount = loan[u].principal + loan[u].interest_due
           /\ loan[u].loan_type = 2 => loan[u].collateral_usdc = 0

\* While an unsecured loan is open its borrower is not blacklisted and the
\* AURA it was granted on still carries it: nothing that moves AURA or the
\* blacklist can happen under an open loan.
UnsecuredStaysCreditworthy ==
    \A u \in Accounts : loan[u].loan_type = 2 =>
        LET net == aura[u].aura_earned - aura[u].aura_penalty
        IN /\ aura[u].aura_blacklisted = 0
           /\ net >= MinAuraForUnsecured
           /\ loan[u].principal * BpsScale
                <= net * LimitBpsOfAura * MicroalgosPerAlgo

LoanGranted(u) == loan[u].loan_active = 0 /\ loan'[u].loan_active = 1

\* The ALGO behind a share never falls, whatever the order of deposits and
\* withdrawals and their rounding: only granting a loan takes ALGO from
\* behind the shares.
SharePriceNeverFalls ==
    [][(\E u \in Accounts : LoanGranted(u))
        \/ pool' * total_shares >= pool * total_shares']_vars

\* A borrower who keeps its local state leaves a loan by paying its whole debt
\* into the pool, or after due_ts has passed and, if the loan was unsecured,
\* banned from the next.
LoanEndsPaidOrOverdue ==
    [][\A u \in Accounts \cap optedIn' :
        loan[u].loan_active = 1 /\ loan'[u].loan_active = 0 =>
            \/ pool' - pool = loan[u].due_amount
            \/ /\ now > loan[u].due_ts
               /\ loan[u].loan_type = 2 => aura'[u].aura_blacklisted = 1]_vars

-----------------------------------------------------------------------------
(* The lending half implements LoanBook. *)

TermsOf(l) ==
    [kind |-> CASE l.loan_type = 1 -> "secured"
                [] l.loan_type = 2 -> "unsecured"
                [] OTHER -> "none",
     due |-> l.due_amount, pledge |-> l.collateral_usdc, deadline |-> l.due_ts]

Book == INSTANCE LoanBook WITH
    Borrowers <- Accounts,
    members <- optedIn,
    terms <- [u \in Accounts |-> TermsOf(loan[u])],
    escrow <- appUsdc + usdcAgain,
    till <- appAlgo + algoAgain,
    clock <- now

\* Through loan requests, repayments, liquidations and clear-states, the
\* contract only ever does what the loan book allows, with what it was told
\* it received: a payment counts as often as it is named.
ImplementsLoanBook == Book!BookSpec

-----------------------------------------------------------------------------
(* What the project's texts say and the contract does not do. *)

\* The site's "how it works": deposit ALGO and receive pool shares.
DepositEarnsShares ==
    [][\A u \in Accounts, a \in PaymentAmounts :
        Deposit(u, a) => shares'[u] > shares[u]]_vars

\* README, "Default Penalty": a permanent wallet ban.
BanIsPermanent ==
    [][\A u \in Accounts : aura[u].aura_blacklisted = 1
        => aura'[u].aura_blacklisted = 1]_vars

\* The site's "how it works": hold shares to earn from lending interest.  The
\* assets behind a share, liquid ALGO and debts, never fall while no loan is
\* granted or ended.
Assets == pool + SumFunction([u \in Accounts |-> loan[u].due_amount])
HoldersKeepTheirAssets ==
    [][loan' = loan /\ total_shares > 0
        => Assets' * total_shares >= Assets * total_shares']_vars
=============================================================================
