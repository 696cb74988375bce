---------------------------- MODULE AuraSyncProofs ----------------------------
(***************************************************************************)
(* For any accounts, amounts, rates and faults: while a wallet has one     *)
(* request under way at a time, the AURA application never counts more     *)
(* points than the wallet's repayments earned; and, overlapping or not, a  *)
(* request goes on with at least the points of its own repayment.          *)
(***************************************************************************)
EXTENDS AuraSync, AlgoPoolProofs

Earned(u) == aura[u].aura_earned

\* One request per wallet.
Alone ==
    \A r, o \in Requests :
        Wallet(r) = Wallet(o) /\ Wallet(r) \in Accounts => r = o

\* Between the two reads a wallet's AURA grows by no more than what its
\* repayments earn, and nothing else adds to what the AURA application holds.
CoveredBy(q, counted, earned, total) ==
    /\ q.at \in {"submitting", "after"} =>
        /\ counted <= q.base /\ q.base <= total
        /\ earned - q.before <= total - q.base
    /\ q.at = "syncing" => counted + q.delta <= total

ReadsCovered(q) ==
    CoveredBy(q, auraEarned[q.wallet], Earned(q.wallet), paid[q.wallet])

AllCovered == \A r \in Requests : ReadsCovered(request[r])

SyncInv == Inv /\ AuraTypeOK /\ Alone /\ NotOvercounted /\ AllCovered

LEMMA InitSync == AuraInit => SyncInv
<1> SUFFICES ASSUME AuraInit PROVE SyncInv
  OBVIOUS
<1> USE AlgoPoolAssumption, AuraSyncAssumption DEF AuraInit, Idle
<1>1. Inv BY InitInv
<1>2. 0 \in UInt64 /\ 0 \in 0 .. MaxFaults BY DEF UInt64
<1>3. AuraTypeOK
  BY <1>2 DEF AuraTypeOK, Request, RequestStates, At, Wallet
<1>4. Alone BY DEF Alone, Wallet
<1>5. NotOvercounted /\ AllCovered
  BY DEF NotOvercounted, AllCovered, ReadsCovered, CoveredBy
<1> QED BY <1>1, <1>3, <1>4, <1>5 DEF SyncInv

-----------------------------------------------------------------------------
(* What a step of the contract does to earned AURA.                        *)

LEMMA PointsPaidTyped ==
    ASSUME TypeOK, NEW u \in Accounts
    PROVE  PointsPaid(u) \in UInt64 /\ PointsPaid(u) \in Nat
<1>1. loan[u].interest_due \in Nat /\ loan[u].interest_due <= MaxUInt
  BY AlgoPoolAssumption DEF TypeOK, Loan, UInt64
<1>2. \A n \in Nat, b \in Nat \ {0} : n \div b \in Nat /\ n \div b <= n
  <2> SUFFICES ASSUME NEW n \in Nat, NEW b \in Nat \ {0}
               PROVE  n \div b \in Nat /\ n \div b <= n
    OBVIOUS
  <2>1. n \div b \in Nat /\ (n \div b) * b <= n BY DivRoundsDown
  <2>2. \A k \in Nat : k * b <= n => k <= n
    <3> SUFFICES ASSUME NEW k \in Nat, k * b <= n PROVE k <= n
      OBVIOUS
    <3>1. k <= k * b BY SMT
    <3> QED BY <3>1, SMT
  <2> QED BY <2>1, <2>2
<1>3. InterestToAuraPoints(loan[u].interest_due) \in UInt64
  BY <1>1, <1>2, AlgoPoolAssumption DEF InterestToAuraPoints, UInt64
<1> QED BY <1>3, AlgoPoolAssumption DEF PointsPaid, UInt64

\* A repayment is what PointsPaid says it is: a debt is never zero.
LEMMA RepaymentEarns ==
    ASSUME Inv, NEW u \in Accounts, NEW a \in PaymentAmounts, Repay(u, a)
    PROVE  Earned(u)' = Earned(u) + PointsPaid(u)
<1>1. aura \in [Accounts -> Aura] /\ loan \in [Accounts -> Loan] /\ pool \in Nat
  BY AlgoPoolAssumption DEF Inv, TypeOK, UInt64
<1>2. loan[u].loan_active = 1 /\ loan'[u].loan_active = 0
  BY <1>1 DEF Repay, Closed, NoLoan
<1>3. loan[u].due_amount \in Nat /\ loan[u].due_amount > 0
  <2>1. loan[u] # NoLoan BY <1>2 DEF NoLoan
  <2>2. loan[u].principal > 0
        /\ loan[u].due_amount = loan[u].principal + loan[u].interest_due
    BY <2>1 DEF Inv, LoanWellFormed
  <2>3. loan[u].principal \in Nat /\ loan[u].interest_due \in Nat
    BY <1>1, AlgoPoolAssumption DEF Loan, UInt64
  <2> QED BY <2>2, <2>3
<1>4. pool' # pool
  BY <1>1, <1>3 DEF Repay, CreditToPool
<1>5. PointsPaid(u) = InterestToAuraPoints(loan[u].interest_due)
  BY <1>2, <1>4 DEF PointsPaid
<1> QED BY <1>1, <1>5 DEF Repay, Earned, Aura

\* No other account earns by it.
LEMMA RepayEarns ==
    ASSUME Inv, NEW u \in Accounts, NEW a \in PaymentAmounts, Repay(u, a), NEW v \in Accounts
    PROVE  aura'[v].aura_earned <= Earned(v) + PointsPaid(v)
<1>1. aura \in [Accounts -> Aura] /\ loan \in [Accounts -> Loan] /\ pool \in Nat
  BY AlgoPoolAssumption DEF Inv, TypeOK, UInt64
<1>2. \A w \in Accounts : Earned(w) \in Nat
  BY <1>1, AlgoPoolAssumption DEF Earned, Aura, UInt64
<1>3. CASE v = u
  <2>1. Earned(u)' = Earned(u) + PointsPaid(u) BY RepaymentEarns
  <2>2. PointsPaid(u) \in Nat BY PointsPaidTyped DEF Inv
  <2> QED BY <1>2, <1>3, <2>1, <2>2 DEF Earned
<1>4. CASE v # u
  <2>1. aura'[v] = aura[v] BY <1>1, <1>4 DEF Repay
  <2>2. PointsPaid(v) \in Nat BY PointsPaidTyped DEF Inv
  <2> QED BY <1>2, <2>1, <2>2 DEF Earned
<1> QED BY <1>3, <1>4

\* Every step of the contract raises a wallet's AURA by what it repaid at most.
LEMMA NextEarns ==
    ASSUME Inv, [Next]_vars, NEW v \in Accounts
    PROVE  aura'[v].aura_earned <= Earned(v) + PointsPaid(v)
<1>1. aura \in [Accounts -> Aura] BY DEF Inv, TypeOK
<1>2. Earned(v) \in Nat /\ PointsPaid(v) \in Nat
  BY <1>1, AlgoPoolAssumption, PointsPaidTyped DEF Earned, Aura, UInt64, Inv
<1>3. CASE UNCHANGED aura BY <1>2, <1>3 DEF Earned
<1>4. CASE \E u \in Accounts : aura' = [aura EXCEPT ![u] = NoAura]
  BY <1>1, <1>2, <1>4 DEF Earned, NoAura
<1>5. CASE \E u \in Accounts, a \in PaymentAmounts : Repay(u, a)
  BY <1>5, RepayEarns
<1>6. CASE \E u \in Accounts, sender \in Accounts \cup {Creator} : LiquidateDefault(sender, u)
  <2>1. PICK u \in Accounts : aura' = [aura EXCEPT ![u] = Penalised(@, loan[u])]
    BY <1>6 DEF LiquidateDefault
  <2>2. aura'[v].aura_earned = Earned(v)
    BY <1>1, <2>1 DEF Penalised, Earned
  <2> QED BY <1>2, <2>2
<1>7. \/ UNCHANGED aura
      \/ \E u \in Accounts : aura' = [aura EXCEPT ![u] = NoAura]
      \/ \E u \in Accounts, a \in PaymentAmounts : Repay(u, a)
      \/ \E u \in Accounts, sender \in Accounts \cup {Creator} : LiquidateDefault(sender, u)
  BY DEF Next, vars, localVars, Tick, NewGroup, Fund, AppOptInUsdc, AdminAddPoolLiquidity, OptIn,
         ClearState, Deposit, Withdraw, RequestUnsecuredLoan, RequestCollateralLoan,
         OpenLoan
<1> QED BY <1>3, <1>4, <1>5, <1>6, <1>7

-----------------------------------------------------------------------------
(* Steps of the requests that leave the contract and the counts alone.     *)

LEMMA Typed ==
    ASSUME SyncInv
    PROVE  /\ request \in [Requests -> Request]
           /\ \A r \in Requests : ~At(r, "free") => Wallet(r) \in Accounts
           /\ aura \in [Accounts -> Aura]
           /\ \A u \in Accounts : /\ Earned(u) \in UInt64 /\ Earned(u) \in Nat
                                  /\ auraEarned[u] \in Nat /\ paid[u] \in Nat
                                  /\ auraEarned[u] <= paid[u]
BY AlgoPoolAssumption
   DEF SyncInv, Inv, TypeOK, AuraTypeOK, Request, At, Wallet, Aura, Earned, UInt64,
       NotOvercounted

LEMMA RequestMoves ==
    ASSUME SyncInv, NEW r \in Requests, NEW q \in Request, Becomes(r, q),
           (q.at = "free") = (q.wallet = NoWallet),
           q.wallet \in Accounts => \A o \in Requests \ {r} : Wallet(o) # q.wallet,
           ReadsCovered(q),
           UNCHANGED <<vars, auraMembers, auraEarned, paid>>, faults' \in 0 .. MaxFaults
    PROVE  SyncInv'
<1>1. request \in [Requests -> Request] /\ request' = [request EXCEPT ![r] = q]
  BY Typed DEF Becomes
<1>2. Inv'
  BY NextInv DEF SyncInv
<1>3. AuraTypeOK'
  BY <1>1 DEF SyncInv, AuraTypeOK, At, Wallet
<1>4. Alone'
  BY <1>1 DEF SyncInv, Alone, Wallet
<1>5. NotOvercounted' BY DEF SyncInv, NotOvercounted
<1>6. AllCovered'
  BY <1>1 DEF SyncInv, AllCovered, ReadsCovered, Earned, vars
<1> QED BY <1>2, <1>3, <1>4, <1>5, <1>6 DEF SyncInv

LEMMA IdleTyped ==
    /\ Idle \in Request /\ Idle.at = "free" /\ Idle.wallet = NoWallet
    /\ \A c, e, t : CoveredBy(Idle, c, e, t)
BY AlgoPoolAssumption DEF Idle, Request, RequestStates, UInt64, CoveredBy

LEMMA ArriveKeeps ==
    ASSUME ~Overlap, SyncInv, NEW r \in Requests, NEW u \in Accounts, Arrive(r, u)
    PROVE  SyncInv'
<1> DEFINE q == [Idle EXCEPT !.at = "before", !.wallet = u]
<1>1. q \in Request /\ q.at = "before" /\ q.wallet = u
  BY IdleTyped DEF Request, RequestStates, Idle
<1>2. u # NoWallet BY AuraSyncAssumption
<1>3. ReadsCovered(q) BY <1>1 DEF ReadsCovered, CoveredBy
<1>4. \A o \in Requests : Wallet(o) # u BY DEF Arrive
<1>5. Becomes(r, q) /\ UNCHANGED <<vars, auraMembers, auraEarned, paid>>
      /\ faults' \in 0 .. MaxFaults
  BY DEF Arrive, SyncInv, AuraTypeOK
<1> HIDE DEF q
<1> QED BY <1>1, <1>2, <1>3, <1>4, <1>5, RequestMoves

LEMMA ReadBeforeKeeps ==
    ASSUME SyncInv, NEW r \in Requests, ReadBefore(r) PROVE SyncInv'
<1> DEFINE u == Wallet(r)
           q == [request[r] EXCEPT
                    !.at = "submitting", !.before = aura[u].aura_earned,
                    !.base = paid[u], !.kept = TRUE]
<1>1. request[r] \in Request /\ u \in Accounts /\ Earned(u) \in UInt64 /\ paid[u] \in Nat
      /\ auraEarned[u] <= paid[u] /\ Earned(u) \in Nat
  BY Typed DEF ReadBefore, At
<1>2. q \in Request /\ q.at = "submitting" /\ q.wallet = u /\ q.before = Earned(u)
      /\ q.base = paid[u]
  BY <1>1 DEF Request, RequestStates, Earned, Wallet
<1>3. u # NoWallet BY <1>1, AuraSyncAssumption
<1>4. ReadsCovered(q) BY <1>1, <1>2 DEF ReadsCovered, CoveredBy
<1>5. \A o \in Requests \ {r} : Wallet(o) # u BY <1>1 DEF SyncInv, Alone
<1>6. Becomes(r, q) /\ UNCHANGED <<vars, auraMembers, auraEarned, paid>>
      /\ faults' \in 0 .. MaxFaults
  BY DEF ReadBefore, SyncInv, AuraTypeOK
<1> HIDE DEF q
<1> QED BY <1>2, <1>3, <1>4, <1>5, <1>6, RequestMoves

LEMMA EndKeeps ==
    ASSUME SyncInv, NEW r \in Requests, Becomes(r, Idle),
           UNCHANGED <<vars, auraMembers, auraEarned, paid>>, faults' \in 0 .. MaxFaults
    PROVE  SyncInv'
<1>1. ReadsCovered(Idle) BY IdleTyped DEF ReadsCovered
<1>2. Idle.wallet \notin Accounts BY IdleTyped, AuraSyncAssumption
<1> QED BY <1>1, <1>2, IdleTyped, RequestMoves

LEMMA ReadAfterKeeps ==
    ASSUME SyncInv, NEW r \in Requests, ReadAfter(r) PROVE SyncInv'
<1> DEFINE u == Wallet(r)
           d == Delta(request[r])
           q == [request[r] EXCEPT !.at = "syncing", !.delta = d]
<1>1. request[r] \in Request /\ u \in Accounts /\ Earned(u) \in UInt64 /\ paid[u] \in Nat
      /\ auraEarned[u] \in Nat /\ auraEarned[u] <= paid[u] /\ Earned(u) \in Nat
      /\ request[r].at = "after" /\ request[r].wallet = u
  BY Typed DEF ReadAfter, At, Wallet
<1>2. faults' \in 0 .. MaxFaults /\ UNCHANGED <<vars, auraMembers, auraEarned, paid>>
  BY DEF ReadAfter, SyncInv, AuraTypeOK
<1>3. CASE d = 0
  BY <1>2, <1>3, EndKeeps DEF ReadAfter, Free
<1>4. CASE d # 0
  <2>1. d = Earned(u) - request[r].before /\ request[r].before \in UInt64
        /\ request[r].base \in Nat
    BY <1>1, <1>4 DEF Delta, Earned, Request
  <2>2. d \in UInt64
    BY <1>1, <2>1, <1>4, AlgoPoolAssumption DEF Delta, Earned, UInt64
  <2>3. q \in Request /\ q.at = "syncing" /\ q.wallet = u /\ q.delta = d
    BY <1>1, <2>2 DEF Request, RequestStates
  <2>4. auraEarned[u] <= request[r].base
        /\ Earned(u) - request[r].before <= paid[u] - request[r].base
    BY <1>1 DEF SyncInv, AllCovered, ReadsCovered, CoveredBy
  <2>5. auraEarned[u] + d <= paid[u]
    BY <1>1, <2>1, <2>2, <2>4, AlgoPoolAssumption DEF UInt64
  <2>6. ReadsCovered(q) BY <2>3, <2>5 DEF ReadsCovered, CoveredBy
  <2>7. \A o \in Requests \ {r} : Wallet(o) # u BY <1>1 DEF SyncInv, Alone
  <2>8. Becomes(r, q) BY <1>4 DEF ReadAfter
  <2>9. u # NoWallet BY <1>1, AuraSyncAssumption
  <2> HIDE DEF q, d
  <2> QED BY <1>2, <2>3, <2>6, <2>7, <2>8, <2>9, RequestMoves
<1> QED BY <1>3, <1>4

LEMMA RefusedKeeps ==
    ASSUME SyncInv, NEW r \in Requests, Refused(r) \/ ReadFails(r) PROVE SyncInv'
<1>1. faults' \in 0 .. MaxFaults
  BY AuraSyncAssumption DEF Refused, ReadFails, Faulty, SyncInv, AuraTypeOK
<1> QED BY <1>1, EndKeeps DEF Refused, ReadFails, Free

-----------------------------------------------------------------------------
(* Steps of the contract.                                                  *)

\* What a request has read stays what it was, or the request is gone.
SameReads(new, old) ==
    \/ new = Idle
    \/ /\ new.wallet = old.wallet /\ new.before = old.before
       /\ new.base = old.base /\ new.delta = old.delta
       /\ new.at = old.at \/ (old.at = "submitting" /\ new.at = "after")

LEMMA ChainStepKeeps ==
    ASSUME SyncInv, [Next]_vars, Pay, UNCHANGED <<auraMembers, auraEarned>>,
           faults' \in 0 .. MaxFaults, request' \in [Requests -> Request],
           \A r \in Requests : SameReads(request'[r], request[r])
    PROVE  SyncInv'
<1>1. Inv' BY NextInv DEF SyncInv
<1>2. \A u \in Accounts :
        /\ PointsPaid(u) \in Nat
        /\ paid'[u] = paid[u] + PointsPaid(u) /\ paid'[u] \in Nat
        /\ aura'[u].aura_earned <= Earned(u) + PointsPaid(u)
        /\ aura'[u].aura_earned \in Nat
  <2>1. \A u \in Accounts : PointsPaid(u) \in Nat /\ paid[u] \in Nat
    BY Typed, PointsPaidTyped DEF SyncInv, Inv
  <2>2. \A u \in Accounts : aura'[u].aura_earned <= Earned(u) + PointsPaid(u)
    BY NextEarns DEF SyncInv
  <2>3. \A u \in Accounts : aura'[u].aura_earned \in Nat
    BY <1>1, AlgoPoolAssumption DEF Inv, TypeOK, Aura, UInt64
  <2> QED BY <2>1, <2>2, <2>3 DEF Pay
<1>3. AuraTypeOK'
  <2>1. paid' \in [Accounts -> Nat] BY <1>2 DEF Pay
  <2>2. \A r \in Requests : (request'[r].at = "free") = (request'[r].wallet = NoWallet)
    BY IdleTyped DEF SyncInv, AuraTypeOK, SameReads, At, Wallet
  <2> QED BY <2>1, <2>2 DEF SyncInv, AuraTypeOK, At, Wallet
<1>4. Alone'
  BY IdleTyped, AuraSyncAssumption DEF SyncInv, Alone, SameReads, Wallet
<1>5. NotOvercounted'
  BY <1>2, Typed DEF NotOvercounted
<1>6. AllCovered'
  <2> SUFFICES ASSUME NEW r \in Requests PROVE ReadsCovered(request[r])'
    BY DEF AllCovered
  <2>1. CASE request'[r] = Idle
    BY <2>1, IdleTyped DEF ReadsCovered
  <2>2. CASE request'[r] # Idle /\ request[r].at # "free"
    <3> DEFINE u == Wallet(r)
    <3>1. u \in Accounts /\ request'[r].wallet = u /\ request[r].wallet = u
          /\ request[r] \in Request
      BY <2>2, Typed DEF SameReads, At, Wallet
    <3>2. CoveredBy(request[r], auraEarned[u], Earned(u), paid[u])
      BY <3>1 DEF SyncInv, AllCovered, ReadsCovered
    <3>3. /\ auraEarned[u] \in Nat /\ paid[u] \in Nat /\ Earned(u) \in Nat
          /\ request[r].base \in Nat /\ request[r].before \in Nat
          /\ request[r].delta \in Nat
      BY <3>1, Typed, AlgoPoolAssumption DEF Request, UInt64
    <3>4. /\ request'[r].base = request[r].base /\ request'[r].before = request[r].before
          /\ request'[r].delta = request[r].delta
          /\ request'[r].at \in {"submitting", "after"} =>
                request[r].at \in {"submitting", "after"}
          /\ request'[r].at = "syncing" => request[r].at = "syncing"
      BY <2>2 DEF SameReads
    <3>5. CoveredBy(request'[r], auraEarned[u], aura'[u].aura_earned, paid'[u])
      BY <1>2, <3>1, <3>2, <3>3, <3>4 DEF CoveredBy
    <3> QED BY <3>1, <3>5 DEF ReadsCovered, Earned
  <2>3. CASE request[r].at = "free"
    BY <2>3 DEF SameReads, ReadsCovered, CoveredBy, Idle
  <2> QED BY <2>1, <2>2, <2>3
<1> QED BY <1>1, <1>3, <1>4, <1>5, <1>6 DEF SyncInv

LEMMA RepayIsACall ==
    ASSUME SyncInv, NEW r \in Requests, At(r, "submitting"), NEW a \in PaymentAmounts,
           Repay(Wallet(r), a)
    PROVE  Next
<1>1. Wallet(r) \in Accounts BY Typed DEF At
<1> QED BY <1>1 DEF Next

LEMMA SubmitKeeps ==
    ASSUME SyncInv, NEW r \in Requests, NEW a \in PaymentAmounts, Submit(r, a)
    PROVE  SyncInv'
<1> DEFINE q == Submitted(request[r])
<1>1. request \in [Requests -> Request] /\ request[r].at = "submitting"
      /\ Wallet(r) \in Accounts
  BY Typed DEF Submit, At
<1>2. PointsPaid(Wallet(r)) \in UInt64 BY <1>1, PointsPaidTyped DEF SyncInv, Inv
<1>3. q \in Request /\ SameReads(q, request[r])
  BY <1>1, <1>2 DEF Submitted, Request, RequestStates, SameReads, Wallet
<1>4. \A o \in Requests : SameReads(request[o], request[o]) BY DEF SameReads
<1>5. request' = [request EXCEPT ![r] = q] BY DEF Submit, Becomes
<1> HIDE DEF q
<1>6. request' \in [Requests -> Request]
      /\ \A o \in Requests : SameReads(request'[o], request[o])
  BY <1>1, <1>3, <1>4, <1>5
<1>7. Next BY RepayIsACall DEF Submit
<1>8. Pay /\ UNCHANGED <<auraMembers, auraEarned>> /\ faults' \in 0 .. MaxFaults
  BY DEF Submit, SyncInv, AuraTypeOK
<1> QED BY <1>6, <1>7, <1>8, ChainStepKeeps

LEMMA SubmitAnswerLostKeeps ==
    ASSUME SyncInv, NEW r \in Requests, NEW a \in PaymentAmounts, SubmitAnswerLost(r, a)
    PROVE  SyncInv'
<1>1. request \in [Requests -> Request] BY Typed
<1>2. request' = [request EXCEPT ![r] = Idle] BY DEF SubmitAnswerLost, Becomes, Free
<1>3. request' \in [Requests -> Request]
      /\ \A o \in Requests : SameReads(request'[o], request[o])
  BY <1>1, <1>2, IdleTyped DEF SameReads
<1>4. Next BY RepayIsACall DEF SubmitAnswerLost
<1>5. faults' \in 0 .. MaxFaults
  BY AuraSyncAssumption DEF SubmitAnswerLost, Faulty, SyncInv, AuraTypeOK
<1>6. Pay /\ UNCHANGED <<auraMembers, auraEarned>> BY DEF SubmitAnswerLost
<1> QED BY <1>3, <1>4, <1>5, <1>6, ChainStepKeeps

LEMMA ChainMovesKeeps == ASSUME SyncInv, ChainMoves PROVE SyncInv'
<1>1. request \in [Requests -> Request] BY Typed
<1>2. \A q \in Request : KeptBy(q) \in Request /\ SameReads(KeptBy(q), q)
  BY DEF KeptBy, Request, SameReads
<1>3. request' = [r \in Requests |-> KeptBy(request[r])] BY DEF ChainMoves
<1>4. request' \in [Requests -> Request]
      /\ \A r \in Requests : SameReads(request'[r], request[r])
  BY <1>1, <1>2, <1>3
<1>5. Next /\ Pay /\ UNCHANGED <<auraMembers, auraEarned>> /\ faults' \in 0 .. MaxFaults
  BY DEF ChainMoves, SyncInv, AuraTypeOK
<1> QED BY <1>4, <1>5, ChainStepKeeps

-----------------------------------------------------------------------------
(* The AURA application.                                                   *)

\* What is added was covered by what has been repaid.
LEMMA SyncStepKeeps ==
    ASSUME SyncInv, NEW r \in Requests, At(r, "syncing"),
           AddRepaymentAura(Wallet(r), request[r].delta), Becomes(r, Idle),
           UNCHANGED <<vars, paid>>, faults' \in 0 .. MaxFaults
    PROVE  SyncInv'
<1> DEFINE u == Wallet(r)
           d == request[r].delta
<1>1. request \in [Requests -> Request] /\ u \in Accounts /\ request[r].wallet = u
      /\ request[r] \in Request /\ request[r].at = "syncing"
  BY Typed DEF At, Wallet
<1>2. d \in Nat /\ auraEarned \in [Accounts -> UInt64]
  BY <1>1, AlgoPoolAssumption DEF Request, UInt64, SyncInv, AuraTypeOK
<1>3. auraEarned[u] + d <= paid[u] /\ auraEarned[u] \in Nat
  BY <1>1, Typed DEF SyncInv, AllCovered, ReadsCovered, CoveredBy
<1>4. auraEarned[u] + d \in UInt64
  BY <1>2, <1>3, AlgoPoolAssumption DEF AddRepaymentAura, Fits, UInt64
<1>5. /\ auraEarned' = [auraEarned EXCEPT ![u] = auraEarned[u] + d]
      /\ auraMembers' = auraMembers
      /\ request' = [request EXCEPT ![r] = Idle]
  BY DEF AddRepaymentAura, Becomes
<1>6. Inv' BY NextInv DEF SyncInv
<1>7. AuraTypeOK'
  <2>1. request' \in [Requests -> Request] BY <1>1, <1>5, IdleTyped
  <2>2. \A o \in Requests : (request'[o].at = "free") = (request'[o].wallet = NoWallet)
    BY <1>1, <1>5, IdleTyped DEF SyncInv, AuraTypeOK, At, Wallet
  <2>3. auraEarned' \in [Accounts -> UInt64] BY <1>2, <1>4, <1>5
  <2> QED BY <1>5, <2>1, <2>2, <2>3 DEF SyncInv, AuraTypeOK, At, Wallet
<1>8. Alone'
  BY <1>1, <1>5, IdleTyped, AuraSyncAssumption DEF SyncInv, Alone, Wallet
<1>9. NotOvercounted'
  BY <1>1, <1>2, <1>3, <1>5 DEF SyncInv, NotOvercounted
<1>10. AllCovered'
  <2> SUFFICES ASSUME NEW o \in Requests PROVE ReadsCovered(request[o])'
    BY DEF AllCovered
  <2>1. CASE o = r
    BY <1>1, <1>5, <2>1, IdleTyped DEF ReadsCovered
  <2>2. CASE o # r
    <3>1. request'[o] = request[o] /\ request[o].wallet # u
      BY <1>1, <1>5, <2>2 DEF SyncInv, Alone, Wallet
    <3>2. auraEarned'[request[o].wallet] = auraEarned[request[o].wallet]
      BY <1>2, <1>5, <3>1
    <3> QED BY <3>1, <3>2 DEF SyncInv, AllCovered, ReadsCovered, Earned, vars
  <2> QED BY <2>1, <2>2
<1> QED BY <1>6, <1>7, <1>8, <1>9, <1>10 DEF SyncInv

LEMMA SyncKeeps ==
    ASSUME SyncInv, NEW r \in Requests, Sync(r) \/ SyncAnswerLost(r) PROVE SyncInv'
<1>1. faults' \in 0 .. MaxFaults
  BY AuraSyncAssumption DEF Sync, SyncAnswerLost, Faulty, SyncInv, AuraTypeOK
<1> QED BY <1>1, SyncStepKeeps DEF Sync, SyncAnswerLost, Free

\* Joining or leaving the AURA application starts its count again.
LEMMA CountRestarts ==
    ASSUME SyncInv, NEW u \in Accounts, auraEarned' = [auraEarned EXCEPT ![u] = 0],
           auraMembers' \subseteq Accounts, UNCHANGED <<vars, request, paid, faults>>
    PROVE  SyncInv'
<1>1. auraEarned \in [Accounts -> UInt64] /\ 0 \in UInt64
      /\ \A v \in Accounts : auraEarned[v] \in Nat
  BY AlgoPoolAssumption DEF SyncInv, AuraTypeOK, UInt64
<1>2. Inv' BY NextInv DEF SyncInv
<1>3. AuraTypeOK'
  BY <1>1 DEF SyncInv, AuraTypeOK, At, Wallet
<1>4. Alone' BY DEF SyncInv, Alone, Wallet
<1>5. NotOvercounted' BY <1>1, Typed DEF NotOvercounted
<1>6. AllCovered'
  <2> SUFFICES ASSUME NEW r \in Requests PROVE ReadsCovered(request[r])'
    BY DEF AllCovered
  <2>1. CASE request[r].at = "free"
    BY <2>1 DEF ReadsCovered, CoveredBy
  <2>2. CASE request[r].at # "free"
    <3> DEFINE v == Wallet(r)
    <3>1. v \in Accounts /\ request[r].wallet = v /\ request[r] \in Request
      BY <2>2, Typed DEF At, Wallet
    <3>2. auraEarned'[v] \in Nat /\ auraEarned'[v] <= auraEarned[v]
      BY <1>1, <3>1
    <3>3. CoveredBy(request[r], auraEarned[v], Earned(v), paid[v])
      BY <3>1 DEF SyncInv, AllCovered, ReadsCovered
    <3>4. request[r].base \in Nat /\ request[r].delta \in Nat /\ paid[v] \in Nat
          /\ auraEarned[v] \in Nat
      BY <3>1, Typed, AlgoPoolAssumption DEF Request, UInt64
    <3>5. CoveredBy(request[r], auraEarned'[v], Earned(v), paid[v])
      BY <3>2, <3>3, <3>4 DEF CoveredBy
    <3> QED BY <3>1, <3>5 DEF ReadsCovered, Earned, vars
  <2> QED BY <2>1, <2>2
<1> QED BY <1>2, <1>3, <1>4, <1>5, <1>6 DEF SyncInv

LEMMA AuraMembershipKeeps ==
    ASSUME SyncInv, NEW u \in Accounts, AuraOptIn(u) \/ AuraClearState(u) PROVE SyncInv'
<1>1. auraMembers' \subseteq Accounts
  BY DEF AuraOptIn, AuraClearState, SyncInv, AuraTypeOK
<1> QED BY <1>1, CountRestarts DEF AuraOptIn, AuraClearState

LEMMA RestartKeeps == ASSUME SyncInv, Restart PROVE SyncInv'
<1>1. request' = [r \in Requests |-> Idle] /\ UNCHANGED <<vars, auraMembers, auraEarned, paid>>
  BY DEF Restart, Free
<1>2. faults' \in 0 .. MaxFaults
  BY AuraSyncAssumption DEF Restart, Faulty, SyncInv, AuraTypeOK
<1>3. Inv' BY <1>1, NextInv DEF SyncInv
<1>4. AuraTypeOK'
  BY <1>1, <1>2, IdleTyped DEF SyncInv, AuraTypeOK, At, Wallet
<1>5. Alone' BY <1>1, IdleTyped, AuraSyncAssumption DEF Alone, Wallet
<1>6. NotOvercounted' BY <1>1 DEF SyncInv, NotOvercounted
<1>7. AllCovered' BY <1>1, IdleTyped DEF AllCovered, ReadsCovered
<1> QED BY <1>3, <1>4, <1>5, <1>6, <1>7 DEF SyncInv

-----------------------------------------------------------------------------
LEMMA NextSync ==
    ASSUME ~Overlap PROVE SyncInv /\ [AuraNext]_allVars => SyncInv'
<1> SUFFICES ASSUME SyncInv, [AuraNext]_allVars PROVE SyncInv'
  OBVIOUS
<1>1. ASSUME NEW r \in Requests, NEW u \in Accounts, Arrive(r, u) PROVE SyncInv'
  BY <1>1, ArriveKeeps
<1>2. ASSUME NEW r \in Requests, NEW a \in PaymentAmounts,
             Submit(r, a) \/ SubmitAnswerLost(r, a)
      PROVE  SyncInv'
  BY <1>2, SubmitKeeps, SubmitAnswerLostKeeps
<1>3. ASSUME NEW r \in Requests,
             \/ ReadBefore(r) \/ ReadAfter(r) \/ Sync(r) \/ Refused(r)
             \/ ReadFails(r) \/ SyncAnswerLost(r)
      PROVE  SyncInv'
  BY <1>3, ReadBeforeKeeps, ReadAfterKeeps, SyncKeeps, RefusedKeeps
<1>4. CASE Restart BY <1>4, RestartKeeps
<1>5. CASE ChainMoves BY <1>5, ChainMovesKeeps
<1>6. ASSUME NEW u \in Accounts, AuraOptIn(u) \/ AuraClearState(u) PROVE SyncInv'
  BY <1>6, AuraMembershipKeeps
<1>7. CASE UNCHANGED allVars
  <2>1. Inv' BY <1>7, NextInv DEF SyncInv, allVars
  <2> QED BY <1>7, <2>1
          DEF allVars, syncVars, vars, SyncInv, AuraTypeOK, Alone, NotOvercounted,
              AllCovered, ReadsCovered, CoveredBy, Earned, At, Wallet
<1> QED BY <1>1, <1>2, <1>3, <1>4, <1>5, <1>6, <1>7 DEF AuraNext

LEMMA SyncInvariant == ASSUME ~Overlap PROVE AuraSpec => []SyncInv
<1>1. SyncInv /\ [AuraNext]_allVars => SyncInv' BY NextSync
<1> QED BY <1>1, InitSync, PTL DEF AuraSpec

\* While the requests of a wallet follow each other, the AURA application counts
\* no more points than its repayments earned, whatever else the wallet does and
\* whichever answers are lost.
THEOREM NotOvercountedHolds == ASSUME ~Overlap PROVE AuraSpec => []NotOvercounted
BY SyncInvariant, PTL DEF SyncInv

-----------------------------------------------------------------------------
(* What a repayment earns reaches the request's difference, whether or not *)
(* a wallet's requests overlap.  A wallet that has no local state has      *)
(* earned nothing, so joining cannot lower what it has earned: only        *)
(* clearing its state does, and then kept is gone.                         *)

UnjoinedEarnNothing == \A u \in Accounts \ optedIn : Earned(u) = 0

HoldsOwn(q, earned) ==
    /\ q.at \in {"free", "before", "submitting"} => q.own = 0
    /\ q.kept /\ q.at \in {"submitting", "after"} => q.before + q.own <= earned

ReadKept(q) == HoldsOwn(q, Earned(q.wallet))

ReadsKept == \A r \in Requests : ReadKept(request[r])

ReachInv == Inv /\ AuraTypeOK /\ UnjoinedEarnNothing /\ ReadsKept

\* Nothing is under way at first.
LEMMA InitReach == AuraInit => ReachInv
<1> SUFFICES ASSUME AuraInit PROVE ReachInv
  OBVIOUS
<1>1. Inv /\ AuraTypeOK BY InitSync DEF SyncInv
<1>2. UnjoinedEarnNothing
  BY DEF AuraInit, Init, UnjoinedEarnNothing, Earned, NoAura
<1>3. ReadsKept BY DEF AuraInit, ReadsKept, ReadKept, HoldsOwn, Idle
<1> QED BY <1>1, <1>2, <1>3 DEF ReachInv

\* The types that the steps below need.
LEMMA ReachTyped ==
    ASSUME ReachInv
    PROVE  /\ request \in [Requests -> Request]
           /\ \A r \in Requests : ~At(r, "free") => Wallet(r) \in Accounts
           /\ \A r \in Requests : request[r].before \in Nat /\ request[r].own \in Nat
           /\ aura \in [Accounts -> Aura]
           /\ \A u \in Accounts : Earned(u) \in UInt64 /\ Earned(u) \in Nat
                                  /\ auraEarned[u] \in Nat /\ paid[u] \in Nat
BY AlgoPoolAssumption
   DEF ReachInv, Inv, TypeOK, AuraTypeOK, Request, At, Wallet, Aura, Earned, UInt64

\* A wallet that keeps its local state loses none of its AURA, and one that has
\* none still has earned nothing.
LEMMA EarnedNeverDrops ==
    ASSUME ReachInv, [Next]_vars
    PROVE  /\ \A v \in Accounts : v \in optedIn \ optedIn' \/ Earned(v) <= Earned(v)'
           /\ UnjoinedEarnNothing'
<1>1. aura \in [Accounts -> Aura] /\ \A v \in Accounts : Earned(v) \in Nat
  BY ReachTyped
<1>2. CASE UNCHANGED <<aura, optedIn>>
  BY <1>1, <1>2 DEF Earned, ReachInv, UnjoinedEarnNothing
<1>3. CASE \E u \in Accounts : OptIn(u) \/ ClearState(u)
  <2>1. PICK u \in Accounts : OptIn(u) \/ ClearState(u) BY <1>3
  <2>2. /\ aura' = [aura EXCEPT ![u] = NoAura]
        /\ \/ u \notin optedIn /\ optedIn' = optedIn \cup {u}
           \/ u \in optedIn /\ optedIn' = optedIn \ {u}
    BY <2>1 DEF OptIn, ClearState
  <2>3. /\ Earned(u)' = 0
        /\ \A v \in Accounts \ {u} : Earned(v)' = Earned(v)
    BY <1>1, <2>2 DEF Earned, NoAura
  <2> QED BY <1>1, <2>2, <2>3 DEF ReachInv, UnjoinedEarnNothing
<1>4. CASE \E u \in Accounts, a \in PaymentAmounts : Repay(u, a)
  <2>1. PICK u \in Accounts, a \in PaymentAmounts : Repay(u, a) BY <1>4
  <2>2. Earned(u)' = Earned(u) + PointsPaid(u) /\ PointsPaid(u) \in Nat
    BY <2>1, RepaymentEarns, PointsPaidTyped DEF ReachInv, Inv
  <2>3. /\ \A v \in Accounts \ {u} : Earned(v)' = Earned(v)
        /\ u \in optedIn /\ optedIn' = optedIn
    BY <1>1, <2>1 DEF Repay, Earned
  <2> QED BY <1>1, <2>2, <2>3 DEF ReachInv, UnjoinedEarnNothing
<1>5. CASE \E u \in Accounts, sender \in Accounts \cup {Creator} : LiquidateDefault(sender, u)
  <2>1. PICK u \in Accounts : /\ aura' = [aura EXCEPT ![u] = Penalised(@, loan[u])]
                              /\ optedIn' = optedIn
    BY <1>5 DEF LiquidateDefault
  <2>2. \A v \in Accounts : Earned(v)' = Earned(v)
    BY <1>1, <2>1 DEF Penalised, Earned
  <2> QED BY <1>1, <2>1, <2>2 DEF ReachInv, UnjoinedEarnNothing
<1>6. \/ UNCHANGED <<aura, optedIn>>
      \/ \E u \in Accounts : OptIn(u) \/ ClearState(u)
      \/ \E u \in Accounts, a \in PaymentAmounts : Repay(u, a)
      \/ \E u \in Accounts, sender \in Accounts \cup {Creator} : LiquidateDefault(sender, u)
  BY DEF Next, vars, localVars, Tick, NewGroup, Fund, AppOptInUsdc, AdminAddPoolLiquidity,
         Deposit, Withdraw, RequestUnsecuredLoan, RequestCollateralLoan, OpenLoan
<1> QED BY <1>2, <1>3, <1>4, <1>5, <1>6

\* A request that only learns whether its wallet kept its state holds what it held.
LEMMA BystanderKept ==
    ASSUME ReachInv, [Next]_vars, NEW r \in Requests, request'[r] = KeptBy(request[r])
    PROVE  ReadKept(request[r])' /\ request'[r] \in Request
           /\ At(r, "free")' = (Wallet(r)' = NoWallet)
<1> DEFINE q == request[r]
           w == request'[r]
<1>1. q \in Request /\ q.before \in Nat /\ q.own \in Nat /\ ReadKept(q)
  BY ReachTyped DEF ReachInv, ReadsKept
<1>2. /\ w \in Request /\ w.at = q.at /\ w.own = q.own /\ w.before = q.before
      /\ w.wallet = q.wallet
      /\ w.kept => q.kept /\ q.wallet \notin optedIn \ optedIn'
  BY <1>1 DEF KeptBy, Request
<1>3. At(r, "free")' = (Wallet(r)' = NoWallet)
  BY <1>2 DEF ReachInv, AuraTypeOK, At, Wallet
<1>4. ASSUME w.kept, w.at \in {"submitting", "after"}
      PROVE  w.before + w.own <= aura'[w.wallet].aura_earned
  <2>1. q.wallet \in Accounts BY <1>2, <1>4, ReachTyped DEF At, Wallet
  <2>2. Earned(q.wallet) <= aura'[q.wallet].aura_earned /\ Earned(q.wallet) \in Nat
    <3>1. q.wallet \notin optedIn \ optedIn' BY <1>2, <1>4
    <3> QED BY <2>1, <3>1, EarnedNeverDrops, ReachTyped DEF Earned
  <2>3. q.before + q.own <= Earned(q.wallet)
    BY <1>1, <1>2, <1>4 DEF ReadKept, HoldsOwn
  <2>4. aura'[q.wallet].aura_earned \in Nat
    <3>1. Inv' BY NextInv DEF ReachInv
    <3> QED BY <2>1, <3>1, AlgoPoolAssumption DEF Inv, TypeOK, Aura, UInt64
  <2>5. q.before + q.own <= aura'[q.wallet].aura_earned BY <1>1, <2>2, <2>3, <2>4
  <2> QED BY <1>2, <2>5
<1>5. w.at \in {"free", "before", "submitting"} => w.own = 0
  BY <1>1, <1>2 DEF ReadKept, HoldsOwn
<1>6. HoldsOwn(w, aura'[w.wallet].aura_earned)
  BY <1>4, <1>5 DEF HoldsOwn
<1> QED BY <1>2, <1>3, <1>6 DEF ReadKept, Earned

\* A step under which every request is a bystander or holds what ReadKept asks.
LEMMA ReachStep ==
    ASSUME ReachInv, [Next]_vars, request' \in [Requests -> Request],
           \A r \in Requests :
              \/ request'[r] = KeptBy(request[r])
              \/ /\ ReadKept(request[r])'
                 /\ At(r, "free")' = (Wallet(r)' = NoWallet),
           auraMembers' \subseteq Accounts, auraEarned' \in [Accounts -> UInt64],
           paid' = paid \/ Pay, faults' \in 0 .. MaxFaults
    PROVE  ReachInv'
<1>1. Inv' BY NextInv DEF ReachInv
<1>2. UnjoinedEarnNothing' BY EarnedNeverDrops
<1>3. \A r \in Requests : ReadKept(request[r])' /\ At(r, "free")' = (Wallet(r)' = NoWallet)
  BY BystanderKept
<1>4. ReadsKept' BY <1>3 DEF ReadsKept
<1>5. paid' \in [Accounts -> Nat]
  <2>1. paid \in [Accounts -> Nat] BY DEF ReachInv, AuraTypeOK
  <2>2. \A u \in Accounts : PointsPaid(u) \in Nat BY PointsPaidTyped DEF ReachInv, Inv
  <2> QED BY <2>1, <2>2 DEF Pay
<1>6. AuraTypeOK' BY <1>3, <1>5 DEF AuraTypeOK
<1> QED BY <1>1, <1>2, <1>4, <1>6 DEF ReachInv

\* A step that changes one request only, and leaves every wallet in the pool.
LEMMA OneRequestMoves ==
    ASSUME ReachInv, [Next]_vars, optedIn' = optedIn,
           NEW r \in Requests, NEW q \in Request, Becomes(r, q),
           HoldsOwn(q, aura'[q.wallet].aura_earned),
           (q.at = "free") = (q.wallet = NoWallet),
           auraMembers' \subseteq Accounts, auraEarned' \in [Accounts -> UInt64],
           paid' = paid \/ Pay, faults' \in 0 .. MaxFaults
    PROVE  ReachInv'
<1>1. request \in [Requests -> Request] /\ request' = [request EXCEPT ![r] = q]
  BY ReachTyped DEF Becomes
<1>2. request' \in [Requests -> Request] /\ request'[r] = q
  BY <1>1
<1>3. \A o \in Requests \ {r} : request'[o] = KeptBy(request[o])
  BY <1>1 DEF KeptBy
<1>4. ReadKept(request[r])' /\ At(r, "free")' = (Wallet(r)' = NoWallet)
  BY <1>2 DEF At, Wallet, ReadKept, Earned
<1> QED BY <1>2, <1>3, <1>4, ReachStep

\* The steps of a request before it submits, and when it ends without counting.
LEMMA RequestReach ==
    ASSUME ReachInv, NEW r \in Requests, UNCHANGED <<vars, auraMembers, auraEarned, paid>>,
           \/ \E u \in Accounts : Arrive(r, u)
           \/ ReadBefore(r) \/ ReadAfter(r) \/ Refused(r) \/ ReadFails(r)
    PROVE  ReachInv'
<1>1. request[r] \in Request /\ ReadKept(request[r])
  BY ReachTyped DEF ReachInv, ReadsKept
<1>2. faults' \in 0 .. MaxFaults
  <2>1. faults' = faults \/ Faulty
    BY DEF Arrive, ReadBefore, ReadAfter, Refused, ReadFails
  <2> QED BY <2>1, AuraSyncAssumption DEF Faulty, ReachInv, AuraTypeOK
<1>3. ASSUME NEW q \in Request, Becomes(r, q), ReadKept(q),
             (q.at = "free") = (q.wallet = NoWallet)
      PROVE  ReachInv'
  <2>1. HoldsOwn(q, aura'[q.wallet].aura_earned) BY <1>3 DEF ReadKept, Earned, vars
  <2>2. optedIn' = optedIn BY DEF vars
  <2> QED BY <1>2, <1>3, <2>1, <2>2, OneRequestMoves DEF ReachInv, AuraTypeOK
<1>4. ReadKept(Idle) BY DEF ReadKept, HoldsOwn, Idle
<1>5. CASE Refused(r) \/ ReadFails(r)
  BY <1>3, <1>4, <1>5, IdleTyped DEF Refused, ReadFails, Free
<1>6. ASSUME NEW u \in Accounts, Arrive(r, u) PROVE ReachInv'
  <2> DEFINE q == [Idle EXCEPT !.at = "before", !.wallet = u]
  <2>1. q \in Request /\ q.at = "before" /\ q.wallet = u /\ q.own = 0
    BY IdleTyped DEF Request, RequestStates, Idle
  <2>2. u # NoWallet BY AuraSyncAssumption
  <2>3. ReadKept(q) BY <2>1 DEF ReadKept, HoldsOwn
  <2>4. Becomes(r, q) BY <1>6 DEF Arrive
  <2> HIDE DEF q
  <2> QED BY <1>3, <2>1, <2>2, <2>3, <2>4
<1>7. CASE ReadBefore(r)
  <2> DEFINE u == Wallet(r)
             q == [request[r] EXCEPT
                      !.at = "submitting", !.before = aura[u].aura_earned,
                      !.base = paid[u], !.kept = TRUE]
  <2>1. u \in Accounts /\ Earned(u) \in UInt64 /\ Earned(u) \in Nat /\ paid[u] \in Nat
        /\ request[r].at = "before"
    BY <1>7, ReachTyped DEF ReadBefore, At
  <2>2. q \in Request /\ q.at = "submitting" /\ q.wallet = u /\ q.before = Earned(u)
        /\ q.own = 0
    BY <1>1, <2>1 DEF Request, RequestStates, Earned, Wallet, ReadKept, HoldsOwn
  <2>3. u # NoWallet BY <2>1, AuraSyncAssumption
  <2>4. ReadKept(q) BY <2>1, <2>2 DEF ReadKept, HoldsOwn
  <2>5. Becomes(r, q) BY <1>7 DEF ReadBefore
  <2> HIDE DEF q
  <2> QED BY <1>3, <2>2, <2>3, <2>4, <2>5
<1>8. CASE ReadAfter(r)
  <2> DEFINE d == Delta(request[r])
             q == [request[r] EXCEPT !.at = "syncing", !.delta = d]
  <2>1. CASE d = 0
    BY <1>3, <1>4, <1>8, <2>1, IdleTyped DEF ReadAfter, Free
  <2>2. CASE d # 0
    <3>1. /\ Wallet(r) \in Accounts /\ Wallet(r) = request[r].wallet
          /\ Earned(Wallet(r)) \in UInt64 /\ request[r].before \in Nat
      BY <1>8, ReachTyped DEF ReadAfter, At, Wallet
    <3>2. d \in UInt64
      BY <3>1, AlgoPoolAssumption DEF Delta, Earned, UInt64
    <3>3. q \in Request /\ q.at = "syncing" /\ q.wallet = Wallet(r)
      BY <1>1, <3>1, <3>2 DEF Request, RequestStates
    <3>4. Wallet(r) # NoWallet BY <3>1, AuraSyncAssumption
    <3>5. ReadKept(q) BY <3>3 DEF ReadKept, HoldsOwn
    <3>6. Becomes(r, q) BY <1>8, <2>2 DEF ReadAfter
    <3> HIDE DEF q
    <3> QED BY <1>3, <3>3, <3>4, <3>5, <3>6
  <2> QED BY <2>1, <2>2
<1> QED BY <1>5, <1>6, <1>7, <1>8

\* A repayment that is answered has earned what the request calls its own; one
\* whose answer is lost ends the request.
LEMMA SubmitReach ==
    ASSUME ReachInv, NEW r \in Requests, NEW a \in PaymentAmounts,
           Submit(r, a) \/ SubmitAnswerLost(r, a)
    PROVE  ReachInv'
<1> DEFINE u == Wallet(r)
<1>1. /\ u \in Accounts /\ request[r] \in Request /\ request[r].at = "submitting"
      /\ request[r].wallet = u /\ ReadKept(request[r])
      /\ request[r].before \in Nat /\ Earned(u) \in Nat
  BY ReachTyped DEF Submit, SubmitAnswerLost, At, Wallet, ReachInv, ReadsKept
<1>2. Repay(u, a) /\ Pay /\ UNCHANGED <<auraMembers, auraEarned>> /\ faults' \in 0 .. MaxFaults
  BY AuraSyncAssumption
     DEF Submit, SubmitAnswerLost, Faulty, ReachInv, AuraTypeOK
<1>3. Next /\ optedIn' = optedIn BY <1>1, <1>2 DEF Next, Repay
<1>4. ASSUME NEW q \in Request, Becomes(r, q), HoldsOwn(q, aura'[q.wallet].aura_earned),
             (q.at = "free") = (q.wallet = NoWallet)
      PROVE  ReachInv'
  BY <1>2, <1>3, <1>4, OneRequestMoves DEF ReachInv, AuraTypeOK
<1>5. CASE SubmitAnswerLost(r, a)
  <2>1. HoldsOwn(Idle, aura'[Idle.wallet].aura_earned) BY DEF HoldsOwn, Idle
  <2> QED BY <1>4, <1>5, <2>1, IdleTyped DEF SubmitAnswerLost, Free
<1>6. CASE Submit(r, a)
  <2> DEFINE q == Submitted(request[r])
  <2>1. PointsPaid(u) \in UInt64 /\ PointsPaid(u) \in Nat
    BY <1>1, PointsPaidTyped DEF ReachInv, Inv
  <2>2. q \in Request /\ q.at = "after" /\ q.wallet = u /\ q.own = PointsPaid(u)
        /\ q.before = request[r].before /\ q.kept = request[r].kept
    BY <1>1, <2>1 DEF Submitted, Request, RequestStates
  <2>3. aura'[u].aura_earned = Earned(u) + PointsPaid(u)
    BY <1>1, <1>2, RepaymentEarns DEF ReachInv, Earned
  <2>4. request[r].kept => request[r].before <= Earned(u)
    BY <1>1 DEF ReadKept, HoldsOwn
  <2>5. u # NoWallet BY <1>1, AuraSyncAssumption
  <2>6. Becomes(r, q) BY <1>6 DEF Submit
  <2> HIDE DEF q
  <2>7. q.kept => q.before + q.own <= aura'[u].aura_earned
    BY <1>1, <2>1, <2>2, <2>3, <2>4
  <2>8. HoldsOwn(q, aura'[q.wallet].aura_earned)
    BY <2>2, <2>7 DEF HoldsOwn
  <2> QED BY <1>4, <2>2, <2>5, <2>6, <2>8
<1> QED BY <1>5, <1>6

\* The steps of the AURA application, with or without an answer.
LEMMA CountReach ==
    ASSUME ReachInv,
           \/ \E r \in Requests : Sync(r) \/ SyncAnswerLost(r)
           \/ \E u \in Accounts : AuraOptIn(u) \/ AuraClearState(u)
    PROVE  ReachInv'
<1>1. UNCHANGED <<vars, paid>> /\ optedIn' = optedIn
  BY DEF Sync, SyncAnswerLost, AuraOptIn, AuraClearState, vars
<1>2. faults' \in 0 .. MaxFaults
  BY AuraSyncAssumption
     DEF Sync, SyncAnswerLost, AuraOptIn, AuraClearState, Faulty, ReachInv, AuraTypeOK
<1>3. auraEarned \in [Accounts -> UInt64] /\ auraMembers \subseteq Accounts
  BY DEF ReachInv, AuraTypeOK
<1>4. ASSUME NEW r \in Requests, Sync(r) \/ SyncAnswerLost(r) PROVE ReachInv'
  <2>1. Wallet(r) \in Accounts /\ request[r] \in Request /\ auraEarned[Wallet(r)] \in Nat
    BY <1>4, ReachTyped DEF Sync, SyncAnswerLost, At
  <2>2. request[r].delta \in Nat
    BY <2>1, AlgoPoolAssumption DEF Request, UInt64
  <2>3. auraEarned[Wallet(r)] + request[r].delta \in UInt64
    BY <1>4, <2>1, <2>2, AlgoPoolAssumption
       DEF Sync, SyncAnswerLost, AddRepaymentAura, Fits, UInt64
  <2>4. auraEarned' \in [Accounts -> UInt64] /\ auraMembers' = auraMembers
        /\ Becomes(r, Idle)
    BY <1>3, <1>4, <2>3 DEF Sync, SyncAnswerLost, AddRepaymentAura, Free
  <2>5. HoldsOwn(Idle, aura'[Idle.wallet].aura_earned) BY DEF HoldsOwn, Idle
  <2> QED BY <1>1, <1>2, <1>3, <2>4, <2>5, IdleTyped, OneRequestMoves
<1>5. ASSUME NEW u \in Accounts, AuraOptIn(u) \/ AuraClearState(u) PROVE ReachInv'
  <2>1. 0 \in UInt64 BY AlgoPoolAssumption DEF UInt64
  <2>2. auraEarned' \in [Accounts -> UInt64] /\ auraMembers' \subseteq Accounts
        /\ request' = request
    BY <1>3, <1>5, <2>1 DEF AuraOptIn, AuraClearState
  <2>3. \A r \in Requests : request'[r] = KeptBy(request[r])
    BY <1>1, <2>2 DEF KeptBy
  <2> QED BY <1>1, <1>2, <2>2, <2>3, ReachTyped, ReachStep
<1> QED BY <1>4, <1>5

\* A restart forgets every request; a wallet acting by itself moves none.
LEMMA RestartOrChainReach ==
    ASSUME ReachInv, Restart \/ ChainMoves PROVE ReachInv'
<1>1. faults' \in 0 .. MaxFaults /\ UNCHANGED <<auraMembers, auraEarned>>
  BY AuraSyncAssumption DEF Restart, ChainMoves, Faulty, ReachInv, AuraTypeOK
<1>2. auraEarned \in [Accounts -> UInt64] /\ auraMembers \subseteq Accounts
  BY DEF ReachInv, AuraTypeOK
<1>3. CASE Restart
  <2>1. request' = [r \in Requests |-> Idle] /\ UNCHANGED <<vars, paid>>
    BY <1>3 DEF Restart, Free
  <2>2. request' \in [Requests -> Request] /\ \A r \in Requests : request'[r] = Idle
    BY <2>1, IdleTyped
  <2>3. \A r \in Requests : /\ ReadKept(request[r])'
                            /\ At(r, "free")' = (Wallet(r)' = NoWallet)
    BY <2>2 DEF ReadKept, HoldsOwn, At, Wallet, Idle
  <2> QED BY <1>1, <1>2, <2>1, <2>2, <2>3, ReachStep
<1>4. CASE ChainMoves
  <2>1. request' = [r \in Requests |-> KeptBy(request[r])] /\ Next /\ Pay
    BY <1>4 DEF ChainMoves
  <2>2. \A q \in Request : KeptBy(q) \in Request BY DEF KeptBy, Request
  <2>3. request' \in [Requests -> Request]
        /\ \A r \in Requests : request'[r] = KeptBy(request[r])
    BY <2>1, <2>2, ReachTyped
  <2> QED BY <1>1, <1>2, <2>1, <2>3, ReachStep
<1> QED BY <1>3, <1>4

\* Every step keeps the invariant.
LEMMA NextReach == ReachInv /\ [AuraNext]_allVars => ReachInv'
<1> SUFFICES ASSUME ReachInv, [AuraNext]_allVars PROVE ReachInv'
  OBVIOUS
<1>1. ASSUME NEW r \in Requests,
             \/ \E u \in Accounts : Arrive(r, u)
             \/ ReadBefore(r) \/ ReadAfter(r) \/ Refused(r) \/ ReadFails(r)
      PROVE  ReachInv'
  <2>1. UNCHANGED <<vars, auraMembers, auraEarned, paid>>
    BY <1>1 DEF Arrive, ReadBefore, ReadAfter, Refused, ReadFails
  <2> QED BY <1>1, <2>1, RequestReach
<1>2. ASSUME NEW r \in Requests, NEW a \in PaymentAmounts,
             Submit(r, a) \/ SubmitAnswerLost(r, a)
      PROVE  ReachInv'
  BY <1>2, SubmitReach
<1>3. ASSUME \/ \E r \in Requests : Sync(r) \/ SyncAnswerLost(r)
             \/ \E u \in Accounts : AuraOptIn(u) \/ AuraClearState(u)
      PROVE  ReachInv'
  BY <1>3, CountReach
<1>4. CASE Restart \/ ChainMoves BY <1>4, RestartOrChainReach
<1>5. CASE UNCHANGED allVars
  <2>1. Inv' BY <1>5, NextInv DEF ReachInv, allVars
  <2> QED BY <1>5, <2>1
          DEF allVars, syncVars, vars, ReachInv, AuraTypeOK, UnjoinedEarnNothing,
              ReadsKept, ReadKept, HoldsOwn, Earned, At, Wallet
<1> QED BY <1>1, <1>2, <1>3, <1>4, <1>5 DEF AuraNext

\* What ReadKept says of every request under way always holds.
LEMMA ReachInvariant == AuraSpec => []ReachInv
BY InitReach, NextReach, PTL DEF AuraSpec

DifferenceHoldsOwn(r) ==
    /\ At(r, "after") /\ ~At(r, "after")' /\ UNCHANGED faults
    /\ request[r].kept
    => request'[r].delta >= request[r].own

\* Only the second read takes an answered request further, short of a fault.
LEMMA OnlyReadAfterLeaves ==
    ASSUME ReachInv, AuraNext, NEW r \in Requests,
           At(r, "after"), ~At(r, "after")', UNCHANGED faults
    PROVE  ReadAfter(r)
<1>1. request \in [Requests -> Request] /\ faults \in Nat
  BY ReachTyped, AuraSyncAssumption DEF ReachInv, AuraTypeOK
<1>2. ~Faulty BY <1>1 DEF Faulty
<1>3. ~ChainMoves
  <2>1. KeptBy(request[r]).at = request[r].at BY <1>1 DEF KeptBy, Request
  <2> QED BY <2>1 DEF ChainMoves, At
<1>4. ASSUME NEW o \in Requests, ~At(o, "after"), NEW q, Becomes(o, q) PROVE FALSE
  BY <1>1, <1>4 DEF Becomes, At
<1>5. \A o \in Requests : /\ \A u \in Accounts : ~Arrive(o, u)
                          /\ \A a \in PaymentAmounts : ~Submit(o, a)
                          /\ ~ReadBefore(o) /\ ~Sync(o) /\ ~Refused(o)
  BY <1>4 DEF Arrive, Submit, ReadBefore, Sync, Refused, At
<1>6. \A u \in Accounts : ~AuraOptIn(u) /\ ~AuraClearState(u)
  BY DEF AuraOptIn, AuraClearState, At
<1>7. PICK o \in Requests : ReadAfter(o)
  BY <1>2, <1>3, <1>5, <1>6 DEF AuraNext, SubmitAnswerLost, ReadFails, SyncAnswerLost, Restart
<1>8. o = r BY <1>1, <1>7 DEF ReadAfter, Becomes, At
<1> QED BY <1>7, <1>8

\* The second read finds the points of the request's own repayment.
LEMMA StepReaches ==
    ASSUME ReachInv, [AuraNext]_allVars, NEW r \in Requests
    PROVE  DifferenceHoldsOwn(r)
<1> SUFFICES ASSUME At(r, "after"), ~At(r, "after")', UNCHANGED faults, request[r].kept
             PROVE  request'[r].delta >= request[r].own
  BY DEF DifferenceHoldsOwn
<1>1. ReadAfter(r)
  BY OnlyReadAfterLeaves DEF allVars, syncVars, At
<1>2. /\ Wallet(r) \in Accounts /\ Earned(Wallet(r)) \in Nat
      /\ request[r].before \in Nat /\ request[r].own \in Nat /\ request[r] \in Request
      /\ request[r].before + request[r].own <= Earned(Wallet(r))
  BY ReachTyped DEF At, Wallet, ReachInv, ReadsKept, ReadKept, HoldsOwn
<1>3. Delta(request[r]) >= request[r].own
  BY <1>2 DEF Delta, Earned, Wallet
<1>4. request'[r].delta = Delta(request[r])
  BY <1>1, <1>2, ReachTyped DEF ReadAfter, Becomes, Free, Idle, Request
<1> QED BY <1>3, <1>4

\* Requests and both applications keep their shape, whether or not requests of
\* one wallet overlap.
THEOREM AuraTypeCorrect == AuraSpec => []AuraTypeOK
BY ReachInvariant, PTL DEF ReachInv

\* What a wallet's repayment earned is in the difference its request goes on to
\* add, even if other requests or the wallet itself act in between: it is added
\* or the request fails, unless the wallet dropped its local state.
THEOREM RepaymentReachesSyncHolds == AuraSpec => RepaymentReachesSync
<1>1. ReachInv /\ [AuraNext]_allVars =>
        [\A r \in Requests :
            /\ At(r, "after") /\ ~At(r, "after")' /\ UNCHANGED faults
            /\ request[r].kept
            => request'[r].delta >= request[r].own]_allVars
  BY StepReaches DEF DifferenceHoldsOwn
<1> QED BY <1>1, ReachInvariant, PTL DEF AuraSpec, RepaymentReachesSync
=============================================================================
