------------------------- MODULE DepositRecordsProofs -------------------------
(***************************************************************************)
(* For any users, transactions, requests and faults: a deposit is recorded *)
(* once, only if confirmed, and only a fault can lose its record.          *)
(***************************************************************************)
EXTENDS DepositRecords, TLAPS

ShapeOK(q) ==
    IF q.at = "free" THEN q = Idle
    ELSE /\ q.user # None /\ q.tx # None
         /\ q.at \notin {"looking", "verifying"} =>
                (q.at = "sending" /\ WithGroup(q)) \/ signer[q.tx] = q.user

\* What the handler has established of the payment at each await.
PathOK(q) ==
    /\ q.at # "free" /\ WithGroup(q) =>
        q.tx \in Groups /\ q.at \notin {"looking", "verifying"}
    /\ ~WithGroup(q) => q.at # "checking"
    /\ q.at \in {"checking", "recording"} => ledger[q.tx] = "confirmed"
    /\ ~WithGroup(q) /\ q.at \in {"sending", "waiting"} => ledger[q.tx] = "confirmed"

PathsOK == \A r \in Requests : PathOK(request[r])

\* Accounting starts at the submission, before the outcome is known.
GroupsAccounted ==
    \A t \in submitted :
        /\ ledger[t] # "unsent"
        /\ ledger[t] \in {"pending", "confirmed"} => DepositAccounted(t)

DepositInv ==
    DepositTypeOK /\ RecordedOnce /\ RecordedIsConfirmed /\ PathsOK /\ GroupsAccounted

OnItsWay(q, t) ==
    q.tx = t /\ WithGroup(q) /\ q.at \in {"waiting", "checking", "recording"}

LEMMA InitDeposit == Init => DepositInv
<1> SUFFICES ASSUME Init PROVE DepositInv
  OBVIOUS
<1> USE DepositRecordsAssumption DEF Init, Idle
<1>1. 0 \in 0 .. MaxFaults OBVIOUS
<1>2. DepositTypeOK
  BY <1>1 DEF DepositTypeOK, Request, RequestStates, Stages, At
<1>3. RecordedOnce /\ RecordedIsConfirmed /\ GroupsAccounted
  BY DEF RecordedOnce, RecordedIsConfirmed, GroupsAccounted
<1>4. PathsOK BY DEF PathsOK, PathOK, WithGroup
<1> QED BY <1>2, <1>3, <1>4 DEF DepositInv

LEMMA CallIsThere ==
    ASSUME DepositInv, NEW r \in Requests, ~WithGroup(request[r])
    PROVE  request[r].call \in Calls /\ request[r].call \in Txns /\ request[r].at # "free"
BY DepositRecordsAssumption
   DEF DepositInv, DepositTypeOK, Request, WithGroup, Txns, At, Idle

LEMMA TxIsThere ==
    ASSUME DepositInv, NEW r \in Requests, ~At(r, "free")
    PROVE  /\ request[r].tx \in Txns /\ request[r].user \in Wallets
           /\ Sent(request[r]) \in Txns
BY CallIsThere DEF DepositInv, DepositTypeOK, Request, At, Sent

\* A request moves on while ledger, records and history stay.
LEMMA MoveKeeps ==
    ASSUME DepositInv, NEW r \in Requests, NEW q \in Request,
           Becomes(r, q), UNCHANGED <<chain, records, history>>,
           ShapeOK(q), PathOK(q),
           \A t \in submitted : OnItsWay(request[r], t) =>
                \/ OnItsWay(q, t) \/ records[t] > 0
                \/ ledger[t] \notin {"pending", "confirmed"}
    PROVE  DepositInv'
<1> USE DepositRecordsAssumption DEF DepositInv, Becomes, chain, history
<1>1. request \in [Requests -> Request] /\ request' = [request EXCEPT ![r] = q]
  BY DEF DepositTypeOK
<1>2. DepositTypeOK'
  BY <1>1 DEF DepositTypeOK, ShapeOK, At
<1>3. RecordedOnce' /\ RecordedIsConfirmed'
  BY DEF RecordedOnce, RecordedIsConfirmed
<1>4. PathsOK'
  BY <1>1 DEF PathsOK, PathOK, WithGroup
<1>5. GroupsAccounted'
  <2> SUFFICES ASSUME NEW t \in submitted
               PROVE  /\ ledger[t] # "unsent"
                      /\ ledger[t] \in {"pending", "confirmed"} => DepositAccounted(t)'
    BY DEF GroupsAccounted
  <2>1. ledger[t] # "unsent" BY DEF GroupsAccounted
  <2>2. ASSUME ledger[t] \in {"pending", "confirmed"} PROVE DepositAccounted(t)'
    <3>1. CASE records[t] > 0 \/ t \in struck
      BY <3>1 DEF DepositAccounted
    <3>2. CASE \E o \in Requests : OnItsWay(request[o], t)
      <4>1. PICK o \in Requests : OnItsWay(request[o], t) BY <3>2
      <4>2. CASE o = r
        BY <1>1, <2>2, <4>1, <4>2 DEF DepositAccounted, OnItsWay, WithGroup
      <4>3. CASE o # r
        <5>1. request'[o] = request[o] BY <1>1, <4>3
        <5> QED BY <4>1, <5>1 DEF DepositAccounted, OnItsWay, WithGroup
      <4> QED BY <4>2, <4>3
    <3> QED BY <2>2, <3>1, <3>2 DEF GroupsAccounted, DepositAccounted, OnItsWay
  <2> QED BY <2>1, <2>2
<1> QED BY <1>2, <1>3, <1>4, <1>5

LEMMA IdleOK == Idle \in Request /\ ShapeOK(Idle) /\ PathOK(Idle)
BY DEF Idle, Request, RequestStates, ShapeOK, PathOK, WithGroup

LEMMA ArriveWithGroupKeeps ==
    ASSUME DepositInv, NEW r \in Requests, NEW u \in Wallets, NEW t \in Groups,
           ArriveWithGroup(r, u, t)
    PROVE  DepositInv'
<1> DEFINE q == [at |-> "sending", user |-> u, tx |-> t, call |-> None]
<1>1. q \in Request /\ ShapeOK(q) /\ PathOK(q)
  BY DepositRecordsAssumption
     DEF Request, RequestStates, ShapeOK, PathOK, WithGroup, Txns
<1>2. \A s : ~OnItsWay(request[r], s)
  BY DEF ArriveWithGroup, At, OnItsWay
<1>3. Becomes(r, q) /\ UNCHANGED <<chain, records, history>>
  BY DEF ArriveWithGroup
<1> HIDE DEF q
<1> QED BY <1>1, <1>2, <1>3, MoveKeeps

LEMMA ArriveWithIdKeeps ==
    ASSUME DepositInv, NEW r \in Requests, NEW u \in Wallets, NEW t \in Txns,
           NEW c \in Calls, ArriveWithId(r, u, t, c)
    PROVE  DepositInv'
<1> DEFINE q == [at |-> "looking", user |-> u, tx |-> t, call |-> c]
<1>1. q \in Request /\ ShapeOK(q) /\ PathOK(q)
  BY DepositRecordsAssumption
     DEF Request, RequestStates, ShapeOK, PathOK, WithGroup, Txns
<1>2. \A s : ~OnItsWay(request[r], s)
  BY DEF ArriveWithId, At, OnItsWay
<1>3. Becomes(r, q) /\ UNCHANGED <<chain, records, history>>
  BY DEF ArriveWithId
<1> HIDE DEF q
<1> QED BY <1>1, <1>2, <1>3, MoveKeeps

LEMMA LookUpKeeps == ASSUME DepositInv, NEW r \in Requests, LookUp(r) PROVE DepositInv'
<1> DEFINE q == [request[r] EXCEPT !.at = "verifying"]
<1>1. request[r] \in Request /\ request[r].at = "looking" /\ PathOK(request[r])
      /\ ShapeOK(request[r])
  BY DEF LookUp, At, DepositInv, DepositTypeOK, PathsOK, ShapeOK
<1>2. q \in Request /\ ShapeOK(q) /\ PathOK(q)
  BY <1>1 DEF Request, RequestStates, ShapeOK, PathOK, WithGroup
<1>3. \A s : ~OnItsWay(request[r], s) BY <1>1 DEF OnItsWay
<1>4. Becomes(r, q) /\ UNCHANGED <<chain, records, history>>
  BY DEF LookUp, Moves
<1> HIDE DEF q
<1> QED BY <1>2, <1>3, <1>4, MoveKeeps

LEMMA VerifyKeeps == ASSUME DepositInv, NEW r \in Requests, Verify(r) PROVE DepositInv'
<1> DEFINE q == [request[r] EXCEPT !.at = "sending"]
<1>1. request[r] \in Request /\ request[r].at = "verifying" /\ PathOK(request[r])
      /\ ShapeOK(request[r]) /\ ledger[request[r].tx] = "confirmed"
      /\ signer[request[r].tx] = request[r].user
  BY DEF Verify, At, DepositInv, DepositTypeOK, PathsOK, ShapeOK, Settled, SignedBy
<1>2. q \in Request /\ ShapeOK(q) /\ PathOK(q)
  BY <1>1 DEF Request, RequestStates, ShapeOK, PathOK, WithGroup
<1>3. \A s : ~OnItsWay(request[r], s) BY <1>1 DEF OnItsWay
<1>4. Becomes(r, q) /\ UNCHANGED <<chain, records, history>>
  BY DEF Verify, Moves
<1> HIDE DEF q
<1> QED BY <1>2, <1>3, <1>4, MoveKeeps

LEMMA ConfirmedKeeps ==
    ASSUME DepositInv, NEW r \in Requests, Confirmed(r) PROVE DepositInv'
<1> DEFINE q == [request[r] EXCEPT
                    !.at = IF WithGroup(request[r]) THEN "checking" ELSE "recording"]
<1>1. request[r] \in Request /\ request[r].at = "waiting" /\ PathOK(request[r])
      /\ ShapeOK(request[r]) /\ ledger[Sent(request[r])] = "confirmed"
  BY DEF Confirmed, At, DepositInv, DepositTypeOK, PathsOK, ShapeOK, Settled
<1>2. q \in Request /\ ShapeOK(q) /\ PathOK(q)
  BY <1>1 DEF Request, RequestStates, ShapeOK, PathOK, WithGroup, Sent
<1>3. \A s : OnItsWay(request[r], s) => OnItsWay(q, s)
  BY <1>1 DEF OnItsWay, WithGroup, Request
<1>4. Becomes(r, q) /\ UNCHANGED <<chain, records, history>>
  BY DEF Confirmed, Moves
<1> HIDE DEF q
<1> QED BY <1>2, <1>3, <1>4, MoveKeeps

LEMMA CheckKeeps == ASSUME DepositInv, NEW r \in Requests, Check(r) PROVE DepositInv'
<1> DEFINE q == [request[r] EXCEPT !.at = "recording"]
<1>1. request[r] \in Request /\ request[r].at = "checking" /\ PathOK(request[r])
      /\ ShapeOK(request[r])
  BY DEF Check, At, DepositInv, DepositTypeOK, PathsOK, ShapeOK
<1>2. q \in Request /\ ShapeOK(q) /\ PathOK(q)
  BY <1>1 DEF Request, RequestStates, ShapeOK, PathOK, WithGroup
<1>3. \A s : OnItsWay(request[r], s) => OnItsWay(q, s)
  BY <1>1 DEF OnItsWay, WithGroup, Request
<1>4. Becomes(r, q) /\ UNCHANGED <<chain, records, history>>
  BY DEF Check, Moves
<1> HIDE DEF q
<1> QED BY <1>2, <1>3, <1>4, MoveKeeps

\* Whatever is refused was not on its way, expired, or is recorded already.
LEMMA RefuseKeeps == ASSUME DepositInv, NEW r \in Requests, Refuse(r) PROVE DepositInv'
<1>1. Becomes(r, Idle) /\ UNCHANGED <<chain, records, history>>
  BY DEF Refuse, Ends
<1>2. ASSUME NEW t \in submitted, OnItsWay(request[r], t)
      PROVE  records[t] > 0 \/ ledger[t] \notin {"pending", "confirmed"}
  <2>1. t = request[r].tx /\ t = Sent(request[r])
    BY <1>2 DEF OnItsWay, Sent
  <2>2. t \in Txns /\ records[t] \in Nat
    BY DepositRecordsAssumption DEF DepositInv, DepositTypeOK, Txns
  <2>3. CASE request[r].at = "waiting"
    BY <2>1, <2>3 DEF Refuse, At
  <2>4. CASE request[r].at = "checking"
    BY <2>1, <2>4 DEF Refuse, At, Used
  <2>5. CASE request[r].at = "recording"
    BY <2>1, <2>2, <2>5 DEF Refuse, At, Insertable
  <2> QED BY <1>2, <2>3, <2>4, <2>5 DEF OnItsWay
<1> QED BY <1>1, <1>2, IdleOK, MoveKeeps

LEMMA RecordKeeps == ASSUME DepositInv, NEW r \in Requests, Record(r) PROVE DepositInv'
<1> DEFINE p == request[r].tx
<1> USE DepositRecordsAssumption DEF DepositInv, chain, history
<1>1. /\ request[r].at = "recording" /\ records[p] = 0
      /\ records' = [records EXCEPT ![p] = @ + 1]
      /\ request' = [request EXCEPT ![r] = Idle]
      /\ UNCHANGED <<signer, ledger, submitted, struck, faults>>
  BY DEF Record, At, Insertable, Ends, Becomes
<1>2. p \in Txns /\ ledger[p] = "confirmed"
  BY <1>1, TxIsThere DEF PathsOK, PathOK, At
<1>3. records \in [Txns -> Nat] /\ request \in [Requests -> Request]
  BY DEF DepositTypeOK
<1>4. records' \in [Txns -> Nat] /\ records'[p] = 1
      /\ \A t \in Txns : t # p => records'[t] = records[t]
  BY <1>1, <1>2, <1>3
<1>5. DepositTypeOK'
  <2>1. request' \in [Requests -> Request] BY <1>1, <1>3, IdleOK
  <2>2. \A o \in Requests : ShapeOK(request'[o])
    BY <1>1, <1>3, IdleOK DEF DepositTypeOK, ShapeOK, At
  <2> QED BY <1>1, <1>4, <2>1, <2>2 DEF DepositTypeOK, ShapeOK, At
<1>6. RecordedOnce' /\ RecordedIsConfirmed'
  BY <1>1, <1>2, <1>4 DEF RecordedOnce, RecordedIsConfirmed
<1>7. PathsOK'
  BY <1>1, <1>3, IdleOK DEF PathsOK, PathOK, WithGroup
<1>8. GroupsAccounted'
  <2> SUFFICES ASSUME NEW t \in submitted, ledger[t] \in {"pending", "confirmed"}
               PROVE  DepositAccounted(t)'
    BY <1>1 DEF GroupsAccounted
  <2>1. t \in Txns BY DEF DepositTypeOK, Txns
  <2>2. CASE t = p BY <1>4, <2>2 DEF DepositAccounted
  <2>3. CASE t # p
    <3>1. \A o \in Requests : request[o].tx = t => request'[o] = request[o]
      BY <1>1, <1>3, <2>3
    <3> QED BY <1>1, <1>4, <2>1, <2>3, <3>1
            DEF GroupsAccounted, DepositAccounted, WithGroup
  <2> QED BY <2>2, <2>3
<1> QED BY <1>5, <1>6, <1>7, <1>8

-----------------------------------------------------------------------------
(* The ledger moves: confirmed transactions stay confirmed, and what is    *)
(* pending was handed over.                                                *)

LEMMA LedgerMoves ==
    ASSUME DepositInv, NEW t \in Txns, NEW stage \in Stages,
           ledger[t] # "confirmed", ledger' = [ledger EXCEPT ![t] = stage],
           stage # "unsent",
           ledger[t] = "unsent" \/ stage = "expired" \/ ledger[t] = "pending",
           UNCHANGED <<signer, records, request, history>>
    PROVE  DepositInv'
<1> USE DepositRecordsAssumption DEF DepositInv, history
<1>1. ledger \in [Txns -> Stages] BY DEF DepositTypeOK
<1>2. \A s : ledger[s] = "confirmed" /\ s \in Txns => ledger'[s] = "confirmed"
  BY <1>1
<1>3. DepositTypeOK'
  BY <1>1 DEF DepositTypeOK, At
<1>4. RecordedOnce' /\ RecordedIsConfirmed'
  BY <1>2 DEF RecordedOnce, RecordedIsConfirmed
<1>5. PathsOK'
  <2> SUFFICES ASSUME NEW r \in Requests PROVE PathOK(request[r])'
    BY DEF PathsOK
  <2>1. request[r].at # "free" => request[r].tx \in Txns
    BY TxIsThere DEF At
  <2> QED BY <1>2, <2>1 DEF PathsOK, PathOK, WithGroup
<1>6. GroupsAccounted'
  <2> SUFFICES ASSUME NEW s \in submitted
               PROVE  /\ ledger'[s] # "unsent"
                      /\ ledger'[s] \in {"pending", "confirmed"} => DepositAccounted(s)'
    BY DEF GroupsAccounted
  <2>1. s \in Txns /\ ledger[s] # "unsent"
    BY DEF DepositTypeOK, Txns, GroupsAccounted
  <2>2. DepositAccounted(s) => DepositAccounted(s)'
    BY DEF DepositAccounted, WithGroup
  <2>3. CASE s = t
    BY <1>1, <2>1, <2>2, <2>3 DEF GroupsAccounted
  <2>4. CASE s # t
    BY <1>1, <2>1, <2>2, <2>4 DEF GroupsAccounted
  <2> QED BY <2>3, <2>4
<1> QED BY <1>3, <1>4, <1>5, <1>6

LEMMA ConfirmKeeps == ASSUME DepositInv, NEW t \in Txns, Confirm(t) PROVE DepositInv'
BY LedgerMoves DEF Confirm, Stages

LEMMA ExpireKeeps == ASSUME DepositInv, NEW t \in Txns, Expire(t) PROVE DepositInv'
BY LedgerMoves DEF Expire, Stages

LEMMA WalletSendsKeeps ==
    ASSUME DepositInv, NEW t \in Txns, WalletSends(t) PROVE DepositInv'
BY LedgerMoves DEF WalletSends, HandOver, Stages

-----------------------------------------------------------------------------
(* Submissions and faults. *)

\* Handing over to the ledger undoes no confirmation and accounts for its group.
LEMMA SendRawFacts ==
    ASSUME DepositInv, NEW r \in Requests, SendRaw(r)
    PROVE  /\ request[r].at = "sending"
           /\ Sent(request[r]) \in Txns
           /\ ledger' \in [Txns -> Stages] /\ signer' = signer
           /\ \A t \in Txns : ledger[t] = "confirmed" => ledger'[t] = "confirmed"
           /\ \A t \in Txns : t # Sent(request[r]) => ledger'[t] = ledger[t]
           /\ ledger'[Sent(request[r])] = "pending"
           /\ submitted' \subseteq Groups
           /\ \A t \in submitted' :
                t \in submitted \/ (t = request[r].tx /\ WithGroup(request[r]))
<1>1. request[r].at = "sending" /\ ledger[Sent(request[r])] = "unsent"
      /\ ledger' = [ledger EXCEPT ![Sent(request[r])] = "pending"]
      /\ signer' = signer
      /\ submitted' = submitted \cup (Groups \cap {Sent(request[r])})
  BY DEF SendRaw, HandOver, At
<1>2. Sent(request[r]) \in Txns
  BY <1>1, TxIsThere DEF At
<1>3. ledger \in [Txns -> Stages] /\ submitted \subseteq Groups
  BY DEF DepositInv, DepositTypeOK
<1>4. "pending" \in Stages BY DEF Stages
<1>5. \A t \in Groups : t = Sent(request[r]) => WithGroup(request[r]) /\ t = request[r].tx
  BY CallIsThere, DepositRecordsAssumption DEF Sent
<1> QED BY <1>1, <1>2, <1>3, <1>4, <1>5

LEMMA SendKeeps == ASSUME DepositInv, NEW r \in Requests, Send(r) PROVE DepositInv'
<1> USE DepositRecordsAssumption DEF DepositInv
<1> DEFINE q == [request[r] EXCEPT !.at = "waiting"]
<1>1. SendRaw(r) /\ request' = [request EXCEPT ![r] = q]
      /\ UNCHANGED <<records, struck, faults>>
  BY DEF Send, Moves, Becomes
<1>2. request[r].at = "sending" /\ request \in [Requests -> Request]
      /\ PathOK(request[r])
  BY <1>1, SendRawFacts DEF DepositTypeOK, PathsOK
<1>3. /\ q \in Request /\ q.at = "waiting" /\ q.tx = request[r].tx
      /\ q.call = request[r].call /\ q.user = request[r].user
  BY <1>2 DEF Request, RequestStates
<1>4. request[r].tx \in Txns BY <1>2, TxIsThere DEF At
<1>signed. /\ q.user # None /\ q.tx # None /\ signer[q.tx] = q.user
  <2>1. WithGroup(request[r]) => signer[request[r].tx] = request[r].user
    BY <1>1 DEF SendRaw, SignedBy, Sent
  <2> QED BY <1>2, <1>3, <2>1 DEF DepositTypeOK, At
<1>shape. ShapeOK(q) BY <1>3, <1>signed DEF ShapeOK
<1> HIDE DEF q
<1>5. DepositTypeOK'
  <2>1. request' \in [Requests -> Request] BY <1>1, <1>2, <1>3
  <2>2. \A o \in Requests : ShapeOK(request'[o])
    BY <1>1, <1>2, <1>shape DEF DepositTypeOK, ShapeOK, At
  <2> QED BY <1>1, <2>1, <2>2, SendRawFacts DEF DepositTypeOK, ShapeOK, At
<1>6. RecordedOnce' /\ RecordedIsConfirmed'
  BY <1>1, SendRawFacts DEF RecordedOnce, RecordedIsConfirmed
<1>7. PathsOK'
  <2> SUFFICES ASSUME NEW o \in Requests PROVE PathOK(request[o])'
    BY DEF PathsOK
  <2>1. CASE o = r
    BY <1>1, <1>2, <1>3, <1>4, <2>1, SendRawFacts DEF PathOK, WithGroup
  <2>2. CASE o # r
    <3>1. request'[o] = request[o] /\ PathOK(request[o])
      BY <1>1, <1>2, <2>2 DEF PathsOK
    <3>2. request[o].at # "free" => request[o].tx \in Txns BY TxIsThere DEF At
    <3> QED BY <1>1, <3>1, <3>2, SendRawFacts DEF PathOK, WithGroup
  <2> QED BY <2>1, <2>2
<1>8. GroupsAccounted'
  <2> SUFFICES ASSUME NEW t \in submitted'
               PROVE  /\ ledger'[t] # "unsent"
                      /\ ledger'[t] \in {"pending", "confirmed"} => DepositAccounted(t)'
    BY DEF GroupsAccounted
  <2>1. t \in Txns BY <1>1, SendRawFacts DEF Txns
  <2>2. CASE t = request[r].tx /\ WithGroup(request[r])
    <3>1. t = Sent(request[r]) BY <2>2 DEF Sent
    <3>2. DepositAccounted(t)'
      BY <1>1, <1>2, <1>3, <2>2 DEF DepositAccounted, WithGroup
    <3> QED BY <1>1, <3>1, <3>2, SendRawFacts
  <2>3. CASE t \in submitted /\ ~(t = request[r].tx /\ WithGroup(request[r]))
    <3>1. ledger[t] # "unsent" BY <2>3 DEF GroupsAccounted
    <3>2. t # Sent(request[r])
      BY <1>1, <3>1 DEF SendRaw, HandOver
    <3>3. ledger'[t] = ledger[t] BY <1>1, <2>1, <3>2, SendRawFacts
    <3>4. \A o \in Requests : OnItsWay(request[o], t) => request'[o] = request[o]
      BY <1>1, <1>2, <2>3 DEF OnItsWay
    <3>5. DepositAccounted(t) => DepositAccounted(t)'
      BY <1>1, <3>4 DEF DepositAccounted, OnItsWay, WithGroup
    <3> QED BY <2>3, <3>1, <3>3, <3>5 DEF GroupsAccounted
  <2> QED BY <1>1, <2>2, <2>3, SendRawFacts
<1> QED BY <1>5, <1>6, <1>7, <1>8

\* A fault ends requests and marks the groups they had.
LEMMA StruckGroups ==
    ASSUME DepositInv, NEW hit \in SUBSET Requests, Strikes(hit)
    PROVE  /\ struck' \subseteq Groups /\ struck \subseteq struck'
           /\ faults' \in 0 .. MaxFaults
           /\ \A r \in hit :
                ~At(r, "free") /\ WithGroup(request[r]) => request[r].tx \in struck'
<1>1. faults' \in 0 .. MaxFaults
  BY DepositRecordsAssumption DEF Strikes, DepositInv, DepositTypeOK
<1>2. \A r \in hit : ~At(r, "free") /\ WithGroup(request[r]) => request[r].tx \in Groups
  BY DEF DepositInv, PathsOK, PathOK, At
<1>3. struck \subseteq Groups BY DEF DepositInv, DepositTypeOK
<1> QED BY <1>1, <1>2, <1>3 DEF Strikes

LEMMA SendAnswerLostKeeps ==
    ASSUME DepositInv, NEW r \in Requests, SendAnswerLost(r) PROVE DepositInv'
<1> USE DepositRecordsAssumption DEF DepositInv
<1>1. SendRaw(r) /\ request' = [request EXCEPT ![r] = Idle]
      /\ Strikes({r}) /\ UNCHANGED records
  BY DEF SendAnswerLost, Ends, Becomes
<1>2. request[r].at = "sending" /\ request \in [Requests -> Request]
  BY <1>1, SendRawFacts DEF DepositTypeOK
<1>3. /\ struck' \subseteq Groups /\ struck \subseteq struck'
      /\ faults' \in 0 .. MaxFaults
      /\ WithGroup(request[r]) => request[r].tx \in struck'
  BY <1>1, <1>2, StruckGroups DEF At
<1>4. DepositTypeOK'
  <2>1. request' \in [Requests -> Request] BY <1>1, <1>2, IdleOK
  <2>2. \A o \in Requests : ShapeOK(request'[o])
    BY <1>1, <1>2, IdleOK DEF DepositTypeOK, ShapeOK, At
  <2> QED BY <1>1, <1>3, <2>1, <2>2, SendRawFacts DEF DepositTypeOK, ShapeOK, At
<1>5. RecordedOnce' /\ RecordedIsConfirmed'
  BY <1>1, SendRawFacts DEF RecordedOnce, RecordedIsConfirmed
<1>6. PathsOK'
  <2> SUFFICES ASSUME NEW o \in Requests PROVE PathOK(request[o])'
    BY DEF PathsOK
  <2>1. CASE o = r
    BY <1>1, <1>2, <2>1 DEF PathOK, WithGroup, Idle
  <2>2. CASE o # r
    <3>1. request'[o] = request[o] /\ PathOK(request[o])
      BY <1>1, <1>2, <2>2 DEF PathsOK
    <3>2. request[o].at # "free" => request[o].tx \in Txns BY TxIsThere DEF At
    <3> QED BY <1>1, <3>1, <3>2, SendRawFacts DEF PathOK, WithGroup
  <2> QED BY <2>1, <2>2
<1>7. GroupsAccounted'
  <2> SUFFICES ASSUME NEW t \in submitted'
               PROVE  /\ ledger'[t] # "unsent"
                      /\ ledger'[t] \in {"pending", "confirmed"} => DepositAccounted(t)'
    BY DEF GroupsAccounted
  <2>1. t \in Txns BY <1>1, SendRawFacts DEF Txns
  <2>2. CASE t = request[r].tx /\ WithGroup(request[r])
    <3>1. t = Sent(request[r]) BY <2>2 DEF Sent
    <3>2. DepositAccounted(t)' BY <1>3, <2>2 DEF DepositAccounted
    <3> QED BY <1>1, <3>1, <3>2, SendRawFacts
  <2>3. CASE t \in submitted /\ ~(t = request[r].tx /\ WithGroup(request[r]))
    <3>1. ledger[t] # "unsent" BY <2>3 DEF GroupsAccounted
    <3>2. t # Sent(request[r])
      BY <1>1, <3>1 DEF SendRaw, HandOver
    <3>3. ledger'[t] = ledger[t] BY <1>1, <2>1, <3>2, SendRawFacts
    <3>4. \A o \in Requests : OnItsWay(request[o], t) => request'[o] = request[o]
      BY <1>1, <1>2, <2>3 DEF OnItsWay
    <3>5. DepositAccounted(t) => DepositAccounted(t)'
      BY <1>1, <1>3, <3>4 DEF DepositAccounted, OnItsWay, WithGroup
    <3> QED BY <2>3, <3>1, <3>3, <3>5 DEF GroupsAccounted
  <2> QED BY <1>1, <2>2, <2>3, SendRawFacts
<1> QED BY <1>4, <1>5, <1>6, <1>7

LEMMA FaultKeeps ==
    ASSUME DepositInv, NEW hit \in SUBSET Requests, Strikes(hit),
           request' = [r \in Requests |-> IF r \in hit THEN Idle ELSE request[r]],
           UNCHANGED <<chain, records, submitted>>
    PROVE  DepositInv'
<1> USE DepositRecordsAssumption DEF DepositInv, chain
<1>1. /\ struck' \subseteq Groups /\ struck \subseteq struck'
      /\ faults' \in 0 .. MaxFaults
      /\ \A r \in hit :
            ~At(r, "free") /\ WithGroup(request[r]) => request[r].tx \in struck'
  BY StruckGroups
<1>2. DepositTypeOK'
  <2>1. request' \in [Requests -> Request] BY IdleOK DEF DepositTypeOK
  <2>2. \A o \in Requests : ShapeOK(request'[o])
    BY IdleOK DEF DepositTypeOK, ShapeOK, At
  <2> QED BY <1>1, <2>1, <2>2 DEF DepositTypeOK, ShapeOK, At
<1>3. RecordedOnce' /\ RecordedIsConfirmed'
  BY DEF RecordedOnce, RecordedIsConfirmed
<1>4. PathsOK'
  BY DEF PathsOK, PathOK, WithGroup, Idle
<1>5. GroupsAccounted'
  <2> SUFFICES ASSUME NEW t \in submitted, ledger[t] \in {"pending", "confirmed"}
               PROVE  DepositAccounted(t)'
    BY DEF GroupsAccounted
  <2>1. CASE records[t] > 0 \/ t \in struck
    BY <1>1, <2>1 DEF DepositAccounted
  <2>2. CASE \E o \in Requests : OnItsWay(request[o], t)
    <3>1. PICK o \in Requests : OnItsWay(request[o], t) BY <2>2
    <3>2. CASE o \in hit
      BY <1>1, <3>1, <3>2 DEF DepositAccounted, OnItsWay, At
    <3>3. CASE o \notin hit
      BY <3>1, <3>3 DEF DepositAccounted, OnItsWay, WithGroup
    <3> QED BY <3>2, <3>3
  <2> QED BY <2>1, <2>2 DEF GroupsAccounted, DepositAccounted, OnItsWay
<1> QED BY <1>2, <1>3, <1>4, <1>5

LEMMA AwaitFailsKeeps ==
    ASSUME DepositInv, NEW r \in Requests, AwaitFails(r) PROVE DepositInv'
<1>1. request \in [Requests -> Request] BY DEF DepositInv, DepositTypeOK
<1>2. request' = [o \in Requests |-> IF o \in {r} THEN Idle ELSE request[o]]
  BY <1>1 DEF AwaitFails, Ends, Becomes
<1>3. Strikes({r}) /\ UNCHANGED <<chain, records, submitted>> BY DEF AwaitFails
<1> QED BY <1>2, <1>3, FaultKeeps

LEMMA RestartKeeps == ASSUME DepositInv, Restart PROVE DepositInv'
<1>1. request' = [o \in Requests |-> IF o \in Requests THEN Idle ELSE request[o]]
  BY DEF Restart
<1>2. Strikes(Requests) /\ UNCHANGED <<chain, records, submitted>> BY DEF Restart
<1> QED BY <1>1, <1>2, FaultKeeps

-----------------------------------------------------------------------------
LEMMA NextDeposit == DepositInv /\ [Next]_vars => DepositInv'
<1> SUFFICES ASSUME DepositInv, [Next]_vars PROVE DepositInv'
  OBVIOUS
<1>1. ASSUME NEW r \in Requests, NEW u \in Wallets, NEW t \in Groups,
             ArriveWithGroup(r, u, t)
      PROVE  DepositInv'
  BY <1>1, ArriveWithGroupKeeps
<1>2. ASSUME NEW r \in Requests, NEW u \in Wallets, NEW t \in Txns, NEW c \in Calls,
             ArriveWithId(r, u, t, c)
      PROVE  DepositInv'
  BY <1>2, ArriveWithIdKeeps
<1>3. ASSUME NEW r \in Requests, RequestStep(r) PROVE DepositInv'
  BY <1>3, LookUpKeeps, VerifyKeeps, SendKeeps, ConfirmedKeeps, CheckKeeps,
     RecordKeeps, RefuseKeeps DEF RequestStep
<1>4. ASSUME NEW r \in Requests, SendAnswerLost(r) \/ AwaitFails(r) PROVE DepositInv'
  BY <1>4, SendAnswerLostKeeps, AwaitFailsKeeps
<1>5. CASE Restart BY <1>5, RestartKeeps
<1>6. ASSUME NEW t \in Txns, Confirm(t) \/ Expire(t) \/ WalletSends(t) PROVE DepositInv'
  BY <1>6, ConfirmKeeps, ExpireKeeps, WalletSendsKeeps
<1>7. CASE UNCHANGED vars
  BY <1>7 DEF vars, DepositInv, DepositTypeOK, RecordedOnce, RecordedIsConfirmed,
              PathsOK, PathOK, WithGroup, GroupsAccounted, DepositAccounted, At
<1> QED BY <1>1, <1>2, <1>3, <1>4, <1>5, <1>6, <1>7 DEF Next

LEMMA DepositInvariant == Spec => []DepositInv
BY InitDeposit, NextDeposit, PTL DEF Spec

\* Requests, records and transactions keep their shape.
THEOREM DepositTypeCorrect == Spec => []DepositTypeOK
BY DepositInvariant, PTL DEF DepositInv

\* No interleaving of requests records a transaction twice.
THEOREM RecordedOnceHolds == Spec => []RecordedOnce
BY DepositInvariant, PTL DEF DepositInv

\* Nothing is recorded that the ledger has not confirmed.
THEOREM RecordedIsConfirmedHolds == Spec => []RecordedIsConfirmed
BY DepositInvariant, PTL DEF DepositInv

\* Only a fault loses the record of a group the backend got confirmed.
THEOREM DepositsAccountedHolds == Spec => []DepositsAccounted
<1>1. DepositInv => DepositsAccounted
  BY DEF DepositInv, GroupsAccounted, DepositsAccounted
<1> QED BY <1>1, DepositInvariant, PTL
=============================================================================
