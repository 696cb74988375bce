----------------------------- MODULE PoolHistory ------------------------------
(***************************************************************************)
(* What the pool-history route answers from the stored samples: the newest *)
(* ones of a range, in the order of their times.                           *)
(***************************************************************************)
EXTENDS PoolSampling, SequencesExt

CONSTANTS
    MsPerSecond,  \* milliseconds of a second
    DefaultLimit, \* 1500
    MaxPoints     \* POOL_TVL_MAX_POINTS

ASSUME PoolHistoryAssumption ==
    /\ MsPerSecond \in Nat \ {0}
    /\ DefaultLimit \in Nat \ {0} /\ MaxPoints \in Nat \ {0}

\* Firings are interchangeable, and so are requests.
WriterSymmetry == Permutations(Firings) \cup Permutations(Visits)

Seconds == 0 .. MaxTime \div MsPerSecond
Limits == -1 .. MaxPoints + 1

\* Number(limit) || 1500, held between one and the maximum.
CappedLimit(limit) ==
    LET asked == IF limit = 0 THEN DefaultLimit ELSE limit
        least == IF asked < 1 THEN 1 ELSE asked
    IN IF least > MaxPoints THEN MaxPoints ELSE least

InRange(s, fromTs, toTs) ==
    /\ s.observedAt >= fromTs * MsPerSecond
    /\ s.observedAt <= toTs * MsPerSecond

\* The orders sort may answer in; rows of equal times come in any.
OldestFirst(rows) ==
    {sorted \in Bijection(1 .. Cardinality(rows), rows) :
        \A i, j \in DOMAIN sorted : i < j => sorted[i].observedAt <= sorted[j].observedAt}
NewestFirst(rows) ==
    {sorted \in Bijection(1 .. Cardinality(rows), rows) :
        \A i, j \in DOMAIN sorted : i < j => sorted[i].observedAt >= sorted[j].observedAt}

\* getStoredPoolTvlHistory: sort, limit, reverse.
Answer(sorted, most) ==
    LET length == IF Len(sorted) < most THEN Len(sorted) ELSE most
    IN Reverse(SubSeq(sorted, 1, length))

Stored(fromTs, toTs, limit) ==
    {Answer(sorted, CappedLimit(limit)) :
        sorted \in NewestFirst({s \in samples : InRange(s, fromTs, toTs)})}

\* For every query the route takes (toTs after fromTs): the points come in the
\* order of their times, none twice; and one of the range is missing only when
\* the answer is full, of points no older.
HistoryIsNewest ==
    \A fromTs, toTs \in Seconds, limit \in Limits : fromTs < toTs =>
        \A points \in Stored(fromTs, toTs, limit) :
            /\ \A i, j \in DOMAIN points : i < j =>
                /\ points[i].observedAt <= points[j].observedAt
                /\ points[i] # points[j]
            /\ \A s \in samples \ ToSet(points) : InRange(s, fromTs, toTs) =>
                /\ Len(points) = CappedLimit(limit)
                /\ \A i \in DOMAIN points : points[i].observedAt >= s.observedAt
=============================================================================
