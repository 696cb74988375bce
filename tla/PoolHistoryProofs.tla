-------------------------- MODULE PoolHistoryProofs ---------------------------
(***************************************************************************)
(* For any number of firings, requests, samples and faults: one firing of  *)
(* the job is at work, samples closer than the interval come from work     *)
(* that overlapped, and a query is answered by the newest samples of its   *)
(* range, whichever way the database orders equal times.                   *)
(***************************************************************************)
EXTENDS PoolHistory, FiniteSetTheorems, TLAPS

-----------------------------------------------------------------------------
(* The sampling.                                                           *)


\* The newest sample exists: kept as an invariant, since samples come one by one.
HasNewest == samples # {} => \E s \in samples : \A t \in samples : t.observedAt <= s.observedAt

\* The inserts are counted: no work begins, and no sample lies, beyond the count.
Counted ==
    /\ \A s \in samples : s.began <= stored /\ s.place <= stored
    /\ \A w \in Writers : writer[w].began <= stored

\* The work of w began before s was stored, and they are not both the job's.
StoredMeanwhile(s, w) == ~(s.by \in Firings /\ w \in Firings) /\ writer[w].began < s.place

\* A writer about to insert has looked since the last sample that was stored when
\* it began.
InsertersLooked ==
    \A w \in Writers : At(w, "inserting") =>
        \A s \in samples :
            StoredMeanwhile(s, w) \/ writer[w].observedAt - s.observedAt >= MinInterval

SamplingInv ==
    /\ SamplingTypeOK /\ OneFiringAtWork /\ CloseSamplesOverlap
    /\ HasNewest /\ Counted /\ InsertersLooked

LEMMA InitSampling == Init => SamplingInv
<1> SUFFICES ASSUME Init PROVE SamplingInv
  OBVIOUS
<1> USE PoolSamplingAssumption DEF Init, Idle, At
<1>1. 0 \in 0 .. MaxTime /\ 0 \in 0 .. MaxFaults OBVIOUS
<1>2. SamplingTypeOK
  <2>1. writer \in [Writers -> Writer] BY <1>1 DEF Writer, WriterStates
  <2>2. \A w \in Writers : writer[w].observedAt <= clock OBVIOUS
  <2>3. samples \subseteq Sample /\ \A s \in samples : s.observedAt <= clock OBVIOUS
  <2> QED BY <1>1, <2>1, <2>2, <2>3 DEF SamplingTypeOK
<1>3. OneFiringAtWork BY DEF OneFiringAtWork, Writers
<1>4. CloseSamplesOverlap /\ HasNewest /\ Counted /\ InsertersLooked
  BY DEF CloseSamplesOverlap, HasNewest, Counted, InsertersLooked
<1> QED BY <1>2, <1>3, <1>4 DEF SamplingInv

\* A writer that the throttle lets pass is an interval after every sample.
LEMMA NewestIsLatest ==
    ASSUME SamplingInv, NEW o \in 0 .. MaxTime, ~Throttled(o)
    PROVE  \A s \in samples : o - s.observedAt >= MinInterval
<1> SUFFICES ASSUME NEW s \in samples PROVE o - s.observedAt >= MinInterval
  OBVIOUS
<1>1. PICK n \in samples : \A t \in samples : t.observedAt <= n.observedAt
  BY DEF SamplingInv, HasNewest
<1>2. /\ NewestSample \in samples
      /\ \A t \in samples : t.observedAt <= NewestSample.observedAt
  BY <1>1 DEF NewestSample
<1>3. o - NewestSample.observedAt >= MinInterval
  <2>1. samples # {} OBVIOUS
  <2>2. ~(o - NewestSample.observedAt < MinInterval)
    BY <2>1 DEF Throttled, Elapsed
  <2>3. NewestSample.observedAt \in Int
    BY <1>2 DEF SamplingInv, SamplingTypeOK, Sample
  <2> QED BY <2>2, <2>3, PoolSamplingAssumption
<1>4. s.observedAt <= NewestSample.observedAt /\ s.observedAt \in Int
      /\ NewestSample.observedAt \in Int
  BY <1>2 DEF SamplingInv, SamplingTypeOK, Sample
<1> QED BY <1>3, <1>4, PoolSamplingAssumption

LEMMA FireKeeps == ASSUME SamplingInv, NEW w \in Writers, Fire(w) PROVE SamplingInv'
<1> USE PoolSamplingAssumption
         DEF SamplingInv, Fire, Becomes, Starting, At
<1>1. SamplingTypeOK'
  BY DEF SamplingTypeOK, Writer, WriterStates
<1>2. OneFiringAtWork'
  BY DEF OneFiringAtWork, MayFire, SamplingTypeOK, Writer, Writers
<1>3. CloseSamplesOverlap' BY DEF CloseSamplesOverlap, Elapsed, Together
<1>4. HasNewest' BY DEF HasNewest
<1>5. Counted' BY DEF Counted, SamplingTypeOK, Sample, Writer
<1>6. InsertersLooked'
  BY DEF InsertersLooked, SamplingTypeOK, Writer, StoredMeanwhile
<1> QED BY <1>1, <1>2, <1>3, <1>4, <1>5, <1>6

LEMMA VisitKeeps == ASSUME SamplingInv, NEW w \in Writers, Visit(w) PROVE SamplingInv'
<1> USE PoolSamplingAssumption
         DEF SamplingInv, Visit, Becomes, Starting, At
<1>1. SamplingTypeOK'
  BY DEF SamplingTypeOK, Writer, WriterStates
<1>2. OneFiringAtWork'
  BY DEF OneFiringAtWork, SamplingTypeOK, Writer, Writers
<1>3. CloseSamplesOverlap' BY DEF CloseSamplesOverlap, Elapsed, Together
<1>4. HasNewest' BY DEF HasNewest
<1>5. Counted' BY DEF Counted, SamplingTypeOK, Sample, Writer
<1>6. InsertersLooked'
  BY DEF InsertersLooked, SamplingTypeOK, Writer, StoredMeanwhile
<1> QED BY <1>1, <1>2, <1>3, <1>4, <1>5, <1>6

LEMMA SnapshotKeeps == ASSUME SamplingInv, NEW w \in Writers, Snapshot(w) PROVE SamplingInv'
<1> USE PoolSamplingAssumption
         DEF SamplingInv, Snapshot, Becomes, At, Observed
<1>1. SamplingTypeOK'
  BY DEF SamplingTypeOK, Writer, WriterStates
<1>2. OneFiringAtWork'
  BY DEF OneFiringAtWork, SamplingTypeOK, Writer, Writers
<1>3. CloseSamplesOverlap' BY DEF CloseSamplesOverlap, Elapsed, Together
<1>4. HasNewest' BY DEF HasNewest
<1>5. Counted' BY DEF Counted, SamplingTypeOK, Sample, Writer
<1>6. InsertersLooked'
  BY DEF InsertersLooked, SamplingTypeOK, Writer, StoredMeanwhile
<1> QED BY <1>1, <1>2, <1>3, <1>4, <1>5, <1>6

\* A writer that ends, whatever it was doing: the flag comes down with the firing.
LEMMA EndKeeps ==
    ASSUME SamplingInv, NEW w \in Writers, ~At(w, "free"), Ends(w),
           UNCHANGED <<clock, samples, stored>>, faults' \in 0 .. MaxFaults
    PROVE  SamplingInv'
<1> USE PoolSamplingAssumption
         DEF SamplingInv, Ends, Becomes, Idle, At, RunningAfter
<1>1. SamplingTypeOK'
  <2>1. running' \in BOOLEAN BY DEF SamplingTypeOK
  <2>2. writer' \in [Writers -> Writer]
    BY DEF SamplingTypeOK, Writer, WriterStates
  <2>3. \A v \in Writers : writer'[v].observedAt <= clock
    BY DEF SamplingTypeOK, Writer
  <2> QED BY <2>1, <2>2, <2>3 DEF SamplingTypeOK
<1>2. OneFiringAtWork'
  <2>1. CASE w \in Firings
    BY <2>1 DEF OneFiringAtWork, SamplingTypeOK, Writer, Writers
  <2>2. CASE w \notin Firings
    BY <2>2 DEF OneFiringAtWork, SamplingTypeOK, Writer, Writers
  <2> QED BY <2>1, <2>2
<1>3. CloseSamplesOverlap' BY DEF CloseSamplesOverlap, Elapsed, Together
<1>4. HasNewest' BY DEF HasNewest
<1>5. Counted' BY DEF Counted, SamplingTypeOK, Sample, Writer
<1>6. InsertersLooked'
  BY DEF InsertersLooked, SamplingTypeOK, Writer, StoredMeanwhile
<1> QED BY <1>1, <1>2, <1>3, <1>4, <1>5, <1>6

LEMMA LookKeeps == ASSUME SamplingInv, NEW w \in Writers, LookAtNewest(w) PROVE SamplingInv'
<1>1. CASE Throttled(writer[w].observedAt)
  <2>1. faults' \in 0 .. MaxFaults
    BY DEF LookAtNewest, SamplingInv, SamplingTypeOK
  <2> QED BY <1>1, <2>1, EndKeeps DEF LookAtNewest, At
<1>2. CASE ~Throttled(writer[w].observedAt)
  <2> DEFINE o == writer[w].observedAt
  <2>1. o \in 0 .. MaxTime BY DEF SamplingInv, SamplingTypeOK, Writer
  <2>2. \A s \in samples : o - s.observedAt >= MinInterval
    BY <1>2, <2>1, NewestIsLatest
  <2>3. /\ At(w, "looking")
        /\ writer' = [writer EXCEPT ![w] = [writer[w] EXCEPT !.at = "inserting"]]
        /\ UNCHANGED <<running, clock, samples, faults, stored>>
    BY <1>2 DEF LookAtNewest, Becomes
  <2> USE PoolSamplingAssumption DEF SamplingInv, At
  <2>4. SamplingTypeOK'
    <3>1. [writer[w] EXCEPT !.at = "inserting"] \in Writer
      BY DEF SamplingTypeOK, Writer, WriterStates
    <3>2. writer' \in [Writers -> Writer] /\ \A v \in Writers : writer'[v].observedAt = writer[v].observedAt
      BY <2>3, <3>1 DEF SamplingTypeOK, Writer
    <3> QED BY <2>3, <3>2 DEF SamplingTypeOK
  <2>5. OneFiringAtWork'
    <3>1. \A v \in Writers : writer'[v].at = "free" <=> writer[v].at = "free"
      BY <2>3 DEF SamplingTypeOK, Writer
    <3> QED BY <2>3, <3>1 DEF OneFiringAtWork, Writers
  <2>6. CloseSamplesOverlap' BY <2>3 DEF CloseSamplesOverlap, Elapsed, Together
  <2>7. HasNewest' BY <2>3 DEF HasNewest
  <2>8. InsertersLooked'
    BY <2>2, <2>3 DEF InsertersLooked, SamplingTypeOK, Writer, StoredMeanwhile
  <2>9. Counted'
    <3>1. \A v \in Writers : writer'[v].began = writer[v].began
      BY <2>3 DEF SamplingTypeOK, Writer
    <3> QED BY <2>3, <3>1 DEF Counted
  <2> QED BY <2>4, <2>5, <2>6, <2>7, <2>8, <2>9
<1> QED BY <1>1, <1>2

LEMMA InsertKeeps == ASSUME SamplingInv, NEW w \in Writers, Insert(w) PROVE SamplingInv'
<1> DEFINE o == writer[w].observedAt
           n == [observedAt |-> o, by |-> w, began |-> writer[w].began, place |-> stored + 1]
<1> USE PoolSamplingAssumption DEF SamplingInv, At
<1>1. /\ At(w, "inserting")
      /\ samples' = samples \cup {n}
      /\ writer' = [writer EXCEPT ![w] = [at |-> "free", observedAt |-> 0, began |-> 0]]
      /\ running' = IF w \in Firings THEN FALSE ELSE running
      /\ stored' = stored + 1 /\ UNCHANGED <<clock, faults>>
  BY DEF Insert, Ends, Becomes, RunningAfter, Idle
<1>2. /\ o \in 0 .. MaxTime /\ o <= clock /\ stored \in Nat /\ n \in Sample
      /\ n.observedAt = o /\ n.by = w /\ n.began = writer[w].began /\ n.place = stored + 1
  BY DEF SamplingTypeOK, Writer, Sample
<1>3. \A s \in samples : s \in Sample /\ s.observedAt \in Nat /\ s.observedAt <= clock
  BY DEF SamplingTypeOK, Sample
<1>4. \A s \in samples : Together(s, n) \/ o - s.observedAt >= MinInterval
  <2>1. \A s \in samples : s.began \in Nat /\ s.began <= stored
    BY <1>3 DEF Counted, Sample
  <2> QED BY <1>1, <1>2, <2>1 DEF InsertersLooked, StoredMeanwhile, Together
<1>5. SamplingTypeOK'
  <2>1. running' \in BOOLEAN BY <1>1 DEF SamplingTypeOK
  <2>2. writer' \in [Writers -> Writer]
    BY <1>1 DEF SamplingTypeOK, Writer, WriterStates
  <2>3. \A v \in Writers : writer'[v].observedAt <= clock
    BY <1>1 DEF SamplingTypeOK, Writer
  <2>4. samples' \subseteq Sample /\ \A s \in samples' : s.observedAt <= clock
    BY <1>1, <1>2, <1>3
  <2>5. stored' \in Nat /\ faults' \in 0 .. MaxFaults /\ clock' \in 0 .. MaxTime
    BY <1>1, <1>2 DEF SamplingTypeOK
  <2>6. clock' = clock BY <1>1
  <2> QED BY <2>1, <2>2, <2>3, <2>4, <2>5, <2>6 DEF SamplingTypeOK
<1>6. OneFiringAtWork'
  <2>1. CASE w \in Firings
    BY <1>1, <2>1 DEF OneFiringAtWork, SamplingTypeOK, Writer, Writers
  <2>2. CASE w \notin Firings
    BY <1>1, <2>2 DEF OneFiringAtWork, SamplingTypeOK, Writer, Writers
  <2> QED BY <2>1, <2>2
<1>7. CloseSamplesOverlap'
  <2> SUFFICES ASSUME NEW s \in samples', NEW t \in samples', s # t,
                      Elapsed(s.observedAt, t) \in 0 .. MinInterval - 1
               PROVE  Together(s, t)
    BY DEF CloseSamplesOverlap, Elapsed, Together
  <2>1. CASE s \in samples /\ t \in samples
    BY <2>1 DEF CloseSamplesOverlap
  <2>2. CASE s = n /\ t \in samples
    BY <1>2, <1>3, <1>4, <2>2 DEF Elapsed, Together
  <2>3. CASE t = n /\ s \in samples
    BY <1>2, <1>3, <1>4, <2>3 DEF Elapsed, Together
  <2> QED BY <1>1, <2>1, <2>2, <2>3
<1>8. HasNewest'
  <2>1. CASE \A s \in samples : s.observedAt <= o
    BY <1>1, <1>2, <2>1 DEF HasNewest
  <2>2. CASE \E s \in samples : ~(s.observedAt <= o)
    <3>1. PICK m \in samples : \A t \in samples : t.observedAt <= m.observedAt
      BY <2>2 DEF HasNewest
    <3>2. o <= m.observedAt
      BY <1>2, <1>3, <2>2, <3>1
    <3> QED BY <1>1, <1>2, <3>1, <3>2 DEF HasNewest
  <2> QED BY <2>1, <2>2
<1>9. InsertersLooked'
  <2> SUFFICES ASSUME NEW v \in Writers, writer'[v].at = "inserting", NEW s \in samples'
               PROVE  StoredMeanwhile(s, v)' \/ writer'[v].observedAt - s.observedAt >= MinInterval
    BY DEF InsertersLooked, StoredMeanwhile
  <2>1. v # w /\ writer'[v] = writer[v]
    BY <1>1 DEF SamplingTypeOK, Writer
  <2>2. CASE s \in samples
    BY <2>1, <2>2 DEF InsertersLooked, StoredMeanwhile
  <2>3. CASE s = n
    <3>1. ~(v \in Firings /\ w \in Firings)
      BY <1>1, <2>1 DEF OneFiringAtWork
    <3>2. writer[v].began \in Nat /\ writer[v].began < stored + 1
      BY <1>2 DEF Counted, SamplingTypeOK, Writer
    <3> QED BY <1>2, <2>1, <2>3, <3>1, <3>2 DEF StoredMeanwhile
  <2> QED BY <1>1, <2>2, <2>3
<1>10. Counted'
  BY <1>1, <1>2, <1>3 DEF Counted, SamplingTypeOK, Sample, Writer
<1> QED BY <1>5, <1>6, <1>7, <1>8, <1>9, <1>10

LEMMA RestartKeeps == ASSUME SamplingInv, Restart PROVE SamplingInv'
<1> USE PoolSamplingAssumption DEF SamplingInv, Restart, Faulty, Idle, At
<1>1. SamplingTypeOK'
  <2>1. writer' \in [Writers -> Writer]
    BY DEF Writer, WriterStates
  <2>2. \A v \in Writers : writer'[v].observedAt <= clock
    BY DEF SamplingTypeOK
  <2>3. faults' \in 0 .. MaxFaults BY DEF SamplingTypeOK
  <2> QED BY <2>1, <2>2, <2>3 DEF SamplingTypeOK
<1>2. OneFiringAtWork'
  BY DEF OneFiringAtWork, Writers
<1>3. CloseSamplesOverlap' BY DEF CloseSamplesOverlap, Elapsed, Together
<1>4. HasNewest' BY DEF HasNewest
<1>5. Counted' BY DEF Counted, SamplingTypeOK
<1>6. InsertersLooked' BY DEF InsertersLooked
<1> QED BY <1>1, <1>2, <1>3, <1>4, <1>5, <1>6

LEMMA TickKeeps == ASSUME SamplingInv, Tick PROVE SamplingInv'
<1> USE PoolSamplingAssumption DEF SamplingInv, Tick, At
<1>1. SamplingTypeOK'
  <2>1. clock' \in 0 .. MaxTime /\ clock <= clock' BY DEF SamplingTypeOK
  <2>2. \A s \in samples : s.observedAt \in Int /\ s.observedAt <= clock
    BY DEF SamplingTypeOK, Sample
  <2>3. \A w \in Writers : writer[w].observedAt \in Int /\ writer[w].observedAt <= clock
    BY DEF SamplingTypeOK, Writer
  <2> QED BY <2>1, <2>2, <2>3 DEF SamplingTypeOK
<1>2. OneFiringAtWork' BY DEF OneFiringAtWork
<1>3. CloseSamplesOverlap' BY DEF CloseSamplesOverlap, Elapsed, Together
<1>4. HasNewest' BY DEF HasNewest
<1>5. Counted' BY DEF Counted
<1>6. InsertersLooked' BY DEF InsertersLooked, StoredMeanwhile
<1> QED BY <1>1, <1>2, <1>3, <1>4, <1>5, <1>6

LEMMA NextSampling == SamplingInv /\ [Next]_vars => SamplingInv'
<1> SUFFICES ASSUME SamplingInv, [Next]_vars PROVE SamplingInv'
  OBVIOUS
<1>1. ASSUME NEW w \in Writers, Fire(w) PROVE SamplingInv' BY <1>1, FireKeeps
<1>2. ASSUME NEW w \in Writers, Visit(w) PROVE SamplingInv' BY <1>2, VisitKeeps
<1>3. ASSUME NEW w \in Writers, Snapshot(w) PROVE SamplingInv' BY <1>3, SnapshotKeeps
<1>4. ASSUME NEW w \in Writers, LookAtNewest(w) PROVE SamplingInv' BY <1>4, LookKeeps
<1>5. ASSUME NEW w \in Writers, Insert(w) PROVE SamplingInv' BY <1>5, InsertKeeps
<1>6. ASSUME NEW w \in Writers, Fail(w) PROVE SamplingInv'
  <2>1. faults' \in 0 .. MaxFaults
    BY <1>6, PoolSamplingAssumption DEF Fail, Faulty, SamplingInv, SamplingTypeOK
  <2> QED BY <1>6, <2>1, EndKeeps DEF Fail
<1>7. CASE Restart BY <1>7, RestartKeeps
<1>8. CASE Tick BY <1>8, TickKeeps
<1>9. CASE UNCHANGED vars
  BY <1>9 DEF vars, SamplingInv, SamplingTypeOK, OneFiringAtWork, CloseSamplesOverlap,
              HasNewest, Counted, InsertersLooked, StoredMeanwhile, Elapsed, Together, At
<1> QED BY <1>1, <1>2, <1>3, <1>4, <1>5, <1>6, <1>7, <1>8, <1>9 DEF Next

LEMMA SamplingInvariant == Spec => []SamplingInv
BY InitSampling, NextSampling, PTL DEF Spec

\* Samples and writers keep their shape.
THEOREM SamplingTypeCorrect == Spec => []SamplingTypeOK
BY SamplingInvariant, PTL DEF SamplingInv

\* One firing of the job is at work, and the flag says so, through failures and
\* restarts.
THEOREM OneFiringHolds == Spec => []OneFiringAtWork
BY SamplingInvariant, PTL DEF SamplingInv

\* Only samples of work that overlapped come closer than the interval.
THEOREM CloseSamplesHolds == Spec => []CloseSamplesOverlap
BY SamplingInvariant, PTL DEF SamplingInv

-----------------------------------------------------------------------------
(* The answers.                                                            *)

SamplesFinite == IsFiniteSet(samples)

\* Samples come one by one, so there are finitely many.
LEMMA FinitelyManySamples == Spec => []SamplesFinite
<1>1. Init => SamplesFinite
  BY FS_EmptySet DEF Init, SamplesFinite
<1>2. ASSUME SamplesFinite, [Next]_vars PROVE SamplesFinite'
  <2>1. CASE UNCHANGED samples
    BY <1>2, <2>1 DEF SamplesFinite
  <2>2. ASSUME NEW w \in Writers, Insert(w) PROVE SamplesFinite'
    BY <1>2, <2>2, FS_AddElement DEF SamplesFinite, Insert
  <2> QED
    BY <1>2, <2>1, <2>2
       DEF Next, vars, Fire, Visit, Snapshot, LookAtNewest, Fail, Restart, Tick, Faulty
<1> QED BY <1>1, <1>2, PTL DEF Spec

\* What an answer says of the rows it is taken from: it holds the first rows of
\* an order, the last of them first.
LEMMA AnswerIsNewest ==
    ASSUME NEW rows, IsFiniteSet(rows), \A s \in rows : s.observedAt \in Int,
           NEW sorted \in NewestFirst(rows), NEW most \in Nat,
           NEW points, points = Answer(sorted, most)
    PROVE  /\ \A i, j \in DOMAIN points : i < j =>
                /\ points[i].observedAt <= points[j].observedAt
                /\ points[i] # points[j]
           /\ \A s \in rows \ ToSet(points) :
                /\ Len(points) = most
                /\ \A i \in DOMAIN points : points[i].observedAt >= s.observedAt
<1> DEFINE count == Cardinality(rows)
           length == IF count < most THEN count ELSE most
           Place(i) == length + 1 - i
<1>a. count = Cardinality(rows)
  OBVIOUS
<1> HIDE DEF count
<1>b. length = IF count < most THEN count ELSE most
  OBVIOUS
<1> HIDE DEF length
<1>1. /\ count \in Nat /\ sorted \in [1 .. count -> rows]
      /\ DOMAIN points = 1 .. length /\ Len(points) = length
      /\ \A i \in 1 .. length : points[i] = sorted[Place(i)]
  <2>1. count \in Nat
    BY <1>a, FS_CardinalityType
  <2>2. sorted \in [1 .. count -> rows]
    BY <1>a DEF NewestFirst, Bijection, Injection
  <2>3. sorted \in Seq(rows) /\ Len(sorted) = count
    BY <2>1, <2>2
  <2>4. points = Reverse(SubSeq(sorted, 1, length))
    BY <1>b, <2>3 DEF Answer
  <2>5. length \in Nat /\ length <= count
    BY <1>b, <2>1
  <2> DEFINE first == SubSeq(sorted, 1, length)
  <2>6. /\ Len(first) = length
        /\ \A i \in 1 .. length : first[i] = sorted[i]
    BY <2>3, <2>5
  <2> HIDE DEF first
  <2>7. points = [i \in 1 .. length |-> first[length - i + 1]]
    BY <2>4, <2>6 DEF Reverse, first
  <2>8. DOMAIN points = 1 .. length /\ Len(points) = length
    BY <2>5, <2>7
  <2>9. ASSUME NEW i \in 1 .. length PROVE points[i] = sorted[length + 1 - i]
    <3>1. length - i + 1 = length + 1 - i /\ length + 1 - i \in 1 .. length
      BY <2>5
    <3> QED BY <2>6, <2>7, <3>1
  <2> QED BY <2>1, <2>2, <2>8, <2>9
<1>2. /\ \A a, b \in 1 .. count : a < b => sorted[a].observedAt >= sorted[b].observedAt
      /\ \A a, b \in 1 .. count : sorted[a] = sorted[b] => a = b
      /\ \A s \in rows : \E a \in 1 .. count : sorted[a] = s
  BY <1>a, <1>b, <1>1 DEF NewestFirst, Bijection, Injection, Surjection, IsInjective
<1>3. length \in Nat /\ length <= count /\ (length < count => length = most)
  BY <1>a, <1>b, <1>1
<1>4. \A i \in 1 .. length : Place(i) \in 1 .. length /\ Place(i) \in 1 .. count
  BY <1>1, <1>3
<1>5. ASSUME NEW i \in 1 .. length, NEW j \in 1 .. length, i < j
      PROVE  points[i].observedAt <= points[j].observedAt /\ points[i] # points[j]
  <2>1. Place(j) < Place(i)
    BY <1>3, <1>5
  <2> HIDE DEF Place
  <2>2. sorted[Place(j)].observedAt >= sorted[Place(i)].observedAt
    BY <1>2, <1>4, <2>1
  <2>3. sorted[Place(i)].observedAt \in Int /\ sorted[Place(j)].observedAt \in Int
    BY <1>1, <1>4
  <2>4. sorted[Place(i)] # sorted[Place(j)]
    <3>1. Place(i) # Place(j)
      BY <1>3, <1>5 DEF Place
    <3> QED BY <1>2, <1>4, <3>1
  <2> QED BY <1>1, <2>2, <2>3, <2>4
<1>6. ASSUME NEW s \in rows \ ToSet(points)
      PROVE  /\ Len(points) = most
             /\ \A i \in DOMAIN points : points[i].observedAt >= s.observedAt
  <2>1. PICK a \in 1 .. count : sorted[a] = s
    BY <1>2
  <2>2. ~(a <= length)
    <3>1. SUFFICES ASSUME a <= length PROVE FALSE
      OBVIOUS
    <3>2. Place(a) \in 1 .. length /\ Place(Place(a)) = a
      BY <1>3, <3>1
    <3> HIDE DEF Place
    <3>3. points[Place(a)] = s
      BY <1>1, <2>1, <3>2
    <3>4. s \in ToSet(points)
      BY <1>1, <3>2, <3>3 DEF ToSet
    <3> QED BY <1>6, <3>4
  <2>3. length = most
    BY <1>1, <1>3, <2>2
  <2>4. ASSUME NEW i \in 1 .. length PROVE points[i].observedAt >= s.observedAt
    <3>1. Place(i) < a
      BY <1>3, <2>2
    <3> HIDE DEF Place
    <3> QED BY <1>1, <1>2, <1>4, <2>1, <3>1
  <2> QED BY <1>1, <2>3, <2>4
<1> QED BY <1>1, <1>5, <1>6

\* A query is answered by the newest samples of its range, in the order of their
\* times: none twice, and one is missing only when the answer is full of points
\* no older.
THEOREM HistoryIsNewestHolds == Spec => []HistoryIsNewest
<1>1. ASSUME SamplesFinite, SamplingTypeOK,
             NEW fromTs \in Seconds, NEW toTs \in Seconds, NEW limit \in Limits,
             NEW points \in Stored(fromTs, toTs, limit)
      PROVE  /\ \A i, j \in DOMAIN points : i < j =>
                  /\ points[i].observedAt <= points[j].observedAt
                  /\ points[i] # points[j]
             /\ \A s \in samples \ ToSet(points) : InRange(s, fromTs, toTs) =>
                  /\ Len(points) = CappedLimit(limit)
                  /\ \A i \in DOMAIN points : points[i].observedAt >= s.observedAt
  <2> DEFINE rows == {s \in samples : InRange(s, fromTs, toTs)}
  <2>1. IsFiniteSet(rows)
    BY <1>1, FS_Subset DEF SamplesFinite
  <2>2. \A s \in rows : s.observedAt \in Int
    BY <1>1 DEF SamplingTypeOK, Sample
  <2>3. CappedLimit(limit) \in Nat
    BY PoolHistoryAssumption DEF CappedLimit, Limits
  <2>4. PICK sorted \in NewestFirst(rows) : points = Answer(sorted, CappedLimit(limit))
    BY <1>1 DEF Stored
  <2>5. \A s \in samples \ ToSet(points) :
          InRange(s, fromTs, toTs) => s \in rows \ ToSet(points)
    OBVIOUS
  <2> HIDE DEF rows
  <2>6. /\ \A i, j \in DOMAIN points : i < j =>
             /\ points[i].observedAt <= points[j].observedAt
             /\ points[i] # points[j]
        /\ \A s \in rows \ ToSet(points) :
             /\ Len(points) = CappedLimit(limit)
             /\ \A i \in DOMAIN points : points[i].observedAt >= s.observedAt
    BY <2>1, <2>2, <2>3, <2>4, AnswerIsNewest
  <2> QED BY <2>5, <2>6
<1>2. SamplesFinite /\ SamplingTypeOK => HistoryIsNewest
  BY <1>1 DEF HistoryIsNewest
<1> QED BY <1>2, FinitelyManySamples, SamplingTypeCorrect, PTL

\* Adding a row no newer than the others at the end of an order makes an order.
LEMMA OrderGrows ==
    ASSUME NEW rows, IsFiniteSet(rows), NEW s, s \notin rows,
           \A t \in rows : t.observedAt >= s.observedAt,
           NEW sorted \in NewestFirst(rows)
    PROVE  NewestFirst(rows \cup {s}) # {}
<1> DEFINE count == Cardinality(rows)
           more == [i \in 1 .. count + 1 |-> IF i = count + 1 THEN s ELSE sorted[i]]
           all == rows \cup {s}
<1>1. count \in Nat /\ Cardinality(all) = count + 1
  BY FS_CardinalityType, FS_AddElement
<1>2. /\ sorted \in [1 .. count -> rows]
      /\ \A a, b \in 1 .. count : a < b => sorted[a].observedAt >= sorted[b].observedAt
      /\ \A a, b \in 1 .. count : sorted[a] = sorted[b] => a = b
      /\ \A t \in rows : \E a \in 1 .. count : sorted[a] = t
  BY <1>1 DEF NewestFirst, Bijection, Injection, Surjection, IsInjective
<1> HIDE DEF count
<1>3. /\ \A a \in 1 .. count + 1 : a = count + 1 \/ a \in 1 .. count
      /\ \A a \in 1 .. count : a \in 1 .. count + 1 /\ more[a] = sorted[a] /\ more[a] \in rows
      /\ more[count + 1] = s /\ count + 1 \in 1 .. count + 1
  BY <1>1, <1>2
<1>4. more \in [1 .. count + 1 -> all]
  <2>1. \A a \in 1 .. count + 1 : (IF a = count + 1 THEN s ELSE sorted[a]) \in all
    BY <1>2, <1>3
  <2> QED BY <2>1
<1> HIDE DEF more
<1>5. \A a, b \in 1 .. count + 1 : more[a] = more[b] => a = b
  BY <1>2, <1>3
<1>6. \A t \in all : \E a \in 1 .. count + 1 : more[a] = t
  BY <1>2, <1>3
<1>7. ASSUME NEW a \in 1 .. count + 1, NEW b \in 1 .. count + 1, a < b
      PROVE  more[a].observedAt >= more[b].observedAt
  <2>1. a \in 1 .. count
    BY <1>1, <1>7
  <2>2. CASE b = count + 1
    BY <1>3, <2>1, <2>2
  <2>3. CASE b \in 1 .. count
    BY <1>2, <1>3, <1>7, <2>1, <2>3
  <2> QED BY <1>3, <2>2, <2>3
<1>8. more \in Bijection(1 .. count + 1, all)
  BY <1>4, <1>5, <1>6 DEF Bijection, Injection, Surjection, IsInjective
<1>9. DOMAIN more = 1 .. count + 1
  BY <1>4
<1>10. more \in NewestFirst(all)
  BY <1>1, <1>7, <1>8, <1>9 DEF NewestFirst
<1> QED BY <1>10

\* A row no newer than the others; and what every set of rows has.
Oldest(rows, s) == s \in rows /\ \A t \in rows : t.observedAt >= s.observedAt
Ordered(rows) == NewestFirst(rows) # {} /\ (rows # {} => \E s \in rows : Oldest(rows, s))

\* Any finite set of rows has an order: otherwise there would be a smallest one
\* with none, along strict inclusion, which is well-founded on the subsets of a
\* finite set; and the order of the others can be continued by its oldest row.
LEMMA OrderExists ==
    ASSUME NEW S, IsFiniteSet(S), \A s \in S : s.observedAt \in Int
    PROVE  \A rows \in SUBSET S : Ordered(rows)
<1> DEFINE Bad == {rows \in SUBSET S : ~Ordered(rows)}
<1>1. IsWellFoundedOn(StrictSubsetOrdering(S), SUBSET S)
  BY FS_FiniteSubsetsOfFinite, FS_StrictSubsetOrderingWellFounded, Zenon
<1>2. SUFFICES ASSUME Bad # {} PROVE FALSE
  OBVIOUS
<1>3. PICK rows \in Bad : \A less \in Bad : <<less, rows>> \notin StrictSubsetOrdering(S)
  <2> HIDE DEF Bad
  <2>1. Bad \subseteq SUBSET S BY DEF Bad
  <2>2. \A R, V, B : IsWellFoundedOn(R, V) /\ B \subseteq V /\ B # {}
              => \E x \in B : \A y \in B : ~(<<y, x>> \in R)
    <3> TAKE R, V, B
    <3> HAVE IsWellFoundedOn(R, V) /\ B \subseteq V /\ B # {}
    <3> QED BY WFMin, SMT
  <2>3. \E x \in Bad : \A y \in Bad : ~(<<y, x>> \in StrictSubsetOrdering(S))
    BY <1>1, <1>2, <2>1, <2>2, SMT
  <2> QED BY <2>3
<1>4. rows \in SUBSET S /\ ~Ordered(rows)
  OBVIOUS
<1>5. \A less \in SUBSET rows : less # rows => Ordered(less)
  BY <1>3, Zenon DEF StrictSubsetOrdering
<1>6. IsFiniteSet(rows) /\ \A s \in rows : s.observedAt \in Int
  BY <1>4, FS_Subset
<1> HIDE DEF Bad
<1>7. rows # {}
  <2> SUFFICES NewestFirst({}) # {}
    BY <1>4 DEF Ordered
  <2> DEFINE none == [i \in {} |-> 0]
  <2>1. Cardinality({}) = 0 /\ 1 .. 0 = {}
    BY FS_EmptySet
  <2>2. none \in NewestFirst({})
    BY <2>1 DEF NewestFirst, Bijection, Injection, Surjection, IsInjective
  <2> QED BY <2>2
<1>8. \E s \in rows : Oldest(rows, s)
  <2>1. PICK x \in rows : TRUE
    BY <1>7
  <2> DEFINE less == rows \ {x}
  <2>2. less \in SUBSET rows /\ less # rows
    BY <2>1
  <2>3. CASE less = {}
    <3>1. rows = {x} BY <2>1, <2>3
    <3> QED BY <1>6, <3>1 DEF Oldest
  <2>4. CASE less # {}
    <3>1. PICK s \in less : Oldest(less, s)
      BY <1>5, <2>2, <2>4 DEF Ordered
    <3>2. /\ \A t \in less : t.observedAt >= s.observedAt
          /\ x.observedAt \in Int /\ s.observedAt \in Int
          /\ \A t \in less : t.observedAt \in Int
      BY <1>6, <2>1, <3>1 DEF Oldest
    <3>3. CASE x.observedAt >= s.observedAt
      BY <2>1, <3>1, <3>2, <3>3 DEF Oldest
    <3>4. CASE x.observedAt < s.observedAt
      BY <2>1, <3>2, <3>4 DEF Oldest
    <3> QED BY <3>2, <3>3, <3>4
  <2> QED BY <2>3, <2>4
<1>9. PICK s \in rows : \A t \in rows : t.observedAt >= s.observedAt
  BY <1>8 DEF Oldest
<1> DEFINE less == rows \ {s}
<1>10. /\ less \in SUBSET rows /\ less # rows /\ s \notin less /\ less \cup {s} = rows
       /\ IsFiniteSet(less)
  BY <1>6, <1>9, FS_Subset
<1>11. PICK sorted \in NewestFirst(less) : TRUE
  BY <1>5, <1>10 DEF Ordered
<1>12. NewestFirst(rows) # {}
  BY <1>9, <1>10, <1>11, OrderGrows
<1> QED BY <1>4, <1>8, <1>12 DEF Ordered

\* Every query has an answer.
QueriesAnswered ==
    \A fromTs, toTs \in Seconds, limit \in Limits : Stored(fromTs, toTs, limit) # {}

\* sort always has an order to answer in, so HistoryIsNewestHolds does not speak
\* of an empty set of answers.
THEOREM QueriesAnsweredHolds == Spec => []QueriesAnswered
<1>1. ASSUME SamplesFinite, SamplingTypeOK,
             NEW fromTs \in Seconds, NEW toTs \in Seconds, NEW limit \in Limits
      PROVE  Stored(fromTs, toTs, limit) # {}
  <2> DEFINE rows == {s \in samples : InRange(s, fromTs, toTs)}
  <2>1. \A s \in samples : s.observedAt \in Int
    BY <1>1 DEF SamplingTypeOK, Sample
  <2>2. Ordered(rows)
    BY <1>1, <2>1, OrderExists DEF SamplesFinite
  <2>3. PICK sorted \in NewestFirst(rows) : TRUE
    BY <2>2 DEF Ordered
  <2> QED BY <2>3 DEF Stored
<1>2. SamplesFinite /\ SamplingTypeOK => QueriesAnswered
  BY <1>1 DEF QueriesAnswered
<1> QED BY <1>2, FinitelyManySamples, SamplingTypeCorrect, PTL
=============================================================================
