----------------------------- MODULE PoolSampling -----------------------------
(***************************************************************************)
(* How the backend samples the pool into a history: a cron job guarded by  *)
(* a flag, and requests that sample on their way, all through one throttle *)
(* that looks at the newest sample and inserts afterwards.  Pool liquidity *)
(* (job and pool-info requests) and market price (job and the polls of     *)
(* open streams) are two histories kept by the same code, line for line;   *)
(* the module models one of them, with the names of the first.             *)
(*                                                                         *)
(* What a sample says is left out: each value is true when it is read.     *)
(***************************************************************************)
EXTENDS Integers

CONSTANTS
    Firings,      \* bound: firings of the job that could be at work at once
    Visits,       \* bound: requests at work at once
    MinInterval,  \* POOL_TVL_MIN_INTERVAL_SECONDS, in milliseconds
    MaxTime,      \* bound: the last millisecond of a run
    MaxFaults     \* bound: failed reads and inserts, and restarts, of a run

ASSUME PoolSamplingAssumption ==
    /\ Firings \cap Visits = {}
    /\ MinInterval \in Nat \ {0}
    /\ MaxTime \in Nat /\ MaxFaults \in Nat

Writers == Firings \cup Visits

VARIABLES
    clock,   \* Date.now()
    samples, \* the stored samples
    running, \* the job's flag
    writer,  \* what each writer is doing
    faults,  \* faults so far
    stored   \* history: the inserts so far

vars == <<clock, samples, running, writer, faults, stored>>

\* observedAt; and, history: who wrote it, the inserts there had been when it began
\* its work, and the number of its own.
Sample == [observedAt: 0 .. MaxTime, by: Writers, began: Nat, place: Nat]

WriterStates == {"free", "snapshotting", "looking", "inserting"}
Writer == [at: WriterStates, observedAt: 0 .. MaxTime, began: Nat]

Idle == [at |-> "free", observedAt |-> 0, began |-> 0]
Starting == [at |-> "snapshotting", observedAt |-> 0, began |-> stored]

Init ==
    /\ clock = 0
    /\ samples = {}
    /\ running = FALSE
    /\ writer = [w \in Writers |-> Idle]
    /\ faults = 0
    /\ stored = 0

At(w, state) == writer[w].at = state
Becomes(w, q) == writer' = [writer EXCEPT ![w] = q]

ObservedInMicroseconds == clock * 1000
Observed == clock
Elapsed(observedAt, s) == observedAt - s.observedAt

\* findOne, newest first.
OldestSample == CHOOSE s \in samples : \A t \in samples : t.observedAt >= s.observedAt
NewestSample == CHOOSE s \in samples : \A t \in samples : t.observedAt <= s.observedAt

ThrottledByOldest(observedAt) ==
    samples # {} /\ Elapsed(observedAt, OldestSample) < MinInterval
Throttled(observedAt) ==
    samples # {} /\ Elapsed(observedAt, NewestSample) < MinInterval

-----------------------------------------------------------------------------
(* The job's flag. *)

MayFireAnyway == TRUE
MayFire == ~running

\* finally: the flag comes down however a firing ends.
RunningAfterKeptUp(w) == running
RunningAfter(w) == IF w \in Firings THEN FALSE ELSE running

Ends(w) ==
    /\ Becomes(w, Idle)
    /\ running' = RunningAfter(w)

-----------------------------------------------------------------------------
Fire(w) ==
    /\ w \in Firings
    /\ At(w, "free")
    /\ MayFire
    /\ running' = TRUE
    /\ Becomes(w, Starting)
    /\ UNCHANGED <<clock, samples, faults, stored>>

Visit(w) ==
    /\ w \in Visits
    /\ At(w, "free")
    /\ Becomes(w, Starting)
    /\ UNCHANGED <<clock, samples, running, faults, stored>>

\* snapshotPoolTvl returns; persistPoolTvlSnapshot notes the time.
Snapshot(w) ==
    /\ At(w, "snapshotting")
    /\ Becomes(w, [at |-> "looking", observedAt |-> Observed, began |-> writer[w].began])
    /\ UNCHANGED <<clock, samples, running, faults, stored>>

LookAtNewest(w) ==
    /\ At(w, "looking")
    /\ IF Throttled(writer[w].observedAt) THEN Ends(w)
       ELSE Becomes(w, [writer[w] EXCEPT !.at = "inserting"]) /\ UNCHANGED running
    /\ UNCHANGED <<clock, samples, faults, stored>>

\* create.
Insert(w) ==
    /\ At(w, "inserting")
    /\ stored' = stored + 1
    /\ samples' = samples \cup
        {[observedAt |-> writer[w].observedAt, by |-> w,
          began |-> writer[w].began, place |-> stored']}
    /\ Ends(w)
    /\ UNCHANGED <<clock, faults>>

-----------------------------------------------------------------------------
(* Faults: the chain or the database does not answer; the process restarts. *)

Faulty == faults < MaxFaults /\ faults' = faults + 1

Fail(w) ==
    /\ ~At(w, "free")
    /\ Ends(w)
    /\ Faulty /\ UNCHANGED <<clock, samples, stored>>

Restart ==
    /\ \E w \in Writers : ~At(w, "free")
    /\ writer' = [w \in Writers |-> Idle]
    /\ running' = FALSE
    /\ Faulty /\ UNCHANGED <<clock, samples, stored>>

Tick ==
    /\ clock < MaxTime
    /\ clock' = clock + 1
    /\ UNCHANGED <<samples, running, writer, faults, stored>>

Next ==
    \/ \E w \in Writers :
        \/ Fire(w) \/ Visit(w) \/ Snapshot(w) \/ LookAtNewest(w) \/ Insert(w)
        \/ Fail(w)
    \/ Restart
    \/ Tick

Spec == Init /\ [][Next]_vars

-----------------------------------------------------------------------------
(* Properties. *)

\* Samples and writers keep their shape; nothing is observed ahead of the clock.
SamplingTypeOK ==
    /\ clock \in 0 .. MaxTime
    /\ samples \subseteq Sample
    /\ running \in BOOLEAN
    /\ writer \in [Writers -> Writer]
    /\ faults \in 0 .. MaxFaults /\ stored \in Nat
    /\ \A s \in samples : s.observedAt <= clock
    /\ \A w \in Writers : writer[w].observedAt <= clock

\* poolTvlHistoryJob.js, "job already running": one firing is at work at most,
\* and the flag is up exactly while one is: no failure silences the job.
OneFiringAtWork ==
    /\ \A v, w \in Firings : ~At(v, "free") /\ ~At(w, "free") => v = w
    /\ running = \E w \in Firings : ~At(w, "free")

\* Work overlapped: each began before the other's sample was stored.  Two firings
\* never do.
Together(s, t) ==
    /\ ~(s.by \in Firings /\ t.by \in Firings)
    /\ s.began < t.place /\ t.began < s.place

\* Samples closer than the interval were stored by work that overlapped, the job's
\* with a request's or two requests': a writer that starts once a sample is stored
\* never stores another within the interval of it.  So the job, alone or after a
\* failure or restart, keeps its spacing, and so do requests one after the other.
CloseSamplesOverlap ==
    \A s, t \in samples :
        s # t /\ Elapsed(s.observedAt, t) \in 0 .. MinInterval - 1 => Together(s, t)
=============================================================================
