# AlgoCrefi: specifications, model checks and proofs

AlgoCrefi pools ALGO on Algorand against shares, lends it against USDC or against
AURA (credit earned by paying interest), and liquidates what is overdue. This
directory holds TLA+ modules translated from its source, the TLC configurations
that check them on small instances, and TLAPS proofs for every value of their
constants. Paths below are relative to the repository; `contract.py` is
`src/algocrefi-contract/projects/algocrefi-contract/smart_contracts/algocrefi_pool/contract.py`
and `backend/` is `src/algocrefi-backend/src/`.

    tlc -workers 2 -config PoolCredit.cfg AlgoPool.tla
    tlapm AlgoPoolProofs.tla

## 1. The system

| Part | State | Operations | Talks to |
|---|---|---|---|
| Pool contract `contract.py` | `pool`, `total_shares`; per account shares, one loan, AURA; the account's ALGO and USDC | opt in, deposit, add liquidity, withdraw, two loan requests, repay, liquidate; clear-state | the ledger, atomically |
| Default-liquidation job `backend/jobs` | `running`; what it has read of the current wallet | a cron firing: find wallets, read, decide, liquidate, swap | user collection, contract, DEX |
| Loan service and controller | none kept, except price and active-loan caches | read wallet state, submit groups, sync AURA, admin calls | contract, AURA contract |
| AURA contract (compiled artifact) | earned, penalty, blacklist per account | opt in, add earned, add penalty, blacklist | the loan service's AURA sync |
| Deposit records | one record per payment transaction | submit or verify, then insert | contract, database |
| Pool and market history | samples in the database; a `running` flag per job | sample, throttle, query; an SSE stream per client | contract, DEX, database |
| Generated clients `smart_contracts/artifacts` | a composer's calls | build calls, send, compose groups, create applications, read state | the four approval programs |
| Build and deployment `smart_contracts/__main__.py` | the artifacts folder; the deployer's applications | build, deploy, all | compiler, generator, ledger, indexer |
| Legacy lending and vault contracts | compiled artifacts | as their routers say | their generated clients; the backend does not configure them |
| Dashboard `src/algocrefi-frontend` | fetched data, chart history, in-flight flags | refresh, operate, stream | the backend's routes |
| Authentication, site pages | - | - | - |

Contract calls are transaction groups: they happen whole or not at all, in one
order. Everything in the backend and in the browser is interleaved at every
`await`: what was read before it may be out of date after it, an answer may be
lost although the call took effect, and the process may restart.

What is hard, and what makes each part correct:

- **Contract.** Long sequences of legal calls by several accounts, with rounding,
  64-bit limits, clear-state under an open loan, two ways to end a loan, and groups
  whose calls name one payment several times. Correct when everything it accounts for
  is really in its account, as far as every call brings its own payment, rounding never
  moves value between holders, and a loan ends only paid or overdue.
- **Job.** Reads that age while borrowers and the admin act, two clocks, lost
  answers, restarts. Correct when it acts on an overdue loan eventually, never on
  another, and sells exactly what it seized.
- **AURA sync.** A difference of two reads around a submission, while the wallet
  acts on the contract itself. Correct when the AURA application is never told of
  more than was earned, and a repayment's points reach the call or the request
  fails.
- **Deposit records.** Check-then-insert by two paths, a submission before its
  record, a unique index behind both. Correct when a transaction is recorded once,
  only after it is confirmed, and lost only to a fault.
- **Histories.** Check-then-insert by a job and by requests; a flag that must come
  down after any failure. Correct when samples keep their spacing up to writers whose
  work overlapped, and a query gets the newest of its range in order.
- **Generated clients.** Code kept beside the program it was generated from.
  Correct when what a client offers for its application is what the router takes, and
  state readers find their keys.
- **Deployment.** Steps that fail with their output left behind, answers that are
  lost, an indexer that lags, sources edited meanwhile. Correct when what is shipped is
  what was looked for, only a deployer who could not see an application creates it
  again, and nothing old disappears.

`PROJECT.json` lists each hazard at its line and the properties aimed at it.

## 2. Modules

| Module | Models |
|---|---|
| `AlgoPool` | the contract, its clear-state program, and the ledger rules it rests on |
| `LoanBook` | abstract: what the lending half promises |
| `DefaultLiquidation` | extends `AlgoPool`: the job, the admin call, the swap, failures, two clocks |
| `AuraSync` | extends `AlgoPool`: the repayment route and the AURA application beside the contract |
| `DepositRecords` | the deposit route's two paths, the ledger's confirmations, the unique index |
| `PoolSampling` | the sampling job, the requests that sample too, and their throttle |
| `PoolHistory` | extends `PoolSampling`: what the history route answers |
| `ClientInterfaces` | tables: what the four generated clients offer, what the four programs accept |
| `TypedClient` | extends `ClientInterfaces`: factories, clients and composers at work on a ledger |
| `Deployment` | build, deploy and all, over the artifacts folder and the deployer's applications |
| `AlgoPoolProofs` | theorems about `AlgoPool` |
| `LoanBookRefinement` | `AlgoPool` implements `LoanBook` |
| `DefaultLiquidationProofs` | theorems about the job beside the contract |
| `AuraSyncProofs`, `DepositRecordsProofs`, `PoolHistoryProofs`, `TypedClientProofs`, `DeploymentProofs` | theorems about the module each is named after; `PoolHistoryProofs` also about `PoolSampling` |

### AlgoPool

One variable per piece of contract state under its own name (`pool`,
`total_shares`; `shares`, `loan`, `aura` per account; `optedIn` is who holds local
state at all), and what the ledger keeps for the application: `appAlgo`,
`appUsdc`, `usdcOptedIn`. `now` is the latest block's timestamp.

One action per method, plus `ClearState` (the compiled clear-state program
approves unconditionally), `Fund` (a plain payment, as the deployer makes for the
minimum balance) and `Tick`. A failing `assert`, an arithmetic overflow and a
refused inner transaction all undo the group, so each of them is a conjunct of
the action's guard: `Fits` for overflow of every intermediate product,
`PayAlgo`/`ReceiveAlgo` for the minimum balance, `PayUsdc` for the holding. The
two loan requests share `CanBorrow`, `LoanTerms` and `OpenLoan`, as their code is
the same line for line; `Repay` and `LiquidateDefault` share `Closed`.

**Groups.** `deposit`, `admin_add_pool_liquidity`, `repay` and
`request_collateral_loan` are given the index of a payment or transfer of their group,
check its sender, receiver, asset and amount, and mark nothing: another call of the
group may name the same one. The frontend builds one payment per call, the contract
does not insist on it. `named` are the payments and transfers of the current group that a
later call may still name, by what the contract reads of them; `NamesPayment` and
`NamesTransfer` either bring a new one or name one again. `algoAgain` and `usdcAgain`
are history: what was credited without arriving. `NewGroup` ends the group, at any
point between two calls, and time moves between groups only. A payment arrives with the
first call that names it, although in the group it may stand anywhere: the group is
atomic and the account's balance is only compared within it when it pays out.
`MaxAgain` bounds the two histories; 0 leaves the groups of one payment per call.

Assumed, and outside the model: whoever receives USDC is opted in to it; fees are
paid; a payment that a call names is addressed to this application, since any other is
refused.

### LoanBook

A loan book has members, and knows for each of them a debt, a pledge and a
deadline. A grant takes money from the till and binds the borrower to owe at least
as much; a loan ends by settling (the debt comes in, the pledge goes back), foreclosing
(after the deadline; the pledge is seized) or leaving (the member drops its record and
the debt with it; the pledge stays). The contract implements it with `members` read
off the opt-ins and `terms` off the loan records (`TermsOf`). `till` is the ALGO of the
account and what calls named again (`appAlgo + algoAgain`), `escrow` the USDC likewise:
a call that names a used payment settles in the book, and the history says by how
much the book runs ahead of the account. Bans are no part of the book: the contract
keeps them in a record its owner can drop, which the texts do not say (`PoolBan.cfg`).

### DefaultLiquidation

`job` is the job's program counter and locals: `JobStates` are its await points,
`todo` the wallets left in the loop, `status` what has been read of the current
one. The keys of a wallet are requested together and answered in any order
(`ReadKey`), each with what the chain holds at that moment. `Decide` uses the
backend's own clock `wall`; `Liquidate` and `LiquidationRefused` are the two
answers to the call. `since` and `seized` are history: the time the wallet's turn
began, and the collateral the liquidation took.

Beside it move the contract (`ChainMoves`: every action of `AlgoPool`, the admin
route's liquidations among them) and the backend's clock, which may differ from the
chain's by `MaxSkew` either way. Faults, at most `MaxFaults` of them: the user
query fails, a read or the call fails, the call's answer is lost after it took
effect, the process restarts. An error ends the wallet's turn only
(`AfterFailure`), and the flag comes down however a run ends (`RunningAfterEnd`).

`LedgerRuns` is what a call must carry to be run: the account and the asset it
touches and a fee for its inner transfer. The job's calls (`AdminCall`) carry none
of it. With `ResourcesChecked = FALSE` the ledger runs whatever the contract
accepts: a superset of what any ledger runs, which separates the question of the
job's own logic from the question of what its calls carry.

`ChainMoves` also bounds how long a wallet's turn may take: less than a day of
chain time (`SecondsPerDay`, the shortest loan) passes between the first read and
the call's outcome. The reads are HTTP requests and the call is valid for a
bounded number of rounds, minutes together; without such a bound the job's
collateral could be that of an older loan.

### AuraSync

`request` is what each `repayLoan` under way is doing and has read; the handler's
awaits are `ReadBefore`, `Submit`, `ReadAfter` and `Sync`. `Submit` is the
contract's own `Repay`; `AddRepaymentAura` is the compiled method of the AURA
application, which refuses an account that holds no local state there, and which the
ledger shows no local state of an account the call does not name (`LedgerRuns`).
`syncAuraFromRepay` names none (`SyncCall`), so with `ResourcesChecked` the ledger refuses
its call, as it refuses the job's, the route answers with the error, and the application counts
nothing. What is checked and proved is that the route's own arithmetic is right: with
`ResourcesChecked = FALSE` the ledger runs what the application accepts, and the
theorems hold either way. `ChainMoves`
are all the actions of `AlgoPool`, repayments, defaults and clear-state without the
backend among them, between any two of the handler's steps. Faults: a read fails, the
answer to the submission or to the AURA call is lost after it took effect, the
process restarts. `paid` is history: the points of all the interest ever repaid,
the most a wallet can have earned; `own`, `base` and `kept` are history of a request.

The module assumes `AURA_APP_ID` set (without it the route adds nothing) and the
AURA application created by the backend's account, as its assertion needs. Nothing
in the handler stops a second request of a wallet; `Overlap` says whether one
comes. Without overlap the sum is right. With it, were the call to run, two differences
could both hold the points of one repayment; as the call stands this cannot be reached,
so it is a hazard of a later fix and no finding.

### DepositRecords

A request brings a signed group (`ArriveWithGroup`), which is submitted, waited for,
looked up and recorded; or the id of a payment with a signed call (`ArriveWithId`),
which is looked up, verified, submitted, waited for and recorded without a second
look. `Insertable` is the unique index of `depositModel.js`. The id may be that of any
transaction, a group's payment included, and the call any the wallet signed: the
route checks no more than sender, application and on-completion action. `ledger`
takes a transaction once and confirms it or lets it expire; wallets also submit by
themselves. Faults: the answer to a submission is lost, a wait gives up, a lookup
or insert fails, the process restarts. Amounts are left out.

### PoolSampling and PoolHistory

`writer` is where each firing of the job and each request is in
`persistPoolTvlSnapshot`: about to snapshot, to look at the newest sample, to
insert. `running` is the job's flag. `stored` counts the inserts: a writer notes the count
when it begins and a sample its own number, so that `Together` says whether the work
behind two samples overlapped. The pool history (`poolHistoryService.js`,
`poolTvlHistoryJob.js`, the pool-info route) and the market history
(`marketDataService.js`, `poolHistoryJob.js`, the polls of open streams) are kept
by the same code with other names, so one model stands for both. What a sample says
is left out. A firing or request that failed has let go of its insert: an insert
that the database still performs after the backend gave up on it is not modelled.
`PoolHistory` adds the query: range, capped limit, newest first, reversed. The database
sorts by time alone, so samples of equal times may come in any order: `NewestFirst` is
the set of orders it may answer in. The property is about every answer to every query
the route takes, in every state of the sampling.

### ClientInterfaces and TypedClient

`ClientInterfaces` reads the client tables off the Python classes and the program
tables off the TEAL (routers, creation, opt-in), class by class and program by
program, because a generated client keeps the same signature in five places.
`TypedClient` puts them to work: a factory creates applications or sends the update
and delete it offers; a client, bound to any application of the ledger, right or
wrong, sends calls or opens a composer; the composer collects method calls,
clear-states and foreign transactions, and the ledger runs the group whole or not at
all. What a method does when it is reached belongs to `AlgoPool`; here it accepts
(`SendGroup`) or refuses (`GroupFails`). What it returns is left out: a composer's `send`
and `simulate` hand on what the underlying composer returns and never read the list of
mappers that the methods fill. Read-only calls change nothing and are
covered by `OfferedCallsRouted`, which quantifies over every method a client offers, sends
or composes for its own application. The update and delete that factories offer are not
among them: no program routes them, and `AppsKept` is about that.

### Deployment

`process` is the one run of `python -m smart_contracts` under way, its `at` the step
before which it may fail or be stopped; `output` is the artifacts folder, each file by
the source version it was made from. `rmtree` removes the files one by one in no
particular order (`RemoveFile`), and the folder is made anew when all are gone. A
folder that is missing and one without files are not told apart: `deploy` raises on
either. A file is there whole or not at all: half of one would not load.

`apps` are the applications the deployer has created under each name, in order, of
which the last is live. The deployer finds them through an indexer, which shows a
prefix (`shown`) that grows at its own pace (`IndexerFollows`). A creation whose
answer is lost is `pending`: it may reach the ledger at any later time (`Confirm`), before or
after the next run looks up, or expire (`Expire`). `LookUp` compares the code last
shown with the client's. Whether a lookup saw all there was is history (`partial` of the
process, `view` of an application), and the two properties about what a deployment
leaves live are stated by it: a run that could not see an application may create it
again (`TwinsOnlyUnseen`), and a run that saw everything leaves live what it shipped
(`FinishedDeployIsLive`). No text promises more.

A `deploy_config.py` that fails to import counts as absent (`loadable`), as in the code:
the contract is then skipped without an error, so `FinishedDeployIsLive` speaks of the
loadable ones.

## 3. Runs

| Run | Result | Shows |
|---|---|---|
| `PoolCredit.cfg` | passes | types and 64-bit limits; loan records; AURA under unsecured loans; ALGO and collateral backed, but for what calls of a group named again; how loans end; `LoanBook` |
| `PoolShares.cfg` | passes | shares stay backed; rounding never lowers the ALGO behind a share |
| `PoolMint.cfg` | violated | a deposit after the creator's liquidity mints nothing |
| `PoolHolders.cfg` | violated | a deposit while a loan is out dilutes the holders' assets |
| `PoolBan.cfg` | violated | a banned defaulter clears its state and is no longer banned |
| `JobLiquidates.cfg` | passes | the flag; sells what it seized; overdue loans are ended |
| `JobCallRefused.cfg` | violated | the job's call is refused for what it does not carry, at every firing |
| `AuraSync.cfg` | passes | one request at a time, were its call to run: AURA is never overcounted, and a repayment's points reach the call |
| `DepositRecords.cfg` | passes | recorded once, when confirmed; lost only to a fault; settled in the end |
| `PoolHistory.cfg` | passes | one firing at work; only overlapping work comes close; what a query answers |
| `TypedClients.cfg` | passes | calls offered for a client's application are routed; state readers; applications stay |
| `Deployment.cfg` | passes | what is shipped; twins only unseen; a finished deployment is live; old applications stay |

**Bounds.** Rates and units are scaled so that small numbers reach every branch:
with `BpsScale = 2` and a rate of 1 a loan of 2 or 3 earns 1 per day, rounded in the
second case; one unit of interest is one AURA point, and one point carries a loan
of two units, so that credit is earned, exceeded, spent, lost and banned within
three or four loans. `MaxUInt` of 8 (7, 12, 4) is the 64-bit limit: sums and products
overflow within a few steps, and `TypeOK` fails when a check is dropped. Time runs to
`MaxTime`: a loan made at 0 is due at 1 and overdue at 2, after any number of loans
that were repaid. `MaxFunding` bounds plain
payments; amounts come from the sets in each configuration. `PoolCredit` uses one
account, since a loan's state concerns its borrower only, and the creator, whose calls
name each other's payments as little as two accounts' would (the sender is checked).
Its one payment of 4 pays a loan of 3 exactly and one of 2 with too much;
`MaxAgain = 4` lets one payment be credited twice and one transfer back two loans, in
any order with loans, defaults and clear-states. `PoolShares` has two accounts, since
shares are about one holder at the expense of another. The other runs of the contract
have `MaxAgain = 0`: their properties are not about where a payment came from, but what
the job does beside such groups is not run. `PoolBan` needs one default and one
clear-state. In the job's runs the
contract has one borrower and the user collection also a wallet that never opted
in, so that the loop, the opt-in check and an order of wallets are there; the
overdue loan, a second loan, the admin's liquidation and the job's meet within
`MaxTime = 4`, two days.

`AuraSync` has one wallet, one request and two faults; three points of AURA are three
loans, so that repayments through the backend and without it, a default and a
clear-state fall between the reads. `DepositRecords` has two users, two requests, and one transaction of each kind,
signed by either user: a group meets the same group by its id, a payment is
claimed twice, a call is submitted twice. `PoolHistory` has two firings that would
overlap but for the flag, one request, and five milliseconds against an interval of three, so that up to four samples are
stored, two of equal times and two of overlapping work among them, firings being
interchangeable (symmetry);
the limit's branches (none, below one, above the maximum) are all among `Limits`.
`TypedClients` has two applications, so that a client can be bound to another
program, one account, since local states do not interact, and groups of two,
since routing a call depends on the calls before it only by opt-in and clear-state;
the two application ids are symmetric, and it has no liveness property. `Deployment` has
two contracts, one without a specification, a source edited and edited back, two
faults, and up to `MaxApps = 3` applications of a name: one, its twin, and one after
them. A run that may deploy starts only while there is room for one more, so that the
bound cuts off no step of a run under way; the two versions are symmetric.

No other run uses symmetry, and none with a liveness property does. Deadlock is checked in every run: the clear-state and
opt-in, the job's cycle, a request or a deployment that starts always leave a step.

**Fairness** (`JobSpec`). Weak fairness of `JobStep`: the cron fires every day
(`scheduler.js`, on by default), every request is answered or times out, and the
loop has a `catch` per wallet and a `finally` for the flag, so a run never stays at
one await for ever. Weak fairness of `WallTick`: the backend's clock follows the
chain's. Nothing is assumed of borrowers, of the admin, of the chain's clock or
of faults, except that faults are finitely many.

`Spec` of `DepositRecords`: weak fairness of each request's step, since every await
of the handler returns or throws (the wait after its rounds), and of a pending
transaction's end, since it is valid for a bounded number of rounds. Nothing is
assumed of arrivals, of wallets or of faults. The other modules state no
fairness and have no liveness property.

`OverdueLiquidated` is stated of wallets in the user collection: the job never
looks at a borrower who did not sign up.

**Where texts and code disagree**: the four violated runs; each finding in
`PROJECT.json` quotes the text. Two are about `contract.py:81`, which prices a
deposit by the liquid pool: with no shares yet that price is zero shares, and with a
loan out it leaves the loan's debt out of the price. One is about `loanService.js:767`, a
call that does not name what it touches, and one about the ban of `README.md`,
"permanent", which lies in the local state a wallet may clear.

## 4. Proofs

Assumptions: `AlgoPoolAssumption` (naturals; positive divisors and word size),
`AccountsAssumption` (finitely many accounts, whatever their number), `JobAssumption`,
`AuraSyncAssumption`, `DepositRecordsAssumption`, `PoolSamplingAssumption`,
`PoolHistoryAssumption`, `ClientAssumption` and `DeploymentAssumption` (kinds of names
do not mix, bounds are naturals, limits are positive), and `~Overlap` where a theorem
says so. Nothing else; accounts, amounts, rates, times, requests, groups and contracts
are arbitrary.

**The contract.** The inductive invariant is

    Inv == TypeOK /\ Solvency /\ LoanWellFormed /\ UnsecuredStaysCreditworthy

`LoanWellFormed` is what the others need: it ties an open loan to local state (so
opting in again cannot touch one) and its debt to its principal. Each action has a
lemma for the types and one for the invariant; `NextTyped` and `NextInv` put them
together. From `Inv` follow the state theorems and `LoanEndsPaidOrOverdue`;
`SharePriceNeverFalls` needs only the types and two facts of arithmetic: minting
at most the deposit's proportion and burning at least the payout's keep
`pool / total_shares` (`MintKeepsPrice`, `BurnKeepsPrice`, on cross products).

`Solvency` is `pool <= appAlgo + algoAgain`: a call brings a payment, and the account grows
with the pool, or names one again, and the history does (`NamedPayment`; `NamedTransfer`
for the collateral). For groups of one payment per call the histories stay 0, and the
theorems say that the pool is in the account.

**The contract's sums.** `SharesBacked` and `CollateralBacked` compare a sum over all
accounts with a total. `SumFunction` is a fold over a finite set that takes out one
element after another as `CHOOSE` picks it, so first the fold is shown to exist and to
be unique (`FoldExists`, `FoldIsUnique`), by induction along strict inclusion of the
subsets (`FiniteInduction`: `WFMin` on `StrictSubsetOrdering`; the set of the subsets
for which a fact holds stands for the operator parameter of the library's induction
theorems). Then any element may be taken out of a sum (`SumTakesOut`), so changing one
account changes the sum by the difference (`SumChanges`). With it `Backed` and
`Collateral` follow step by step: each action touches the shares, or the collateral, of
its caller or its target alone, and the total, or the account's USDC or the history
of transfers named again, with it. A
clear-state lowers the sum and leaves the total, which is why these are inequalities.

**The refinement.** `StepMapsToStep` has a lemma per action: loan requests map to
`Grant`, repayment to `Settle`, liquidation to `Foreclose`, opting in and clearing
to `Join` and `Leave`, the rest to `Trade`, `Advance` or a stutter.

**The job.** `JobUsesContract`: every step of the job, its faults and its clocks is
a step of the contract or leaves it alone, so `JobSpec => Spec` and all of the above
holds beside the job. `SwapsWhatWasSeized` is not inductive: what the job knows of
a wallet may be out of date. `JobInv` says how far it can be: a loan that is due
within a day of the first read is known exactly, key by key (`Known`). It is
preserved because a step leaves a loan alone, ends it, or opens one due at least
a day later (`LoanStep`); and a loan the contract agrees to liquidate is overdue,
so due within that day (`LiquidatedWasKnown`).

**The AURA sync.** `NotOvercounted` alone is not inductive: a request under way is
about to add its difference. `SyncInv` adds `Alone` (a wallet has one request) and
`AllCovered`: while a request is between its reads, its wallet's AURA has grown by
no more than the points paid since its first read, and what the application
counted was covered then; while it is about to add, the sum is covered. It rests
on the contract's `Inv` and on one fact about each of its actions: AURA grows by the
points paid and no more. The types and `RepaymentReachesSync` hold with overlap too: in
`ReachInv`, as long as the wallet has `kept` its record, what a request read first and
the points of its own repayment together never exceed the wallet's AURA (`ReadKept`). `NotOvercounted` is proved for `~Overlap` only: with
overlap, and a ledger that runs the call, two requests may both count a repayment.

**Deposit records.** `DepositInv` adds `PathsOK` (which of its transactions each
path knows to be confirmed, await by await) and `GroupsAccounted`, which starts
the accounting of a group when it is submitted, before its outcome is known.

**Sampling.** `SamplingInv` adds `InsertersLooked`: from every sample that was stored when
its work began, a writer about to insert has kept the interval; what was stored since
(`StoredMeanwhile`) is of overlapping work, and by `OneFiringAtWork` never of the job's if
the writer is the job's. `Counted` keeps the numbering in order. That a newest sample
exists is kept as the invariant `HasNewest`.

**The history.** Samples come one by one, so the history is finite
(`FinitelyManySamples`) and a range of it has a number of rows. `AnswerIsNewest` says
what limit and reverse leave of any order of those rows: a row that is missing stands
behind the limit in the order, so the answer is full and of rows no older. That an order
exists is `OrderExists`, again along strict inclusion: a smallest set of rows without
one would get one from the rest and its oldest row (`OrderGrows`).

**The generated clients.** `ClientsAgree` compares the tables, client by client: the
same methods, completed the same way in each of the five classes, as many argument
fields as arguments, the same keys. The rest is the same
for every client. `Offers(k)` is what a composer of kind `k` may hold: calls the program
of kind `k` lets through; all a client builds is of that kind (`ClientsOffer`).
`ClientInv` says that a composer holds such calls and that an application is as its
program created it but for the accounts that joined. The factories' updates and deletes are offered and
turned away, since no program routes them (`FactoryOnlyCreates`); that is why
applications stay.

**Deployment.** `DeployInv` adds `PendingInv` (a creation under way whose run saw all
there was follows what is there, and of two such at most one is under way), `StageInv`
(what each step of a process may rely on; in particular, where the lookup saw all, the
application about to be created is not the one that is live and nothing is under way)
and `ProgressInv` (each chosen contract of a run is still to do, in hand, or shipped).

| Theorem | Module |
|---|---|
| `TypeCorrect`, `SolvencyHolds`, `SharesBackedHolds`, `CollateralBackedHolds`, `LoanWellFormedHolds`, `CreditworthinessHolds`, `SharePriceNeverFallsHolds`, `LoanEndsPaidOrOverdueHolds` | `AlgoPoolProofs` |
| `ImplementsLoanBookHolds` | `LoanBookRefinement` |
| `JobUsesContract`, `JobTypeCorrect`, `SwapsWhatWasSeizedHolds` | `DefaultLiquidationProofs` |
| `AuraTypeCorrect`, `RepaymentReachesSyncHolds`, `NotOvercountedHolds` (without overlap) | `AuraSyncProofs` |
| `DepositTypeCorrect`, `RecordedOnceHolds`, `RecordedIsConfirmedHolds`, `DepositsAccountedHolds` | `DepositRecordsProofs` |
| `SamplingTypeCorrect`, `OneFiringHolds`, `CloseSamplesHolds`, `HistoryIsNewestHolds`, `QueriesAnsweredHolds` | `PoolHistoryProofs` |
| `ClientTypeCorrect`, `OfferedCallsRoutedHolds`, `TypedStateWholeHolds`, `AppsKeptHolds` | `TypedClientProofs` |
| `DeployTypeCorrect`, `SpecAndClientCorrect`, `TwinsOnlyUnseenHolds`, `FinishedIsLive`, `OldAppsKept` | `DeploymentProofs` |

**Only model-checked.** `OverdueLiquidated` and `DepositsSettle` are liveness under
fairness, which needs `ENABLED` and is beyond the provers. The properties of the four
violated runs are false. Every other
property of a run is a theorem.

## 5. Not modelled, and why

- **AURA penalties and bans in the AURA application.** `syncAuraFromDefault` has no
  caller; the liquidation route answers `auraSync: null`.
- **Checks on signed groups, loan quotes, the price's fallback, the active-loan
  cache** (`loanService.js`, `loanController.js`). The checks repeat what the
  contract decides in the same transaction; quotes, price and cache feed answers and
  no state.
- **Methods of the legacy lending and vault contracts.** Compiled artifacts without
  source that the backend does not configure; their routers, creation and opt-in
  are in `ClientInterfaces`.
- **What a stored sample says.** Pool and shares are read in parallel, so a sample may
  be of two states; no text promises otherwise.
- **An insert that lands after the backend gave up on it**, by a restart or a timeout
  of its driver; the throttle's spacing is stated without it.
- **Market stream and OHLC cache.** One client's timers over reads of the chain. A
  client that leaves during the first snapshot leaves its timers behind, as the
  listener is installed after it; no text states what is owed there.
- **Dashboard, site pages.** They mirror the backend's answers and decide nothing.
- **Building transaction groups** (`algoTxBuilder.ts`, `signedTxnUtils.js`). A
  translation of a form into bytes and back.
- **Authentication.** A database call and a token per request.
- **Two deployers at once**: lookup and creation are separate requests, and
  `Deployment` has one process at a time, as the command line does.
- **`scripts/push-to-github.py`.** One commit and push of the working tree; not part of the system.
