------------------------------ MODULE Deployment ------------------------------
(***************************************************************************)
(* python -m smart_contracts: building the contracts into the artifacts    *)
(* folder (compile, then generate the typed client) and deploying them     *)
(* from it.  One process runs at a time; it may fail or be stopped between *)
(* any two steps, and what it wrote stays.  Sources are edited meanwhile.  *)
(* The deployer finds its applications through an indexer, which follows   *)
(* the ledger at its own pace, and a creation nobody heard of may still be *)
(* under way.                                                              *)
(***************************************************************************)
EXTENDS Naturals, Sequences, FiniteSets, TLC

CONSTANTS
    Contracts,   \* the folders with a contract.py
    SpecLess,    \* those that compile without an ARC-56 specification
    Versions,    \* what a contract's source may say
    MaxEdits,    \* bound: edits of a run
    MaxApps,     \* bound: applications of a name a run creates
    MaxFaults    \* bound: failures and stops of a run

Nothing == "nothing"

ASSUME DeploymentAssumption ==
    /\ SpecLess \subseteq Contracts /\ IsFiniteSet(Contracts)
    /\ Nothing \notin Versions /\ Nothing \notin Contracts
    /\ MaxEdits \in Nat /\ MaxApps \in Nat /\ MaxFaults \in Nat

VARIABLES
    source,  \* the version of each contract.py
    output,  \* the artifacts folder of each contract
    apps,    \* by contract, the applications created under its name, in order
    pending, \* creations sent to the ledger whose answer was lost
    shown,   \* how many of the applications the indexer shows
    process, \* the process under way
    edits, faults

ledgerVars == <<apps, pending, shown>>
deployVars == <<source, output, apps, pending, shown, process, edits, faults>>

Stages == {"idle", "between", "removing", "compiling", "generating", "built", "importing",
           "lookingUp", "creating", "done"}

\* spec, client: the version they were made from.
Output == [spec: Versions \cup {Nothing}, client: Versions \cup {Nothing}]
NoOutput == [spec |-> Nothing, client |-> Nothing]

\* view: whether the deployer's lookup before it showed every application of
\* the name; lost: the number of the fault that lost its answer, if one did.
Application == [code: Versions, view: {"whole", "partial"}, lost: 0 .. MaxFaults]

\* partial: the contracts this process looked up when not all was shown.
Process == [at: Stages, action: {"build", "deploy", "all"}, chosen: SUBSET Contracts,
            todo: SUBSET Contracts, contract: Contracts \cup {Nothing},
            loadable: SUBSET Contracts, partial: SUBSET Contracts]
Idle == [at |-> "idle", action |-> "build", chosen |-> {}, todo |-> {},
         contract |-> Nothing, loadable |-> {}, partial |-> {}]

DeployInit ==
    /\ source \in [Contracts -> Versions]
    /\ output = [c \in Contracts |-> NoOutput]
    /\ apps = [c \in Contracts |-> <<>>]
    /\ pending = [c \in Contracts |-> {}]
    /\ shown = [c \in Contracts |-> 0]
    /\ process = Idle /\ edits = 0 /\ faults = 0

At(stage) == process.at = stage
Goto(stage) == process' = [process EXCEPT !.at = stage]
NextContract == process' = [process EXCEPT !.at = "between", !.contract = Nothing]
Here == process.contract

-----------------------------------------------------------------------------
RoomForApps ==
    \A c \in Contracts : Len(apps[c]) + Cardinality(pending[c]) < MaxApps

\* The folders are listed and their deploy_config loaded; one that does not
\* load counts as having none.  An unknown name chooses nothing.
Start(action, chosen, loadable) ==
    /\ process.at \in {"idle", "done"}
    /\ action = "build" \/ RoomForApps
    /\ process' = [Idle EXCEPT !.at = "between", !.action = action,
                    !.chosen = chosen, !.todo = chosen, !.loadable = loadable]
    /\ UNCHANGED <<source, output, ledgerVars, edits, faults>>

Finish ==
    /\ At("between") /\ process.todo = {}
    /\ Goto("done")
    /\ UNCHANGED <<source, output, ledgerVars, edits, faults>>

\* An exception ends the process; the contracts not reached are left alone.
RaisedSkipsContract == [process EXCEPT !.at = "between", !.contract = Nothing]
Raised == Idle

-----------------------------------------------------------------------------
(* build *)

StartBuild(c) ==
    /\ At("between") /\ process.action # "deploy" /\ c \in process.todo
    /\ process' = [process EXCEPT !.at = "removing", !.contract = c, !.todo = @ \ {c}]
    /\ UNCHANGED <<source, output, ledgerVars, edits, faults>>

\* rmtree takes the files in no particular order.
RemoveFile(file) ==
    /\ At("removing") /\ output[Here][file] # Nothing
    /\ output' = [output EXCEPT ![Here][file] = Nothing]
    /\ UNCHANGED <<source, ledgerVars, process, edits, faults>>

\* The folder is made anew once all is gone from the old one.
ClearedOfSpecs(o) == o.spec = Nothing
Cleared(o) == o = NoOutput

FreshFolder ==
    /\ At("removing") /\ Cleared(output[Here])
    /\ Goto("compiling")
    /\ UNCHANGED <<source, output, ledgerVars, edits, faults>>

Compile ==
    /\ At("compiling")
    /\ IF Here \in SpecLess
       THEN Goto("built") /\ UNCHANGED output
       ELSE /\ output' = [output EXCEPT ![Here].spec = source[Here]]
            /\ Goto("generating")
    /\ UNCHANGED <<source, ledgerVars, edits, faults>>

GenerateClient ==
    /\ At("generating")
    /\ output' = [output EXCEPT ![Here].client = output[Here].spec]
    /\ Goto("built")
    /\ UNCHANGED <<source, ledgerVars, edits, faults>>

\* "all" deploys what it has just built.
AfterBuild ==
    /\ At("built")
    /\ IF process.action = "all" /\ Here \in process.loadable
       THEN Goto("importing") ELSE NextContract
    /\ UNCHANGED <<source, output, ledgerVars, edits, faults>>

-----------------------------------------------------------------------------
(* deploy *)

\* "deploy" asks for the specification in the folder before anything else.
StartDeploy(c) ==
    /\ At("between") /\ process.action = "deploy" /\ c \in process.todo
    /\ process' =
        IF output[c].spec = Nothing THEN Raised
        ELSE [process EXCEPT !.todo = @ \ {c},
                !.at = IF c \in process.loadable THEN "importing" ELSE "between",
                !.contract = IF c \in process.loadable THEN c ELSE Nothing]
    /\ UNCHANGED <<source, output, ledgerVars, edits, faults>>

\* The client is imported when deploy runs; it may not be there.
ImportableAlways(o) == TRUE
Importable(o) == o.client # Nothing

ImportClient ==
    /\ At("importing")
    /\ IF Importable(output[Here]) THEN Goto("lookingUp") ELSE process' = Raised
    /\ UNCHANGED <<source, output, ledgerVars, edits, faults>>

CodeAt(c, n) == IF n = 0 THEN Nothing ELSE apps[c][n].code

\* What the application last created under this name runs, and what the one
\* last shown does.
Live(c) == CodeAt(c, Len(apps[c]))
ShownLive(c) == CodeAt(c, shown[c])

NeedsAppAlways(c) == TRUE
NeedsApp(c) == ShownLive(c) # output[c].client

\* Nothing of this name is hidden from the deployer.
AllShown(c) == shown[c] = Len(apps[c]) /\ pending[c] = {}
NowPartial(c) == process.partial \cup (IF AllShown(c) THEN {} ELSE {c})

LookUp ==
    /\ At("lookingUp")
    /\ process' = [process EXCEPT !.partial = NowPartial(Here),
                    !.at = IF NeedsApp(Here) THEN "creating" ELSE "between",
                    !.contract = IF NeedsApp(Here) THEN Here ELSE Nothing]
    /\ UNCHANGED <<source, output, ledgerVars, edits, faults>>

Creation(c, lost) ==
    [code |-> output[c].client, lost |-> lost,
     view |-> IF c \in process.partial THEN "partial" ELSE "whole"]

ReplaceApp(c, a) ==
    apps' = [apps EXCEPT ![c] = IF @ = <<>> THEN <<a>>
                ELSE Append(SubSeq(@, 1, Len(@) - 1), a)]
AppendApp(c, a) == apps' = [apps EXCEPT ![c] = Append(@, a)]

Create ==
    /\ At("creating")
    /\ AppendApp(Here, Creation(Here, 0))
    /\ NextContract
    /\ UNCHANGED <<source, output, pending, shown, edits, faults>>

-----------------------------------------------------------------------------
(* The ledger and the indexer.                                             *)

\* A creation nobody heard of reaches the ledger, or expires on the way.
Confirm(c, a) ==
    /\ a \in pending[c]
    /\ AppendApp(c, a)
    /\ pending' = [pending EXCEPT ![c] = @ \ {a}]
    /\ UNCHANGED <<source, output, shown, process, edits, faults>>

Expire(c, a) ==
    /\ a \in pending[c]
    /\ pending' = [pending EXCEPT ![c] = @ \ {a}]
    /\ UNCHANGED <<source, output, apps, shown, process, edits, faults>>

IndexerFollows(c, n) ==
    /\ n \in shown[c] + 1 .. Len(apps[c])
    /\ shown' = [shown EXCEPT ![c] = n]
    /\ UNCHANGED <<source, output, apps, pending, process, edits, faults>>

-----------------------------------------------------------------------------
(* Faults and edits. *)

Faulty == faults < MaxFaults /\ faults' = faults + 1

\* The compiler, the generator, a request to the node or the indexer fails, or
\* the process is stopped.
StepFails ==
    /\ process.at \in Stages \ {"idle", "done"}
    /\ process' = Raised
    /\ Faulty /\ UNCHANGED <<source, output, ledgerVars, edits>>

\* The creation is sent, and the process does not hear of it: it may have
\* reached the ledger or not yet.
AnswerLost ==
    /\ At("creating")
    /\ pending' = [pending EXCEPT ![Here] = @ \cup {Creation(Here, faults + 1)}]
    /\ process' = Raised
    /\ Faulty /\ UNCHANGED <<source, output, apps, shown, edits>>

Edit(c, v) ==
    /\ edits < MaxEdits /\ v # source[c]
    /\ source' = [source EXCEPT ![c] = v]
    /\ edits' = edits + 1
    /\ UNCHANGED <<output, ledgerVars, process, faults>>

DeployNext ==
    \/ \E action \in {"build", "deploy", "all"}, loadable \in SUBSET Contracts :
        \E chosen \in {Contracts, {}} \cup {{c} : c \in Contracts} :
            Start(action, chosen, loadable)
    \/ \E c \in Contracts : StartBuild(c) \/ StartDeploy(c)
    \/ \E file \in {"spec", "client"} : RemoveFile(file)
    \/ FreshFolder \/ Compile \/ GenerateClient \/ AfterBuild
    \/ ImportClient \/ LookUp \/ Create \/ Finish
    \/ StepFails \/ AnswerLost
    \/ \E c \in Contracts :
        \/ \E a \in pending[c] : Confirm(c, a) \/ Expire(c, a)
        \/ \E n \in 1 .. Len(apps[c]) : IndexerFollows(c, n)
        \/ \E v \in Versions : Edit(c, v)

\* Versions are interchangeable.
VersionSymmetry == Permutations(Versions)

DeploySpec == DeployInit /\ [][DeployNext]_deployVars

-----------------------------------------------------------------------------
(* Properties. *)

\* The folders, the applications and the process keep their shape; only a
\* process at work on a contract names one.
DeployTypeOK ==
    /\ source \in [Contracts -> Versions]
    /\ output \in [Contracts -> Output]
    /\ apps \in [Contracts -> Seq(Application)]
    /\ pending \in [Contracts -> SUBSET Application]
    /\ shown \in [Contracts -> Nat]
    /\ \A c \in Contracts : shown[c] <= Len(apps[c])
    /\ process \in Process
    /\ (Here = Nothing) = (process.at \in {"idle", "between", "done"})
    /\ edits \in 0 .. MaxEdits /\ faults \in 0 .. MaxFaults

\* Whatever build failed or was stopped before, also while it cleared the folder,
\* a client in the artifacts folder belongs to the specification that lies
\* beside it: deploy, which looks for the one and ships the other, ships what it
\* looked for.
SpecAndClientAgree ==
    /\ \A c \in Contracts :
        output[c].client # Nothing /\ output[c].spec # Nothing =>
            output[c].client = output[c].spec
    /\ process.at \in {"lookingUp", "creating"} => output[Here].client = output[Here].spec

\* The same code is created twice in a row only by a run whose lookup did not
\* show all there was: the indexer was behind, or a creation whose answer was
\* lost was still under way.  A run that saw everything, also after one that was
\* stopped or did not hear, creates nothing that is live already.
TwinsOnlyUnseen ==
    \A c \in Contracts : \A n \in 1 .. Len(apps[c]) - 1 :
        apps[c][n].code = apps[c][n + 1].code =>
            "partial" \in {apps[c][n].view, apps[c][n + 1].view}

\* A run of deploy or all that ends without an exception leaves live, for every
\* contract it was to deploy and of which it saw all applications, the very
\* code of its artifacts folder.
FinishedDeployIsLive ==
    At("done") /\ process.action # "build" =>
        \A c \in process.chosen \cap process.loadable :
            /\ output[c].client # Nothing
            /\ c \notin process.partial => Live(c) = output[c].client

\* A deployment never removes or replaces an application: whoever still uses an
\* older one finds it as it was.
OldAppsStay ==
    [][\A c \in Contracts :
        /\ Len(apps[c]) <= Len(apps'[c])
        /\ \A n \in 1 .. Len(apps[c]) : apps'[c][n] = apps[c][n]]_deployVars
=============================================================================
