--------------------------- MODULE DeploymentProofs ---------------------------
(***************************************************************************)
(* For any contracts, versions and bounds: what the artifacts folder and   *)
(* the ledger look like after any mixture of finished, failed and stopped  *)
(* builds and deployments.                                                 *)
(***************************************************************************)
EXTENDS Deployment, TLAPS

\* What a process that has dealt with a contract leaves, if it saw all there was.
Shipped(c) ==
    /\ output[c].client # Nothing
    /\ c \notin process.partial => Live(c) = output[c].client /\ pending[c] = {}

\* What holds at each stage of the contract being worked on.
StageInv ==
    /\ process.at \in {"removing", "compiling", "generating", "built"} =>
        process.action # "deploy"
    /\ At("compiling") => output[Here] = NoOutput
    /\ At("generating") => output[Here].client = Nothing /\ output[Here].spec # Nothing
    /\ At("built") => output[Here].client = output[Here].spec
    /\ At("importing") =>
        (output[Here].client # Nothing => output[Here].client = output[Here].spec)
    /\ process.at \in {"lookingUp", "creating"} =>
        output[Here].client # Nothing /\ output[Here].client = output[Here].spec
    /\ At("creating") /\ Here \notin process.partial =>
        Live(Here) # output[Here].client /\ pending[Here] = {}
    /\ At("done") => process.todo = {}
    /\ Here \notin process.todo

\* The contracts a deploying process has dealt with are as it left them.
ProgressInv ==
    process.at # "idle" /\ process.action # "build" =>
        \A c \in process.chosen \cap process.loadable :
            c \in process.todo \/ c = Here \/ Shipped(c)

\* a may follow the application last created: another code, or one of the two
\* was created without seeing the other.
Fits(s, a) ==
    s = <<>> \/ s[Len(s)].code # a.code \/ "partial" \in {s[Len(s)].view, a.view}

\* Of the creations under way at most one was sent by a run that saw all, and
\* each may still follow what is there.
PendingInv ==
    \A c \in Contracts : \A a \in pending[c] :
        /\ Fits(apps[c], a)
        /\ \A b \in pending[c] : a.view = "whole" /\ b.view = "whole" => a = b

LedgerInv == TwinsOnlyUnseen /\ PendingInv

SpecsAgree ==
    \A c \in Contracts : output[c].client # Nothing /\ output[c].spec # Nothing =>
        output[c].client = output[c].spec

DeployInv == DeployTypeOK /\ SpecsAgree /\ LedgerInv /\ StageInv /\ ProgressInv

LEMMA InitDeployInv == DeployInit => DeployInv
BY DeploymentAssumption
   DEF DeployInit, DeployInv, DeployTypeOK, SpecsAgree, LedgerInv, TwinsOnlyUnseen,
       PendingInv, StageInv, ProgressInv, NoOutput, Output, Idle, Process, Stages, At, Here

\* Appending an application that fits keeps neighbours apart, or excused, and
\* makes it the last.
LEMMA AppendedApp ==
    ASSUME NEW A, NEW s \in Seq(A), NEW a \in A, Fits(s, a),
           \A n \in 1 .. Len(s) - 1 : s[n].code = s[n + 1].code =>
                "partial" \in {s[n].view, s[n + 1].view}
    PROVE  LET t == Append(s, a)
           IN /\ t \in Seq(A) /\ t # <<>> /\ t[Len(t)] = a /\ Len(t) = Len(s) + 1
              /\ \A n \in 1 .. Len(s) : t[n] = s[n]
              /\ \A n \in 1 .. Len(t) - 1 : t[n].code = t[n + 1].code =>
                    "partial" \in {t[n].view, t[n + 1].view}
<1> DEFINE t == Append(s, a)
<1>1. Len(t) = Len(s) + 1 /\ t \in Seq(A) /\ t[Len(s) + 1] = a /\ Len(s) \in Nat
      /\ \A n \in 1 .. Len(s) : t[n] = s[n]
  OBVIOUS
<1>2. t # <<>>
  <2>1. Len(<<>>) = 0 OBVIOUS
  <2>2. Len(t) # Len(<<>>) BY <1>1, <2>1
  <2> QED BY <2>2
<1> HIDE DEF t
<1>3. ASSUME NEW n \in 1 .. Len(s), t[n].code = t[n + 1].code
      PROVE  "partial" \in {t[n].view, t[n + 1].view}
  <2>1. CASE n = Len(s)
    <3>1. s # <<>> BY <2>1
    <3> QED BY <1>1, <1>3, <2>1, <3>1 DEF Fits
  <2>2. CASE n # Len(s)
    <3>1. n \in 1 .. Len(s) - 1 /\ n + 1 \in 1 .. Len(s) BY <2>2
    <3> QED BY <1>1, <1>3, <3>1
  <2> QED BY <2>1, <2>2
<1> QED BY <1>1, <1>2, <1>3 DEF t

\* A step that makes no application leaves what is said of them.
LEMMA LedgerUnchanged ==
    ASSUME apps' = apps, pending' = pending, shown' = shown
    PROVE  /\ LedgerInv => LedgerInv'
           /\ \A c \in Contracts : Live(c)' = Live(c)
           /\ DeployTypeOK => /\ apps' \in [Contracts -> Seq(Application)]
                              /\ pending' \in [Contracts -> SUBSET Application]
                              /\ shown' \in [Contracts -> Nat]
                              /\ \A c \in Contracts : shown'[c] <= Len(apps'[c])
BY DEF LedgerInv, TwinsOnlyUnseen, PendingInv, Live, CodeAt, DeployTypeOK

\* An application that fits, appended for contract h while the creations under
\* way become left, of which each may follow it.
LEMMA AppendStep ==
    ASSUME DeployInv, NEW h \in Contracts, NEW a \in Application, Fits(apps[h], a),
           AppendApp(h, a), NEW left \in SUBSET pending[h],
           \A b \in left : "partial" \in {a.view, b.view},
           pending' = [pending EXCEPT ![h] = left], shown' = shown
    PROVE  /\ LedgerInv'
           /\ apps' \in [Contracts -> Seq(Application)]
           /\ pending' \in [Contracts -> SUBSET Application]
           /\ shown' \in [Contracts -> Nat]
           /\ \A c \in Contracts : shown'[c] <= Len(apps'[c])
           /\ Live(h)' = a.code /\ pending'[h] = left
           /\ \A c \in Contracts \ {h} : Live(c)' = Live(c) /\ pending'[c] = pending[c]
           /\ \A c \in Contracts :
                /\ Len(apps[c]) <= Len(apps'[c])
                /\ \A n \in 1 .. Len(apps[c]) : apps'[c][n] = apps[c][n]
<1> DEFINE t == Append(apps[h], a)
<1>1. /\ apps \in [Contracts -> Seq(Application)] /\ apps[h] \in Seq(Application)
      /\ pending \in [Contracts -> SUBSET Application]
      /\ shown \in [Contracts -> Nat] /\ \A c \in Contracts : shown[c] <= Len(apps[c])
  BY DEF DeployInv, DeployTypeOK
<1>2. \A n \in 1 .. Len(apps[h]) - 1 : apps[h][n].code = apps[h][n + 1].code =>
        "partial" \in {apps[h][n].view, apps[h][n + 1].view}
  BY DEF DeployInv, LedgerInv, TwinsOnlyUnseen
<1>3. /\ t \in Seq(Application) /\ t # <<>> /\ t[Len(t)] = a /\ Len(t) = Len(apps[h]) + 1
      /\ \A n \in 1 .. Len(apps[h]) : t[n] = apps[h][n]
      /\ \A n \in 1 .. Len(t) - 1 : t[n].code = t[n + 1].code =>
            "partial" \in {t[n].view, t[n + 1].view}
  BY <1>1, <1>2, AppendedApp
<1>4. apps' = [apps EXCEPT ![h] = t] BY DEF AppendApp
<1> HIDE DEF t
<1>5. apps'[h] = t /\ \A c \in Contracts \ {h} : apps'[c] = apps[c]
  BY <1>1, <1>4
<1>6. pending'[h] = left /\ \A c \in Contracts \ {h} : pending'[c] = pending[c]
  BY <1>1
<1>7. \A c \in Contracts : Len(apps[c]) \in Nat /\ shown[c] \in Nat
  BY <1>1
<1>8. apps' \in [Contracts -> Seq(Application)] /\ pending' \in [Contracts -> SUBSET Application]
  BY <1>1, <1>3, <1>4
<1>9. TwinsOnlyUnseen'
  <2>1. ASSUME NEW c \in Contracts
        PROVE  \A n \in 1 .. Len(apps'[c]) - 1 : apps'[c][n].code = apps'[c][n + 1].code =>
                 "partial" \in {apps'[c][n].view, apps'[c][n + 1].view}
    <3>1. CASE c = h BY <3>1, <1>3, <1>5
    <3>2. CASE c # h BY <3>2, <1>5 DEF DeployInv, LedgerInv, TwinsOnlyUnseen
    <3> QED BY <3>1, <3>2
  <2> QED BY <2>1 DEF TwinsOnlyUnseen
<1>10. PendingInv'
  <2>1. ASSUME NEW c \in Contracts, NEW b \in pending'[c]
        PROVE  /\ Fits(apps'[c], b)
               /\ \A d \in pending'[c] : b.view = "whole" /\ d.view = "whole" => b = d
    <3>1. CASE c = h BY <2>1, <3>1, <1>3, <1>5, <1>6 DEF DeployInv, LedgerInv, PendingInv, Fits
    <3>2. CASE c # h BY <2>1, <3>2, <1>5, <1>6 DEF DeployInv, LedgerInv, PendingInv
    <3> QED BY <3>1, <3>2
  <2> QED BY <2>1 DEF PendingInv
<1>11. \A c \in Contracts :
            /\ Len(apps[c]) <= Len(apps'[c])
            /\ \A n \in 1 .. Len(apps[c]) : apps'[c][n] = apps[c][n]
  <2>1. TAKE c \in Contracts
  <2>2. CASE c = h BY <2>2, <1>3, <1>5, <1>7
  <2>3. CASE c # h BY <2>3, <1>5, <1>7
  <2> QED BY <2>2, <2>3
<1>12. Live(h)' = a.code /\ \A c \in Contracts \ {h} : Live(c)' = Live(c)
  <2>1. Len(t) # 0 BY <1>3, <1>7
  <2> QED BY <1>3, <1>5, <2>1 DEF Live, CodeAt
<1>13. \A c \in Contracts : shown'[c] <= Len(apps'[c])
  <2>1. TAKE c \in Contracts
  <2>2. CASE c = h BY <2>2, <1>1, <1>3, <1>5, <1>7
  <2>3. CASE c # h BY <2>3, <1>1, <1>5
  <2> QED BY <2>2, <2>3
<1> QED BY <1>1, <1>6, <1>8, <1>9, <1>10, <1>11, <1>12, <1>13 DEF LedgerInv

\* What a process at the stage of creating sends fits what is there, and if it
\* saw all nothing else is under way.
LEMMA CreationFits ==
    ASSUME DeployInv, At("creating"), NEW h \in Contracts, h = Here,
           NEW lost \in 0 .. MaxFaults
    PROVE  LET a == Creation(h, lost)
           IN /\ a \in Application /\ a.code = output[h].client
              /\ Fits(apps[h], a)
              /\ a.view = "whole" => h \notin process.partial /\ pending[h] = {}
              /\ h \notin process.partial => pending[h] = {}
<1> DEFINE a == Creation(h, lost)
<1>1. output[h].client \in Versions
  BY DEF DeployInv, DeployTypeOK, StageInv, At, Here, Output
<1>2. /\ a.code = output[h].client /\ a.lost = lost
      /\ a.view = IF h \in process.partial THEN "partial" ELSE "whole"
      /\ a \in Application
  BY <1>1 DEF Creation, Application
<1> HIDE DEF a
<1>3. h \notin process.partial => Live(h) # output[h].client /\ pending[h] = {}
  BY DEF DeployInv, StageInv, At, Here
<1>4. Fits(apps[h], a)
  <2>1. CASE h \in process.partial BY <2>1, <1>2 DEF Fits
  <2>2. CASE h \notin process.partial
    <3>1. apps[h] \in Seq(Application) BY DEF DeployInv, DeployTypeOK
    <3>2. apps[h] # <<>> => Len(apps[h]) # 0 BY <3>1
    <3> QED BY <1>2, <1>3, <2>2, <3>2 DEF Fits, Live, CodeAt
  <2> QED BY <2>1, <2>2
<1> QED BY <1>2, <1>3, <1>4 DEF a

SameTask ==
    /\ process'.action = process.action /\ process'.chosen = process.chosen
    /\ process'.todo = process.todo /\ process'.loadable = process.loadable
    /\ process'.partial = process.partial

\* The process after a step that only moves it on.
LEMMA ProcessMoves ==
    ASSUME process \in Process
    PROVE  /\ \A stage \in Stages : Goto(stage) =>
                /\ process' \in Process /\ process'.at = stage
                /\ process'.contract = Here /\ SameTask
           /\ NextContract =>
                /\ process' \in Process /\ process'.at = "between"
                /\ process'.contract = Nothing /\ SameTask
<1>1. ASSUME NEW stage \in Stages, Goto(stage)
      PROVE  /\ process' \in Process /\ process'.at = stage
             /\ process'.contract = Here /\ SameTask
  BY <1>1 DEF Process, Goto, Here, SameTask
<1>2. "between" \in Stages BY DEF Stages
<1>3. ASSUME NextContract
      PROVE  /\ process' \in Process /\ process'.at = "between"
             /\ process'.contract = Nothing /\ SameTask
  BY <1>2, <1>3 DEF Process, NextContract, SameTask
<1> QED BY <1>1, <1>3

\* What has been dealt with stays so while the process keeps its task and lets go
\* of a contract only when it was shipped, or was not to be deployed.
LEMMA ProgressKept ==
    ASSUME ProgressInv, process \in Process, process.at # "idle",
           process'.action = process.action, process'.chosen = process.chosen,
           process'.loadable = process.loadable,
           NEW h, h = Here, process.todo \subseteq process'.todo \cup {process'.contract},
           \A b \in Contracts : b # h /\ Shipped(b) => Shipped(b)',
           \/ process'.contract = h
           \/ process.action = "build"
           \/ h \in process.loadable => Shipped(h)'
    PROVE  ProgressInv'
<1> SUFFICES ASSUME process'.action # "build",
                    NEW b \in process.chosen \cap process.loadable
             PROVE  b \in process'.todo \/ b = process'.contract \/ Shipped(b)'
  BY DEF ProgressInv, Here
<1>1. b \in Contracts BY DEF Process
<1>2. b \in process.todo \/ b = h \/ Shipped(b) BY DEF ProgressInv, Here
<1> QED BY <1>1, <1>2

\* An exception leaves nothing to say of the process.
LEMMA RaisedProcess ==
    ASSUME process' = Raised
    PROVE  /\ process' \in Process /\ StageInv' /\ ProgressInv'
           /\ (Here = Nothing)' = (process.at \in {"idle", "between", "done"})'
<1>1. process'.at = "idle" /\ process'.contract = Nothing /\ process'.todo = {}
      /\ process' \in Process
  BY DEF Raised, Idle, Process, Stages
<1> QED BY <1>1 DEF StageInv, ProgressInv, At, Here

\* The stages at which a contract is at hand.
LEMMA AtHand ==
    ASSUME DeployInv, process.at \notin {"idle", "between", "done"}
    PROVE  Here \in Contracts /\ Here # Nothing /\ Here \notin process.todo
BY DEF DeployInv, DeployTypeOK, StageInv, Here, Process

\* A step of the process on the contract at hand, of which it changes the folder
\* at most; what is left to check is said of that contract alone.
LEMMA StageStep ==
    ASSUME DeployInv, NEW h \in Contracts, h = Here, process.at # "idle",
           apps' = apps, pending' = pending, shown' = shown,
           source' = source, edits' = edits, faults' = faults,
           output' \in [Contracts -> Output],
           \A b \in Contracts \ {h} : output'[b] = output[b],
           output'[h].client # Nothing /\ output'[h].spec # Nothing =>
                output'[h].client = output'[h].spec,
           process' \in Process, SameTask,
           \/ process'.contract = h /\ process'.at \notin {"idle", "between", "done"}
           \/ /\ process'.contract = Nothing /\ process'.at = "between"
              /\ \/ process.action = "build"
                 \/ h \in process.loadable => Shipped(h) /\ output' = output,
           StageInv'
    PROVE  DeployInv'
<1>1. /\ LedgerInv' /\ \A c \in Contracts : Live(c)' = Live(c)
      /\ apps' \in [Contracts -> Seq(Application)]
      /\ pending' \in [Contracts -> SUBSET Application]
      /\ shown' \in [Contracts -> Nat] /\ \A c \in Contracts : shown'[c] <= Len(apps'[c])
  BY LedgerUnchanged DEF DeployInv
<1>2. SpecsAgree' BY DEF DeployInv, SpecsAgree
<1>3. \A b \in Contracts : (b # h \/ output' = output) /\ Shipped(b) => Shipped(b)'
  BY <1>1 DEF Shipped, SameTask
<1>4. DeployTypeOK'
  BY <1>1, DeploymentAssumption DEF DeployInv, DeployTypeOK, Here
<1>5. ProgressInv'
  BY <1>3, ProgressKept DEF DeployInv, DeployTypeOK, SameTask
<1> QED BY <1>1, <1>2, <1>4, <1>5 DEF DeployInv

\* A step that touches neither the folders nor the ledger.
LEMMA ProcessStep ==
    ASSUME DeployInv, UNCHANGED <<source, output, ledgerVars, edits>>,
           faults' \in 0 .. MaxFaults,
           process' \in Process, StageInv', ProgressInv',
           (Here = Nothing)' = (process.at \in {"idle", "between", "done"})'
    PROVE  DeployInv'
<1>1. apps' = apps /\ pending' = pending /\ shown' = shown /\ output' = output
      /\ source' = source /\ edits' = edits
  BY DEF ledgerVars
<1>2. LedgerInv' BY <1>1, LedgerUnchanged DEF DeployInv
<1>3. SpecsAgree' BY <1>1 DEF DeployInv, SpecsAgree
<1>4. DeployTypeOK' BY <1>1 DEF DeployInv, DeployTypeOK
<1> QED BY <1>2, <1>3, <1>4 DEF DeployInv

\* The steps of a process but for creating an application.
WorkStep ==
    \/ \E action \in {"build", "deploy", "all"}, chosen \in SUBSET Contracts,
          loadable \in SUBSET Contracts : Start(action, chosen, loadable)
    \/ \E c \in Contracts : StartBuild(c) \/ StartDeploy(c)
    \/ \E file \in {"spec", "client"} : RemoveFile(file)
    \/ FreshFolder \/ Compile \/ GenerateClient \/ AfterBuild
    \/ ImportClient \/ LookUp \/ Finish \/ StepFails

\* They keep the invariant.
LEMMA WorkStepKeeps ==
    ASSUME DeployInv, WorkStep
    PROVE  DeployInv'
<1> USE DeploymentAssumption
<1>a. /\ process \in Process /\ output \in [Contracts -> Output]
      /\ source \in [Contracts -> Versions] /\ faults \in 0 .. MaxFaults
  BY DEF DeployInv, DeployTypeOK
<1>b. {"removing", "compiling", "generating", "built", "importing", "lookingUp", "creating",
       "between", "idle", "done"} \subseteq Stages
  BY DEF Stages
<1>c. /\ Nothing \notin process.todo /\ process.todo \subseteq Contracts
      /\ process.chosen \subseteq Contracts
      /\ process.action \in {"build", "deploy", "all"}
  BY <1>a DEF Process
<1>1. ASSUME NEW action \in {"build", "deploy", "all"}, NEW chosen \in SUBSET Contracts,
             NEW loadable \in SUBSET Contracts, Start(action, chosen, loadable)
      PROVE  DeployInv'
  <2>1. /\ process' \in Process /\ process'.at = "between" /\ process'.contract = Nothing
        /\ process'.todo = chosen /\ process'.chosen = chosen
    BY <1>1, <1>b DEF Start, Idle, Process
  <2>2. StageInv' BY <2>1, <1>c DEF StageInv, At, Here
  <2>3. ProgressInv' BY <2>1 DEF ProgressInv, Here
  <2> QED BY <1>1, <1>a, <2>1, <2>2, <2>3, ProcessStep DEF Start, Here
<1>2. ASSUME Finish PROVE DeployInv'
  <2>1. /\ process' \in Process /\ process'.at = "done" /\ process'.contract = Here /\ SameTask
        /\ process.at = "between" /\ process.todo = {} /\ Here = Nothing
    BY <1>2, <1>a, <1>b, ProcessMoves DEF Finish, At, DeployInv, DeployTypeOK
  <2>2. StageInv' BY <2>1 DEF SameTask, StageInv, At, Here
  <2>3. \A b \in Contracts : Shipped(b) => Shipped(b)'
    BY <1>2, <2>1 DEF Finish, ledgerVars, Shipped, Live, CodeAt, SameTask
  <2>4. ProgressInv'
    BY <1>a, <2>1, <2>3, ProgressKept DEF DeployInv, SameTask, Here
  <2> QED BY <1>2, <1>a, <2>1, <2>2, <2>4, ProcessStep DEF Finish, Here
<1>3. ASSUME NEW c \in Contracts, StartBuild(c) PROVE DeployInv'
  <2>1. /\ process' \in Process /\ process'.at = "removing" /\ process'.contract = c
        /\ process'.todo = process.todo \ {c} /\ process'.action = process.action
        /\ process'.chosen = process.chosen /\ process'.loadable = process.loadable
        /\ process'.partial = process.partial
        /\ process.at = "between" /\ process.action # "deploy" /\ Here = Nothing
    BY <1>3, <1>a, <1>b DEF StartBuild, At, Process, DeployInv, DeployTypeOK
  <2>2. StageInv' BY <2>1 DEF StageInv, At, Here
  <2>3. \A b \in Contracts : Shipped(b) => Shipped(b)'
    BY <1>3, <2>1 DEF StartBuild, ledgerVars, Shipped, Live, CodeAt
  <2>4. ProgressInv'
    <3> SUFFICES ASSUME process.action # "build",
                        NEW b \in process.chosen \cap process.loadable
                 PROVE  b \in process'.todo \/ b = process'.contract \/ Shipped(b)'
      BY <2>1 DEF ProgressInv, Here
    <3>1. b \in Contracts BY <1>c
    <3>2. b \in process.todo \/ Shipped(b)
      BY <2>1, <3>1 DEF DeployInv, ProgressInv
    <3> QED BY <2>1, <2>3, <3>1, <3>2
  <2> QED BY <1>3, <1>a, <2>1, <2>2, <2>4, ProcessStep DEF StartBuild, Here
<1>4. ASSUME NEW c \in Contracts, StartDeploy(c) PROVE DeployInv'
  <2>1. CASE process' = Raised
    BY <1>4, <1>a, <2>1, RaisedProcess, ProcessStep DEF StartDeploy
  <2>2. CASE /\ output[c].spec # Nothing
             /\ process' = [process EXCEPT !.todo = @ \ {c},
                  !.at = IF c \in process.loadable THEN "importing" ELSE "between",
                  !.contract = IF c \in process.loadable THEN c ELSE Nothing]
    <3>1. /\ process' \in Process
          /\ process'.todo = process.todo \ {c}
          /\ process'.action = process.action /\ process'.chosen = process.chosen
          /\ process'.loadable = process.loadable /\ process'.partial = process.partial
          /\ \/ c \in process.loadable /\ process'.at = "importing"
                  /\ process'.contract = c
             \/ c \notin process.loadable /\ process'.at = "between"
                  /\ process'.contract = Nothing
      BY <1>a, <1>b, <2>2 DEF Process
    <3>2. process.at = "between" /\ Here = Nothing /\ output' = output
      BY <1>4 DEF StartDeploy, At, DeployInv, DeployTypeOK
    <3>3. output[c].client # Nothing => output[c].client = output[c].spec
      BY <2>2 DEF DeployInv, SpecsAgree
    <3>4. StageInv' BY <1>c, <3>1, <3>2, <3>3 DEF StageInv, At, Here
    <3>5. \A b \in Contracts : Shipped(b) => Shipped(b)'
      BY <1>4, <3>1 DEF StartDeploy, ledgerVars, Shipped, Live, CodeAt
    <3>6. ProgressInv'
      <4> SUFFICES ASSUME process.action # "build",
                          NEW b \in process.chosen \cap process.loadable
                   PROVE  b \in process'.todo \/ b = process'.contract \/ Shipped(b)'
        BY <3>1 DEF ProgressInv, Here
      <4>1. b \in Contracts BY <1>c
      <4>2. b \in process.todo \/ Shipped(b)
        BY <3>2, <4>1 DEF DeployInv, ProgressInv
      <4> QED BY <3>1, <3>5, <4>1, <4>2
    <3> QED BY <1>4, <1>a, <3>1, <3>4, <3>6, ProcessStep DEF StartDeploy, Here
  <2> QED BY <1>4, <2>1, <2>2 DEF StartDeploy
<1>5. ASSUME NEW file \in {"spec", "client"}, RemoveFile(file) PROVE DeployInv'
  <2>1. PICK h \in Contracts : h = Here /\ h # Nothing /\ h \notin process.todo
    BY <1>5, AtHand DEF RemoveFile, At
  <2>2. /\ output' \in [Contracts -> Output]
        /\ \A b \in Contracts \ {h} : output'[b] = output[b]
        /\ output'[h].client = Nothing \/ output'[h].spec = Nothing
    BY <1>5, <1>a, <2>1 DEF RemoveFile, Output
  <2>3. /\ process' = process /\ process.at = "removing" /\ SameTask
    BY <1>5 DEF RemoveFile, At, SameTask
  <2>4. StageInv' BY <2>1, <2>3 DEF DeployInv, StageInv, At, Here
  <2> QED BY <1>5, <1>a, <2>1, <2>2, <2>3, <2>4, StageStep DEF RemoveFile, ledgerVars, Here
<1>6. ASSUME FreshFolder PROVE DeployInv'
  <2>1. PICK h \in Contracts : h = Here /\ h # Nothing /\ h \notin process.todo
    BY <1>6, AtHand DEF FreshFolder, At
  <2>2. /\ process' \in Process /\ process'.at = "compiling" /\ process'.contract = h
        /\ SameTask /\ process.at = "removing" /\ output[h] = NoOutput /\ output' = output
    BY <1>6, <1>a, <1>b, <2>1, ProcessMoves DEF FreshFolder, At, Cleared
  <2>3. StageInv' BY <2>1, <2>2 DEF DeployInv, StageInv, SameTask, At, Here
  <2>4. output[h].client = Nothing BY <2>2 DEF NoOutput
  <2> QED BY <1>6, <1>a, <2>1, <2>2, <2>3, <2>4, StageStep DEF FreshFolder, ledgerVars
<1>7. ASSUME Compile PROVE DeployInv'
  <2>1. PICK h \in Contracts : h = Here /\ h # Nothing /\ h \notin process.todo
    BY <1>7, AtHand DEF Compile, At
  <2>2. output[h] = NoOutput /\ process.at = "compiling" /\ process.action # "deploy"
    BY <1>7, <2>1 DEF Compile, At, DeployInv, StageInv
  <2>3. /\ process' \in Process /\ process'.contract = h /\ SameTask
        /\ \/ process'.at = "built" /\ output' = output
           \/ /\ process'.at = "generating"
              /\ output' = [output EXCEPT ![h].spec = source[h]]
    BY <1>7, <1>a, <1>b, <2>1, ProcessMoves DEF Compile
  <2>4. /\ output' \in [Contracts -> Output]
        /\ \A b \in Contracts \ {h} : output'[b] = output[b]
        /\ output'[h].client = Nothing
        /\ process'.at = "built" => output'[h].spec = Nothing
        /\ process'.at = "generating" => output'[h].spec # Nothing
    BY <1>a, <2>1, <2>2, <2>3 DEF NoOutput, Output
  <2>5. StageInv' BY <2>1, <2>2, <2>3, <2>4 DEF DeployInv, StageInv, SameTask, At, Here
  <2> QED BY <1>7, <2>1, <2>2, <2>3, <2>4, <2>5, StageStep DEF Compile, ledgerVars
<1>8. ASSUME GenerateClient PROVE DeployInv'
  <2>1. PICK h \in Contracts : h = Here /\ h # Nothing /\ h \notin process.todo
    BY <1>8, AtHand DEF GenerateClient, At
  <2>2. process.at = "generating" /\ process.action # "deploy"
    BY <1>8 DEF GenerateClient, At, DeployInv, StageInv
  <2>3. /\ process' \in Process /\ process'.contract = h /\ SameTask /\ process'.at = "built"
        /\ output' = [output EXCEPT ![h].client = output[h].spec]
    BY <1>8, <1>a, <1>b, <2>1, ProcessMoves DEF GenerateClient
  <2>4. /\ output' \in [Contracts -> Output]
        /\ \A b \in Contracts \ {h} : output'[b] = output[b]
        /\ output'[h].client = output'[h].spec
    BY <1>a, <2>1, <2>3 DEF Output
  <2>5. StageInv' BY <2>1, <2>2, <2>3, <2>4 DEF DeployInv, StageInv, SameTask, At, Here
  <2> QED BY <1>8, <2>1, <2>2, <2>3, <2>4, <2>5, StageStep DEF GenerateClient, ledgerVars
<1>9. ASSUME AfterBuild PROVE DeployInv'
  <2>1. PICK h \in Contracts : h = Here /\ h # Nothing /\ h \notin process.todo
    BY <1>9, AtHand DEF AfterBuild, At
  <2>2. /\ process.at = "built" /\ process.action # "deploy"
        /\ output[h].client = output[h].spec /\ output' = output
    BY <1>9, <2>1 DEF AfterBuild, At, DeployInv, StageInv
  <2>3. /\ process' \in Process /\ SameTask
        /\ \/ process'.at = "importing" /\ process'.contract = h
           \/ /\ process'.at = "between" /\ process'.contract = Nothing
              /\ process.action = "build" \/ h \notin process.loadable
    BY <1>9, <1>a, <1>b, <1>c, <2>1, <2>2, ProcessMoves DEF AfterBuild
  <2>4. StageInv' BY <1>c, <2>1, <2>2, <2>3 DEF DeployInv, StageInv, SameTask, At, Here
  <2> QED BY <1>9, <1>a, <2>1, <2>2, <2>3, <2>4, StageStep DEF AfterBuild, ledgerVars
<1>10. ASSUME ImportClient PROVE DeployInv'
  <2>1. PICK h \in Contracts : h = Here /\ h # Nothing /\ h \notin process.todo
    BY <1>10, AtHand DEF ImportClient, At
  <2>2. CASE process' = Raised
    BY <1>10, <1>a, <2>2, RaisedProcess, ProcessStep DEF ImportClient
  <2>3. CASE Goto("lookingUp") /\ output[h].client # Nothing
    <3>1. /\ process' \in Process /\ process'.at = "lookingUp" /\ SameTask
          /\ process'.contract = h /\ process.at = "importing" /\ output' = output
          /\ output[h].client = output[h].spec
      BY <1>10, <1>a, <1>b, <2>1, <2>3, ProcessMoves
         DEF ImportClient, DeployInv, StageInv, At
    <3>2. StageInv' BY <2>1, <2>3, <3>1 DEF SameTask, DeployInv, StageInv, At, Here
    <3> QED BY <1>10, <1>a, <2>1, <3>1, <3>2, StageStep DEF ImportClient, ledgerVars
  <2> QED BY <1>10, <2>1, <2>2, <2>3 DEF ImportClient, Importable
<1>11. ASSUME LookUp PROVE DeployInv'
  <2>1. PICK h \in Contracts : h = Here /\ h # Nothing /\ h \notin process.todo
    BY <1>11, AtHand DEF LookUp, At
  <2>2. /\ process.at = "lookingUp" /\ output' = output /\ apps' = apps
        /\ pending' = pending /\ shown' = shown
        /\ output[h].client # Nothing /\ output[h].client = output[h].spec
    BY <1>11, <2>1 DEF LookUp, ledgerVars, At, DeployInv, StageInv
  <2>3. /\ process' \in Process
        /\ process'.action = process.action /\ process'.chosen = process.chosen
        /\ process'.todo = process.todo /\ process'.loadable = process.loadable
        /\ process'.partial = NowPartial(h)
        /\ \/ process'.at = "creating" /\ process'.contract = h /\ NeedsApp(h)
           \/ process'.at = "between" /\ process'.contract = Nothing /\ ~NeedsApp(h)
    BY <1>11, <1>a, <1>b, <2>1 DEF LookUp, Process, NowPartial
  <2>4. h \notin process'.partial => pending[h] = {} /\ ShownLive(h) = Live(h)
    BY <2>3 DEF NowPartial, AllShown, ShownLive, Live
  <2>5. Live(h)' = Live(h) /\ \A b \in Contracts : Live(b)' = Live(b)
    BY <2>2 DEF Live, CodeAt
  <2>6. \A b \in Contracts : b # h /\ Shipped(b) => Shipped(b)'
    BY <2>2, <2>3, <2>5 DEF Shipped, NowPartial
  <2>7. process'.at = "between" => Shipped(h)'
    BY <2>2, <2>3, <2>4, <2>5 DEF Shipped, NeedsApp
  <2>8. StageInv'
    BY <1>c, <2>1, <2>2, <2>3, <2>4, <2>5 DEF StageInv, NeedsApp, At, Here
  <2>9. ProgressInv'
    BY <1>a, <2>1, <2>2, <2>3, <2>6, <2>7, ProgressKept DEF DeployInv
  <2> QED BY <1>11, <1>a, <2>1, <2>3, <2>8, <2>9, ProcessStep DEF LookUp, Here
<1>12. ASSUME StepFails PROVE DeployInv'
  BY <1>12, <1>a, RaisedProcess, ProcessStep DEF StepFails, Faulty, DeployInv, DeployTypeOK
<1> QED
  BY <1>1, <1>2, <1>3, <1>4, <1>5, <1>6, <1>7, <1>8, <1>9, <1>10, <1>11, <1>12
  DEF WorkStep

\* Creating an application keeps the invariant: it is the live one of its
\* contract, and if the run saw all nothing is under way that could follow it.
LEMMA CreateKeeps == ASSUME DeployInv, Create PROVE DeployInv'
<1> USE DeploymentAssumption
<1>1. PICK h \in Contracts : h = Here /\ h # Nothing /\ h \notin process.todo
  BY AtHand DEF Create, At
<1> DEFINE a == Creation(h, 0)
<1>2. 0 \in 0 .. MaxFaults OBVIOUS
<1>3. /\ a \in Application /\ a.code = output[h].client /\ Fits(apps[h], a)
      /\ a.view = "whole" => h \notin process.partial /\ pending[h] = {}
      /\ h \notin process.partial => pending[h] = {}
  BY <1>1, <1>2, CreationFits DEF Create
<1>4. /\ process \in Process /\ pending \in [Contracts -> SUBSET Application]
  BY DEF DeployInv, DeployTypeOK
<1>5. /\ AppendApp(h, a) /\ output' = output /\ pending' = pending /\ shown' = shown
      /\ source' = source /\ edits' = edits /\ faults' = faults /\ At("creating")
      /\ NextContract
  BY <1>1 DEF Create
<1>6. pending' = [pending EXCEPT ![h] = pending[h]] /\ pending[h] \in SUBSET pending[h]
  BY <1>4, <1>5
<1>7. \A b \in pending[h] : "partial" \in {a.view, b.view}
  BY <1>3 DEF Application
<1> HIDE DEF a
<1>8. /\ LedgerInv'
      /\ apps' \in [Contracts -> Seq(Application)]
      /\ pending' \in [Contracts -> SUBSET Application]
      /\ shown' \in [Contracts -> Nat] /\ \A c \in Contracts : shown'[c] <= Len(apps'[c])
      /\ Live(h)' = a.code
      /\ \A c \in Contracts \ {h} : Live(c)' = Live(c)
  <2> DEFINE left == pending[h]
  <2>1. /\ left \in SUBSET pending[h] /\ \A b \in left : "partial" \in {a.view, b.view}
        /\ pending' = [pending EXCEPT ![h] = left]
    BY <1>6, <1>7
  <2>2. /\ a \in Application /\ Fits(apps[h], a) /\ AppendApp(h, a) /\ shown' = shown
    BY <1>3, <1>5
  <2> HIDE DEF left
  <2> QED BY <2>1, <2>2, AppendStep
<1>9. /\ process' \in Process /\ process'.at = "between" /\ process'.contract = Nothing
      /\ SameTask /\ process.at = "creating"
  BY <1>4, <1>5, ProcessMoves DEF At
<1>10. output[h].client # Nothing
  BY <1>1, <1>5 DEF DeployInv, StageInv, At
<1>11. Shipped(h)'
  BY <1>3, <1>5, <1>8, <1>9, <1>10 DEF Shipped, SameTask
<1>12. \A b \in Contracts : b # h /\ Shipped(b) => Shipped(b)'
  BY <1>5, <1>8, <1>9 DEF Shipped, SameTask
<1>13. StageInv'
  BY <1>4, <1>9 DEF StageInv, SameTask, At, Here, Process
<1>14. ProgressInv'
  BY <1>1, <1>4, <1>9, <1>11, <1>12, ProgressKept DEF DeployInv, SameTask
<1>15. DeployTypeOK' /\ SpecsAgree'
  BY <1>5, <1>8, <1>9 DEF DeployInv, DeployTypeOK, SpecsAgree, Here
<1> QED BY <1>8, <1>13, <1>14, <1>15 DEF DeployInv

\* A creation sent, of which nothing is heard.
LEMMA AnswerLostKeeps == ASSUME DeployInv, AnswerLost PROVE DeployInv'
<1> USE DeploymentAssumption
<1>1. PICK h \in Contracts : h = Here /\ h # Nothing
  BY AtHand DEF AnswerLost, At
<1> DEFINE a == Creation(h, faults + 1)
<1>2. faults + 1 \in 0 .. MaxFaults /\ faults' \in 0 .. MaxFaults
  BY DEF AnswerLost, Faulty, DeployInv, DeployTypeOK
<1>3. /\ a \in Application /\ Fits(apps[h], a)
      /\ a.view = "whole" => h \notin process.partial /\ pending[h] = {}
  BY <1>1, <1>2, CreationFits DEF AnswerLost
<1>4. pending \in [Contracts -> SUBSET Application] BY DEF DeployInv, DeployTypeOK
<1>5. /\ pending' = [pending EXCEPT ![h] = pending[h] \cup {a}]
      /\ output' = output /\ apps' = apps /\ shown' = shown
      /\ source' = source /\ edits' = edits /\ process' = Raised
  BY <1>1, <1>4 DEF AnswerLost
<1> HIDE DEF a
<1>6. /\ pending' \in [Contracts -> SUBSET Application]
      /\ pending'[h] = pending[h] \cup {a}
      /\ \A c \in Contracts \ {h} : pending'[c] = pending[c]
  BY <1>3, <1>4, <1>5
<1>7. PendingInv'
  <2>1. ASSUME NEW c \in Contracts, NEW b \in pending'[c]
        PROVE  /\ Fits(apps'[c], b)
               /\ \A d \in pending'[c] : b.view = "whole" /\ d.view = "whole" => b = d
    <3>1. CASE c = h
      BY <2>1, <3>1, <1>3, <1>5, <1>6 DEF DeployInv, LedgerInv, PendingInv
    <3>2. CASE c # h
      BY <2>1, <3>2, <1>5, <1>6 DEF DeployInv, LedgerInv, PendingInv
    <3> QED BY <3>1, <3>2
  <2> QED BY <2>1 DEF PendingInv
<1>8. TwinsOnlyUnseen' BY <1>5 DEF DeployInv, LedgerInv, TwinsOnlyUnseen
<1>9. DeployTypeOK' /\ SpecsAgree'
  BY <1>2, <1>5, <1>6, RaisedProcess DEF DeployInv, DeployTypeOK, SpecsAgree
<1> QED BY <1>5, <1>7, <1>8, <1>9, RaisedProcess DEF DeployInv, LedgerInv

\* While the ledger, the indexer and the developers move, the process stands.
LEMMA ProcessStands ==
    ASSUME DeployInv, process' = process, output' = output,
           \A c \in Contracts : pending[c] = {} => Live(c)' = Live(c) /\ pending'[c] = {}
    PROVE  StageInv' /\ ProgressInv'
<1>1. \A c \in Contracts : Shipped(c) => Shipped(c)'
  BY DEF Shipped
<1>2. ProgressInv'
  BY <1>1 DEF DeployInv, DeployTypeOK, ProgressInv, Process, Here
<1>3. At("creating") => Here \in Contracts
  BY AtHand DEF At
<1>4. At("creating") /\ Here \notin process.partial =>
        Live(Here)' # output[Here].client /\ pending'[Here] = {}
  <2>1. SUFFICES ASSUME At("creating"), Here \notin process.partial
                 PROVE  Live(Here)' # output[Here].client /\ pending'[Here] = {}
    OBVIOUS
  <2>2. Live(Here) # output[Here].client /\ pending[Here] = {}
    BY <2>1 DEF DeployInv, StageInv
  <2>3. PICK h \in Contracts : h = Here BY <1>3, <2>1
  <2>4. Live(h)' = Live(h) /\ pending'[h] = {} BY <2>2, <2>3
  <2>5. Here' = h BY <2>3 DEF Here
  <2> QED BY <2>2, <2>3, <2>4, <2>5
<1>5. StageInv'
  BY <1>4 DEF DeployInv, StageInv, At, Here
<1> QED BY <1>2, <1>5

\* A creation under way that reaches the ledger follows what is there, and what
\* else is under way may follow it.
LEMMA ConfirmKeeps ==
    ASSUME DeployInv, NEW c \in Contracts, NEW a \in pending[c], Confirm(c, a)
    PROVE  DeployInv'
<1> DEFINE left == pending[c] \ {a}
<1>1. /\ pending \in [Contracts -> SUBSET Application] /\ a \in Application
      /\ Fits(apps[c], a)
      /\ \A b \in pending[c] : a.view = "whole" /\ b.view = "whole" => a = b
  BY DEF DeployInv, DeployTypeOK, LedgerInv, PendingInv
<1>2. /\ left \in SUBSET pending[c] /\ \A b \in left : "partial" \in {a.view, b.view}
      /\ pending' = [pending EXCEPT ![c] = left]
  BY <1>1 DEF Confirm, Application
<1>3. /\ AppendApp(c, a) /\ shown' = shown /\ process' = process /\ output' = output
      /\ source' = source /\ edits' = edits /\ faults' = faults
  BY DEF Confirm
<1> HIDE DEF left
<1>4. /\ LedgerInv'
      /\ apps' \in [Contracts -> Seq(Application)]
      /\ pending' \in [Contracts -> SUBSET Application]
      /\ shown' \in [Contracts -> Nat] /\ \A b \in Contracts : shown'[b] <= Len(apps'[b])
      /\ \A b \in Contracts \ {c} : Live(b)' = Live(b) /\ pending'[b] = pending[b]
  BY <1>1, <1>2, <1>3, AppendStep
<1>5. pending[c] # {} OBVIOUS
<1>6. StageInv' /\ ProgressInv' BY <1>3, <1>4, <1>5, ProcessStands
<1>7. DeployTypeOK' /\ SpecsAgree'
  BY <1>3, <1>4 DEF DeployInv, DeployTypeOK, SpecsAgree, Here
<1> QED BY <1>4, <1>6, <1>7 DEF DeployInv

\* One that expires, an indexer that follows, a source that is edited.
LEMMA OtherStepsKeep ==
    ASSUME DeployInv, NEW c \in Contracts,
           \/ \E a \in pending[c] : Expire(c, a)
           \/ \E n \in 1 .. Len(apps[c]) : IndexerFollows(c, n)
           \/ \E v \in Versions : Edit(c, v)
    PROVE  DeployInv'
<1>1. /\ pending \in [Contracts -> SUBSET Application] /\ shown \in [Contracts -> Nat]
      /\ source \in [Contracts -> Versions] /\ edits \in 0 .. MaxEdits
      /\ apps \in [Contracts -> Seq(Application)]
      /\ \A b \in Contracts : shown[b] <= Len(apps[b])
  BY DEF DeployInv, DeployTypeOK
<1>2. apps' = apps /\ process' = process /\ output' = output /\ faults' = faults
  BY DEF Expire, IndexerFollows, Edit, ledgerVars
<1>3. /\ pending' \in [Contracts -> SUBSET Application]
      /\ \A b \in Contracts : pending'[b] \subseteq pending[b]
  BY <1>1 DEF Expire, IndexerFollows, Edit, ledgerVars
<1>4. shown' \in [Contracts -> Nat] /\ \A b \in Contracts : shown'[b] <= Len(apps[b])
  <2>1. CASE shown' = shown BY <1>1, <2>1
  <2>2. ASSUME NEW n \in 1 .. Len(apps[c]), IndexerFollows(c, n)
        PROVE  shown' \in [Contracts -> Nat] /\ \A b \in Contracts : shown'[b] <= Len(apps[b])
    <3>1. n \in Nat /\ n <= Len(apps[c]) BY <1>1
    <3>2. shown' = [shown EXCEPT ![c] = n] BY <2>2 DEF IndexerFollows
    <3> QED BY <1>1, <3>1, <3>2
  <2> QED BY <2>1, <2>2 DEF Expire, Edit, ledgerVars
<1>5. source' \in [Contracts -> Versions] /\ edits' \in 0 .. MaxEdits
  <2>1. CASE source' = source /\ edits' = edits BY <1>1, <2>1
  <2>2. ASSUME NEW v \in Versions, Edit(c, v)
        PROVE  source' \in [Contracts -> Versions] /\ edits' \in 0 .. MaxEdits
    <3>1. source' = [source EXCEPT ![c] = v] /\ edits < MaxEdits /\ edits' = edits + 1
      BY <2>2 DEF Edit
    <3> QED BY <1>1, <3>1, DeploymentAssumption
  <2> QED BY <2>1, <2>2 DEF Expire, IndexerFollows
<1>6. LedgerInv'
  BY <1>2, <1>3 DEF DeployInv, LedgerInv, TwinsOnlyUnseen, PendingInv
<1>7. \A b \in Contracts : Live(b)' = Live(b) BY <1>2 DEF Live, CodeAt
<1>8. StageInv' /\ ProgressInv' BY <1>2, <1>3, <1>7, ProcessStands
<1>9. DeployTypeOK' /\ SpecsAgree'
  BY <1>1, <1>2, <1>3, <1>4, <1>5 DEF DeployInv, DeployTypeOK, SpecsAgree, Here
<1> QED BY <1>6, <1>8, <1>9 DEF DeployInv

\* Every step keeps the invariant.
LEMMA StepDeployInv == DeployInv /\ [DeployNext]_deployVars => DeployInv'
<1> SUFFICES ASSUME DeployInv, [DeployNext]_deployVars PROVE DeployInv'
  OBVIOUS
<1>1. {Contracts, {}} \cup {{c} : c \in Contracts} \subseteq SUBSET Contracts
  OBVIOUS
<1>2. CASE WorkStep BY <1>2, WorkStepKeeps
<1>3. CASE Create BY <1>3, CreateKeeps
<1>4. CASE AnswerLost BY <1>4, AnswerLostKeeps
<1>5. ASSUME NEW c \in Contracts, NEW a \in pending[c], Confirm(c, a) PROVE DeployInv'
  BY <1>5, ConfirmKeeps
<1>6. ASSUME NEW c \in Contracts,
             \/ \E a \in pending[c] : Expire(c, a)
             \/ \E n \in 1 .. Len(apps[c]) : IndexerFollows(c, n)
             \/ \E v \in Versions : Edit(c, v)
      PROVE  DeployInv'
  BY <1>6, OtherStepsKeep
<1>7. CASE UNCHANGED deployVars
  BY <1>7 DEF deployVars, DeployInv, DeployTypeOK, SpecsAgree, LedgerInv, TwinsOnlyUnseen,
     PendingInv, StageInv, ProgressInv, Shipped, Live, CodeAt, At, Here
<1>8. DeployNext =>
        \/ WorkStep \/ Create \/ AnswerLost
        \/ \E c \in Contracts : \E a \in pending[c] : Confirm(c, a)
        \/ \E c \in Contracts :
            \/ \E a \in pending[c] : Expire(c, a)
            \/ \E n \in 1 .. Len(apps[c]) : IndexerFollows(c, n)
            \/ \E v \in Versions : Edit(c, v)
  BY <1>1 DEF DeployNext, WorkStep
<1> QED BY <1>2, <1>3, <1>4, <1>5, <1>6, <1>7, <1>8

-----------------------------------------------------------------------------
LEMMA DeployInvariant == DeploySpec => []DeployInv
<1> QED BY InitDeployInv, StepDeployInv, PTL DEF DeploySpec

\* The folders, the applications and the process always have their shape.
THEOREM DeployTypeCorrect == DeploySpec => []DeployTypeOK
<1>1. DeployInv => DeployTypeOK BY DEF DeployInv
<1> QED BY <1>1, DeployInvariant, PTL

\* The client that deploy ships was generated from the specification that deploy
\* looked for, whatever build failed or was stopped before, the clearing of the
\* folder included.
THEOREM SpecAndClientCorrect == DeploySpec => []SpecAndClientAgree
<1>1. DeployInv => SpecAndClientAgree
  BY DEF DeployInv, SpecsAgree, StageInv, SpecAndClientAgree
<1> QED BY <1>1, DeployInvariant, PTL

\* However far the indexer is behind and whatever creations are under way: the
\* same code is created twice in a row only by a run that did not see all.
THEOREM TwinsOnlyUnseenHolds == DeploySpec => []TwinsOnlyUnseen
<1>1. DeployInv => TwinsOnlyUnseen BY DEF DeployInv, LedgerInv
<1> QED BY <1>1, DeployInvariant, PTL

\* A deployment that ended without an exception and saw all there was is live as
\* built.
THEOREM FinishedIsLive == DeploySpec => []FinishedDeployIsLive
<1>1. ASSUME DeployInv, At("done"), process.action # "build",
             NEW c \in process.chosen \cap process.loadable
      PROVE  Shipped(c)
  <2>1. c \in Contracts BY <1>1 DEF DeployInv, DeployTypeOK, Process
  <2>2. Here = Nothing /\ process.todo = {} /\ process.at # "idle"
    BY <1>1 DEF DeployInv, DeployTypeOK, StageInv, At
  <2>3. c # Nothing BY <2>1, DeploymentAssumption
  <2> QED BY <1>1, <2>2, <2>3 DEF DeployInv, ProgressInv
<1>2. DeployInv => FinishedDeployIsLive BY <1>1 DEF FinishedDeployIsLive, Shipped
<1> QED BY <1>2, DeployInvariant, PTL

\* No step of a build, a deployment or the ledger removes or replaces an
\* application.
THEOREM OldAppsKept == DeploySpec => OldAppsStay
<1> DEFINE Stay ==
    \A c \in Contracts :
        /\ Len(apps[c]) <= Len(apps'[c])
        /\ \A n \in 1 .. Len(apps[c]) : apps'[c][n] = apps[c][n]
<1>1. ASSUME DeployInv, [DeployNext]_deployVars PROVE [Stay]_deployVars
  <2>1. apps \in [Contracts -> Seq(Application)] BY <1>1 DEF DeployInv, DeployTypeOK
  <2>2. CASE apps' = apps
    <3>1. \A c \in Contracts : Len(apps[c]) \in Nat BY <2>1
    <3> QED BY <2>2, <3>1
  <2>3. ASSUME NEW h \in Contracts, NEW a, AppendApp(h, a) PROVE Stay
    <3>1. apps' = [apps EXCEPT ![h] = Append(apps[h], a)] BY <2>3 DEF AppendApp
    <3>2. TAKE c \in Contracts
    <3>3. apps[c] \in Seq(Application) /\ Len(apps[c]) \in Nat BY <2>1
    <3>4. CASE c = h
      <4>1. apps'[c] = Append(apps[c], a) BY <2>1, <3>1, <3>4
      <4>2. /\ Len(Append(apps[c], a)) = Len(apps[c]) + 1
            /\ \A n \in 1 .. Len(apps[c]) : Append(apps[c], a)[n] = apps[c][n]
        BY <3>3
      <4> QED BY <3>3, <4>1, <4>2
    <3>5. CASE c # h BY <2>1, <3>1, <3>3, <3>5
    <3> QED BY <3>4, <3>5
  <2>4. CASE Create
    <3>1. PICK h \in Contracts : h = Here BY <1>1, <2>4, AtHand DEF Create, At
    <3> QED BY <2>3, <2>4, <3>1 DEF Create
  <2>5. ASSUME NEW c \in Contracts, NEW a \in pending[c], Confirm(c, a) PROVE Stay
    BY <2>3, <2>5 DEF Confirm
  <2>6. DeployNext =>
            \/ apps' = apps \/ Create
            \/ \E c \in Contracts : \E a \in pending[c] : Confirm(c, a)
    BY DEF DeployNext, ledgerVars, Start, StartBuild, StartDeploy, RemoveFile, FreshFolder,
       Compile, GenerateClient, AfterBuild, ImportClient, LookUp, Finish, StepFails,
       AnswerLost, Expire, IndexerFollows, Edit
  <2>7. CASE UNCHANGED deployVars BY <2>7
  <2> HIDE DEF Stay
  <2> QED BY <1>1, <2>2, <2>4, <2>5, <2>6, <2>7
<1> QED BY <1>1, DeployInvariant, PTL DEF DeploySpec, OldAppsStay
=============================================================================
