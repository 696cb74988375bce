----------------------------- MODULE TypedClient -----------------------------
(***************************************************************************)
(* The generated clients at work: factories that create, update and delete *)
(* applications, clients bound to an application id that send calls, and   *)
(* composers that collect calls into a group the ledger runs whole or not  *)
(* at all.  What a method does once it is reached is the contract's        *)
(* business (AlgoPool); here a method may accept or refuse.                *)
(***************************************************************************)
EXTENDS ClientInterfaces, FiniteSets, TLC

CONSTANTS
    AppIds,      \* bound: the application ids a run can hand out
    Senders,     \* the accounts that sign calls
    MaxGroup     \* bound: the longest group composed

NoApp == "none"

ASSUME ClientAssumption ==
    /\ NoApp \notin AppIds /\ IsFiniteSet(AppIds)
    /\ MaxGroup \in Nat

VARIABLES
    apps,   \* the applications on the ledger, by id
    group   \* the composer in use and what was added to it

clientVars == <<apps, group>>

-----------------------------------------------------------------------------
(* Transactions. *)

Bare == Method("", <<>>, "void")

Txn(app, method, given, onCompletion, sender) ==
    [app |-> app, method |-> method, given |-> given,
     onCompletion |-> onCompletion, sender |-> sender]

\* A payment, or any transaction that is no application call.
Payment == Txn(NoApp, Bare, 0, "none", "anyone")

\* What a client's params say of a method; the arguments class is opened
\* into the list of its fields.
ParamsCall(c, m, u) ==
    Txn(c.app, m, Fields(Client[c.kind].args, m), Client[c.kind].params[m], u)
BareCall(i, oc, u) == Txn(i, Bare, 0, oc, u)
ClearStateCall(c, u) == BareCall(c.app, "ClearState", u)

\* What create_transaction builds: the same calls, as finished transactions.
BuiltBy(c, u) ==
    {Txn(c.app, m, Fields(Client[c.kind].args, m), Client[c.kind].transactions[m],
         u) : m \in DOMAIN Client[c.kind].transactions}
    \cup {ClearStateCall(c, u)}

\* What the factories build: a bare create, update or delete, and creates
\* through any ABI method.
BareCalls(u) ==
    {BareCall(NoApp, "NoOp", u)}
    \cup {BareCall(i, oc, u) :
            i \in DOMAIN apps, oc \in {"UpdateApplication", "DeleteApplication"}}
CreateCalls(k, u) ==
    {Txn(NoApp, m, Fields(Client[k].args, m), "NoOp", u) : m \in Client[k].creates}

-----------------------------------------------------------------------------
(* The approval program's router, and the ledger around it. *)

BareRouteAnyAction(t) == t.method = Bare
BareRoute(t) == t.method = Bare /\ t.onCompletion = "NoOp" /\ t.app = NoApp

MethodRoute(k, t) ==
    /\ t.method \in DOMAIN Program[k].routes
    /\ t.onCompletion = Program[k].routes[t.method]
    /\ t.app # NoApp
    /\ t.given = Len(t.method.args)

\* The clear-state program is the one that runs on ClearState; it approves.
Routed(k, t) == BareRoute(t) \/ MethodRoute(k, t) \/ t.onCompletion = "ClearState"

\* An account joins an application once, and leaves only if it joined.
Moves(items, j) ==
    {n \in 1 .. j - 1 : /\ items[n].app = items[j].app
                        /\ items[n].sender = items[j].sender
                        /\ items[n].onCompletion \in {"OptIn", "ClearState"}}
LastOf(S) == CHOOSE n \in S : \A o \in S : o <= n
IsMember(i, u) == apps[i].local[u] # {}
MemberAt(items, j) ==
    IF Moves(items, j) = {} THEN IsMember(items[j].app, items[j].sender)
    ELSE items[LastOf(Moves(items, j))].onCompletion = "OptIn"

ItemRuns(items, j) ==
    LET t == items[j]
    IN \/ t = Payment
       \/ /\ t.app \in DOMAIN apps
          /\ Routed(apps[t.app].program, t)
          /\ t.onCompletion = "OptIn" => ~MemberAt(items, j)
          /\ t.onCompletion = "ClearState" => MemberAt(items, j)

\* Every router check the ledger makes of a group; the methods it reaches may
\* still refuse.
GroupRuns(items) == \A j \in DOMAIN items : ItemRuns(items, j)

\* What a group that ran leaves of the local state of u in application i.
LocalAfter(items, i, u) ==
    LET last == {n \in DOMAIN items : /\ items[n].app = i /\ items[n].sender = u
                                      /\ items[n].onCompletion \in {"OptIn", "ClearState"}}
    IN IF last = {} THEN apps[i].local[u]
       ELSE IF items[LastOf(last)].onCompletion = "OptIn"
            THEN Program[apps[i].program].optedIn ELSE {}

Execute(items) ==
    apps' = [i \in DOMAIN apps |->
        [apps[i] EXCEPT !.local = [u \in Senders |-> LocalAfter(items, i, u)]]]

NewApp(k) == [program |-> k, global |-> Program[k].created,
              local |-> [u \in Senders |-> {}]]

-----------------------------------------------------------------------------
(* Factories. *)

\* An application is created, its program replaced or the application removed,
\* as the call says, if the program it addresses lets the call through.
FactoryEffect(k, t) ==
    CASE t.onCompletion = "UpdateApplication" ->
            apps' = [apps EXCEPT ![t.app].program = k]
      [] t.onCompletion = "DeleteApplication" ->
            apps' = [i \in DOMAIN apps \ {t.app} |-> apps[i]]
      [] OTHER ->
            \E new \in AppIds \ DOMAIN apps :
                apps' = [i \in DOMAIN apps \cup {new} |->
                            IF i = new THEN NewApp(k) ELSE apps[i]]

FactorySend(k, t) ==
    /\ Routed(IF t.app = NoApp THEN k ELSE apps[t.app].program, t)
    /\ FactoryEffect(k, t)
    /\ UNCHANGED group

-----------------------------------------------------------------------------
(* Clients and composers. *)

Clients == [kind: Kinds, app: DOMAIN apps]
NoGroup == [client |-> [kind |-> "none", app |-> NoApp], items |-> <<>>]

\* client.send: one call, on its own.  A call that completes as NoOp leaves all
\* this module keeps as it was, so only the others are steps.
SentCall(c, m, u) ==
    [ParamsCall(c, m, u) EXCEPT !.onCompletion = Client[c.kind].sends[m]]

Send(c, m, u) ==
    /\ Client[c.kind].sends[m] # "NoOp"
    /\ LET one == <<SentCall(c, m, u)>>
       IN GroupRuns(one) /\ Execute(one)
    /\ UNCHANGED group

SendClearState(c, u) ==
    /\ LET one == <<ClearStateCall(c, u)>>
       IN GroupRuns(one) /\ Execute(one)
    /\ UNCHANGED group

\* new_group: a composer of the client, with nothing in it.
NewGroup(c) ==
    /\ group = NoGroup
    /\ group' = [NoGroup EXCEPT !.client = c]
    /\ UNCHANGED apps

Composing == group # NoGroup /\ Len(group.items) < MaxGroup

AddCall(t) == group' = [group EXCEPT !.items = Append(@, t)]

Compose(m, u) ==
    /\ Composing
    /\ AddCall([ParamsCall(group.client, m, u) EXCEPT
            !.onCompletion = Client[group.client.kind].composes[m]])
    /\ UNCHANGED apps

ComposeClearState(u) ==
    /\ Composing
    /\ AddCall(ClearStateCall(group.client, u))
    /\ UNCHANGED apps

\* add_transaction: a payment, or what create_transaction built.
ComposeTransaction(t) ==
    /\ Composing
    /\ AddCall(t)
    /\ UNCHANGED apps

SendGroup ==
    /\ group # NoGroup
    /\ GroupRuns(group.items)
    /\ Execute(group.items)
    /\ group' = NoGroup

\* Refused by the ledger, by a method it reaches, or dropped by its maker.
GroupFails ==
    /\ group # NoGroup
    /\ group' = NoGroup
    /\ UNCHANGED apps

AppSymmetry == Permutations(AppIds)

ClientInit == apps = [i \in {} |-> NewApp("pool")] /\ group = NoGroup

ClientNext ==
    \/ \E u \in Senders, k \in Kinds :
        \E t \in BareCalls(u) \cup CreateCalls(k, u) : FactorySend(k, t)
    \/ \E c \in Clients :
        \/ NewGroup(c)
        \/ \E u \in Senders :
            \/ SendClearState(c, u)
            \/ \E m \in DOMAIN Client[c.kind].sends : Send(c, m, u)
    \/ \E u \in Senders :
        \/ ComposeClearState(u)
        \/ Composing /\ \E m \in DOMAIN Client[group.client.kind].composes : Compose(m, u)
        \/ Composing /\ \E t \in {Payment} \cup BuiltBy(group.client, u) :
            ComposeTransaction(t)
    \/ SendGroup
    \/ GroupFails

ClientSpec == ClientInit /\ [][ClientNext]_clientVars

-----------------------------------------------------------------------------
(* Properties. *)

OwnClient(c) == c.app \in DOMAIN apps /\ apps[c.app].program = c.kind

\* Applications and the composer keep their shape.
ClientTypeOK ==
    /\ DOMAIN apps \subseteq AppIds
    /\ \A i \in DOMAIN apps :
        /\ apps[i].program \in Kinds
        /\ DOMAIN apps[i].local = Senders
    /\ Len(group.items) <= MaxGroup
    /\ group # NoGroup => group.client \in Clients

\* A client that was generated with the program it is bound to never builds a
\* call to it that the program's router turns away, neither into a group nor to
\* send it alone: same selector, same on-completion action, as many arguments
\* as the method reads.  (Of a factory's calls the router turns most away: see
\* AppsKept.)
OfferedCallsRouted ==
    /\ OwnClient(group.client) =>
        \A j \in DOMAIN group.items :
            group.items[j] = Payment \/ Routed(group.client.kind, group.items[j])
    /\ group = NoGroup =>
        \A c \in Clients, u \in Senders : OwnClient(c) =>
            \A m \in DOMAIN Client[c.kind].sends : Routed(c.kind, SentCall(c, m, u))

\* The typed readers of a client bound to its own program find every key they
\* promise: always in the global state, and in the local state of every
\* account that is opted in.
TypedStateWhole ==
    \A i \in DOMAIN apps :
        LET c == Client[apps[i].program]
        IN /\ c.global = apps[i].global
           /\ \A u \in Senders : apps[i].local[u] \in {{}, c.local}

\* Nothing the factories, clients and composers offer ever removes an
\* application, replaces its program or touches its global keys.
AppsKept ==
    [][\A i \in DOMAIN apps :
        /\ i \in DOMAIN apps'
        /\ apps'[i].program = apps[i].program
        /\ apps'[i].global = apps[i].global]_clientVars
=============================================================================
