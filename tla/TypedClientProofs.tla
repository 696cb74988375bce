-------------------------- MODULE TypedClientProofs --------------------------
(***************************************************************************)
(* For any number of applications, accounts and calls in a group: what the *)
(* generated clients build reaches the programs they were generated for,   *)
(* and the keys they read are those the programs keep.                     *)
(***************************************************************************)
EXTENDS TypedClient, TLAPS

-----------------------------------------------------------------------------
(* The tables.  A client and a program agree when they name the same       *)
(* methods, completed the same way, with as many arguments as the method   *)
(* reads, and the same keys.                                               *)

CallsAgree(c, p) ==
    /\ c.params = p.routes /\ c.transactions = p.routes
    /\ c.sends = p.routes /\ c.composes = p.routes
    /\ \A m \in DOMAIN p.routes :
        /\ p.routes[m] \in {"NoOp", "OptIn"}
        /\ Fields(c.args, m) = Len(m.args)

KeysAgree(c, p) == c.global = p.created /\ c.local = p.optedIn

\* Every method of a table completes as NoOp or OptIn.
LEMMA TablesComplete ==
    ASSUME NEW A
    PROVE  /\ \A m \in DOMAIN WithOptIn(A) : WithOptIn(A)[m] \in {"NoOp", "OptIn"}
           /\ \A m \in DOMAIN WithoutOptIn(A) : WithoutOptIn(A)[m] \in {"NoOp", "OptIn"}
           /\ DOMAIN WithOptIn(A) = A \cup {OptInMethod}
           /\ DOMAIN WithoutOptIn(A) = A
  BY DEF WithOptIn, WithoutOptIn

Reads(table, m) == Fields(table, m) = Len(m.args)

\* A method of no argument has no arguments class.
LEMMA NoArgument ==
    ASSUME NEW table, NEW name, NEW returns, name \notin DOMAIN table
    PROVE  Reads(table, Method(name, <<>>, returns))
  BY DEF Reads, Method, Fields

\* A method of one argument.
LEMMA OneArgument ==
    ASSUME NEW table, NEW name, NEW a, NEW returns,
           name \in DOMAIN table, table[name] = 1
    PROVE  Reads(table, Method(name, <<a>>, returns))
  BY DEF Reads, Method, Fields

\* A method of two arguments.
LEMMA TwoArguments ==
    ASSUME NEW table, NEW name, NEW a, NEW b, NEW returns,
           name \in DOMAIN table, table[name] = 2
    PROVE  Reads(table, Method(name, <<a, b>>, returns))
  BY DEF Reads, Method, Fields

\* A method of three arguments.
LEMMA ThreeArguments ==
    ASSUME NEW table, NEW name, NEW a, NEW b, NEW c, NEW returns,
           name \in DOMAIN table, table[name] = 3
    PROVE  Reads(table, Method(name, <<a, b, c>>, returns))
  BY DEF Reads, Method, Fields

\* A method of four arguments.
LEMMA FourArguments ==
    ASSUME NEW table, NEW name, NEW a, NEW b, NEW c, NEW d, NEW returns,
           name \in DOMAIN table, table[name] = 4
    PROVE  Reads(table, Method(name, <<a, b, c, d>>, returns))
  BY DEF Reads, Method, Fields

\* A method of five arguments.
LEMMA FiveArguments ==
    ASSUME NEW table, NEW name, NEW a, NEW b, NEW c, NEW d, NEW e, NEW returns,
           name \in DOMAIN table, table[name] = 5
    PROVE  Reads(table, Method(name, <<a, b, c, d, e>>, returns))
  BY DEF Reads, Method, Fields

\* The getters of a table that has them.
LEMMA GettersRead ==
    ASSUME NEW names, NEW table, \A n \in names : n \in DOMAIN table /\ table[n] = 1
    PROVE  \A m \in Getters(names) : Reads(table, m)
  BY OneArgument DEF Getters

\* The pool's client and program.
LEMMA PoolAgrees ==
    CallsAgree(Client["pool"], Program["pool"]) /\ KeysAgree(Client["pool"], Program["pool"])
  <1> DEFINE args == PoolArgs
             getters == {"get_user_shares", "get_active_loan", "get_due_amount", "get_due_ts",
                         "get_net_aura", "get_unsecured_credit_limit", "is_blacklisted"}
             calls == {Method("app_opt_in_usdc", <<>>, "void"),
                       Method("deposit", <<"uint64">>, "uint64"),
                       Method("admin_add_pool_liquidity", <<"uint64">>, "uint64"),
                       Method("withdraw", <<"uint64">>, "uint64"),
                       Method("request_collateral_loan",
                              <<"uint64", "uint64", "uint64", "uint64">>, "uint64"),
                       Method("request_unsecured_loan", <<"uint64", "uint64">>, "uint64"),
                       Method("repay", <<"uint64">>, "uint64"),
                       Method("liquidate_default", <<"address">>, "uint64"),
                       Method("get_pool", <<>>, "uint64"),
                       Method("get_total_shares", <<>>, "uint64"),
                       OptInMethod}
  <1>1. PoolParams = PoolRoutes
    BY DEF PoolParams, PoolRoutes
  <1>2. /\ \A n \in getters \cup {"deposit", "admin_add_pool_liquidity", "withdraw", "repay",
                  "liquidate_default"} : n \in DOMAIN args /\ args[n] = 1
        /\ "request_unsecured_loan" \in DOMAIN args /\ args["request_unsecured_loan"] = 2
        /\ "request_collateral_loan" \in DOMAIN args /\ args["request_collateral_loan"] = 4
        /\ \A n \in {"app_opt_in_usdc", "get_pool", "get_total_shares", "opt_in"} :
              n \notin DOMAIN args
    BY DEF PoolArgs
  <1>3. \A m \in DOMAIN PoolParams : Reads(args, m)
    <2> HIDE DEF args
    <2>1. \A m \in Getters(getters) : Reads(args, m)
      BY <1>2, GettersRead
    <2>2. \A m \in calls : Reads(args, m)
      BY <1>2, NoArgument, OneArgument, TwoArguments, FourArguments DEF OptInMethod
    <2>3. DOMAIN PoolParams \subseteq calls \cup Getters(getters)
      BY TablesComplete DEF PoolParams
    <2> QED
      BY <2>1, <2>2, <2>3
  <1> QED
    BY <1>1, <1>3, TablesComplete
       DEF CallsAgree, KeysAgree, Client, Program, PoolTransactions, PoolSends, PoolComposes,
           Reads, PoolParams, PoolGlobal, PoolCreated, PoolLocal,
           PoolOptedIn

\* The lending contract's client and program.
LEMMA LendingAgrees ==
    /\ CallsAgree(Client["lending"], Program["lending"])
    /\ KeysAgree(Client["lending"], Program["lending"])
  <1> DEFINE args == LendingArgs
             getters == {"get_active_loan", "get_due_amount", "get_due_ts",
                         "get_aura_earned", "get_aura_penalty", "get_net_aura",
                         "get_unsecured_credit_limit", "is_blacklisted"}
             calls == {Method("app_opt_in_usdc", <<>>, "void"),
                       Method("set_pool_address", <<"address">>, "void"),
                       Method("request_collateral_loan",
                              <<"uint64", "uint64", "uint64", "uint64", "uint64">>, "uint64"),
                       Method("request_unsecured_loan", <<"uint64", "uint64", "uint64">>,
                              "uint64"),
                       Method("repay", <<"uint64">>, "uint64"),
                       Method("liquidate_default", <<"address">>, "uint64"),
                       Method("get_pool_address", <<>>, "address"),
                       OptInMethod}
  <1>1. LendingParams = LendingRoutes
    BY DEF LendingParams, LendingRoutes
  <1>2. /\ \A n \in getters \cup {"set_pool_address", "repay", "liquidate_default"} :
              n \in DOMAIN args /\ args[n] = 1
        /\ "request_unsecured_loan" \in DOMAIN args /\ args["request_unsecured_loan"] = 3
        /\ "request_collateral_loan" \in DOMAIN args /\ args["request_collateral_loan"] = 5
        /\ \A n \in {"app_opt_in_usdc", "get_pool_address", "opt_in"} : n \notin DOMAIN args
    BY DEF LendingArgs
  <1>3. \A m \in DOMAIN LendingParams : Reads(args, m)
    <2> HIDE DEF args
    <2>1. \A m \in Getters(getters) : Reads(args, m)
      BY <1>2, GettersRead
    <2>2. \A m \in calls : Reads(args, m)
      BY <1>2, NoArgument, OneArgument, ThreeArguments, FiveArguments DEF OptInMethod
    <2>3. DOMAIN LendingParams \subseteq calls \cup Getters(getters)
      BY TablesComplete DEF LendingParams
    <2> QED
      BY <2>1, <2>2, <2>3
  <1> QED
    BY <1>1, <1>3, TablesComplete
       DEF CallsAgree, KeysAgree, Client, Program, LendingTransactions, LendingSends,
           LendingComposes, Reads, LendingParams, LendingGlobal,
           LendingCreated, LendingLocal, LendingOptedIn

\* The AURA contract's client and program.
LEMMA AuraAgrees ==
    CallsAgree(Client["aura"], Program["aura"]) /\ KeysAgree(Client["aura"], Program["aura"])
  <1> DEFINE args == AuraArgs
             getters == {"get_net_aura", "get_aura_earned", "get_aura_penalty",
                         "is_blacklisted"}
             calls == {Method("add_repayment_aura", <<"address", "uint64">>, "uint64"),
                       Method("add_default_penalty", <<"address", "uint64">>, "uint64"),
                       Method("blacklist_unsecured", <<"address">>, "uint64"),
                       OptInMethod}
  <1>1. AuraParams = AuraRoutes
    BY DEF AuraParams, AuraRoutes
  <1>2. /\ \A n \in getters \cup {"blacklist_unsecured"} : n \in DOMAIN args /\ args[n] = 1
        /\ \A n \in {"add_repayment_aura", "add_default_penalty"} :
              n \in DOMAIN args /\ args[n] = 2
        /\ "opt_in" \notin DOMAIN args
    BY DEF AuraArgs
  <1>3. \A m \in DOMAIN AuraParams : Reads(args, m)
    <2> HIDE DEF args
    <2>1. \A m \in Getters(getters) : Reads(args, m)
      BY <1>2, GettersRead
    <2>2. \A m \in calls : Reads(args, m)
      BY <1>2, NoArgument, OneArgument, TwoArguments DEF OptInMethod
    <2>3. DOMAIN AuraParams \subseteq calls \cup Getters(getters)
      BY TablesComplete DEF AuraParams
    <2> QED
      BY <2>1, <2>2, <2>3
  <1> QED
    BY <1>1, <1>3, TablesComplete
       DEF CallsAgree, KeysAgree, Client, Program, AuraTransactions, AuraSends, AuraComposes,
           Reads, AuraParams, AuraLocal, AuraOptedIn

\* The vault's client and program.
LEMMA VaultAgrees ==
    CallsAgree(Client["vault"], Program["vault"]) /\ KeysAgree(Client["vault"], Program["vault"])
  <1> DEFINE args == VaultArgs
             calls == {Method("deposit", <<"uint64">>, "void"),
                       Method("withdraw", <<"uint64">>, "void"),
                       Method("get_total_balance", <<>>, "uint64")}
  <1>1. VaultParams = VaultRoutes
    BY DEF VaultParams, VaultRoutes
  <1>2. /\ \A n \in {"deposit", "withdraw"} : n \in DOMAIN args /\ args[n] = 1
        /\ "get_total_balance" \notin DOMAIN args
    BY DEF VaultArgs
  <1>3. \A m \in DOMAIN VaultParams : Reads(args, m)
    <2> HIDE DEF args
    <2>1. \A m \in calls : Reads(args, m)
      BY <1>2, NoArgument, OneArgument
    <2>2. DOMAIN VaultParams \subseteq calls
      BY TablesComplete DEF VaultParams
    <2> QED
      BY <2>1, <2>2
  <1> QED
    BY <1>1, <1>3, TablesComplete
       DEF CallsAgree, KeysAgree, Client, Program, VaultTransactions, VaultSends,
           VaultComposes, Reads, VaultParams, VaultGlobal,
           VaultCreated

\* Every client agrees with the program it was generated for.
LEMMA ClientsAgree ==
    \A k \in Kinds : CallsAgree(Client[k], Program[k]) /\ KeysAgree(Client[k], Program[k])
  BY PoolAgrees, LendingAgrees, AuraAgrees, VaultAgrees DEF Kinds

-----------------------------------------------------------------------------
(* What the clients offer: calls the program of kind k lets through.       *)

Routes(k) == Program[k].routes
Reached(k) == DOMAIN Routes(k) \cup {Bare}

Txns(k) == [app: AppIds \cup {NoApp}, method: Reached(k),
            given: {Len(m.args) : m \in Reached(k)},
            onCompletion: {"NoOp", "OptIn", "ClearState", "none"},
            sender: Senders \cup {"anyone"}]

Offers(k) == {t \in Txns(k) : t = Payment \/ Routed(k, t)}

\* A method call with the arguments the client's class has for it.
MethodCall(k, i, m, u) == Txn(i, m, Fields(Client[k].args, m), Routes(k)[m], u)

\* Such a call is an offer.
LEMMA CallOffered ==
    ASSUME NEW k \in Kinds, NEW i \in AppIds, NEW m \in DOMAIN Routes(k), NEW u \in Senders
    PROVE  MethodCall(k, i, m, u) \in Offers(k)
  <1> DEFINE t == MethodCall(k, i, m, u)
  <1>1. /\ t.app = i /\ t.method = m /\ t.given = Fields(Client[k].args, m)
        /\ t.onCompletion = Routes(k)[m]
    BY DEF MethodCall, Txn
  <1>2. Fields(Client[k].args, m) = Len(m.args) /\ Routes(k)[m] \in {"NoOp", "OptIn"}
    BY ClientsAgree DEF CallsAgree, Routes
  <1>3. t \in Txns(k)
    BY <1>2 DEF MethodCall, Txn, Txns, Reached
  <1> HIDE DEF t
  <1>4. Routed(k, t)
    BY <1>1, <1>2, ClientAssumption DEF Routed, MethodRoute, Routes
  <1> QED
    BY <1>3, <1>4 DEF Offers, t

\* So are a payment and a clear-state call.
LEMMA OthersOffered ==
    ASSUME NEW k \in Kinds, NEW c, c.app \in AppIds, NEW u \in Senders
    PROVE  Payment \in Offers(k) /\ ClearStateCall(c, u) \in Offers(k)
  <1> DEFINE t == ClearStateCall(c, u)
  <1>1. t.onCompletion = "ClearState"
    BY DEF ClearStateCall, BareCall, Txn
  <1>2. 0 \in {Len(m.args) : m \in Reached(k)}
    <2>1. Bare \in Reached(k) /\ Len(Bare.args) = 0
      BY DEF Reached, Bare, Method
    <2> QED
      BY <2>1
  <1>3. t \in Txns(k) /\ Payment \in Txns(k)
    BY <1>2 DEF ClearStateCall, BareCall, Payment, Txn, Txns, Reached
  <1> HIDE DEF t
  <1>4. t \in Offers(k)
    BY <1>1, <1>3 DEF Offers, Routed
  <1>5. Payment \in Offers(k)
    BY <1>3 DEF Offers
  <1> QED
    BY <1>4, <1>5 DEF t

\* Whatever a client bound to an application can send or add is such an offer.
LEMMA ClientsOffer ==
    ASSUME NEW c, c.kind \in Kinds, c.app \in AppIds, NEW u \in Senders
    PROVE  /\ \A m \in DOMAIN Client[c.kind].sends : SentCall(c, m, u) \in Offers(c.kind)
           /\ \A m \in DOMAIN Client[c.kind].composes :
                [ParamsCall(c, m, u) EXCEPT !.onCompletion = Client[c.kind].composes[m]]
                  \in Offers(c.kind)
           /\ \A t \in {Payment} \cup BuiltBy(c, u) : t \in Offers(c.kind)
           /\ ClearStateCall(c, u) \in Offers(c.kind)
  <1> DEFINE k == c.kind
             Added(m) == [ParamsCall(c, m, u) EXCEPT !.onCompletion = Client[k].composes[m]]
  <1>1. /\ Client[k].params = Routes(k) /\ Client[k].transactions = Routes(k)
        /\ Client[k].sends = Routes(k) /\ Client[k].composes = Routes(k)
    BY ClientsAgree DEF CallsAgree, Routes
  <1>2. ASSUME NEW m \in DOMAIN Routes(k)
        PROVE  /\ SentCall(c, m, u) = MethodCall(k, c.app, m, u)
               /\ Added(m) = MethodCall(k, c.app, m, u)
    BY <1>1 DEF SentCall, ParamsCall, MethodCall, Txn
  <1>3. BuiltBy(c, u) = {MethodCall(k, c.app, m, u) : m \in DOMAIN Routes(k)}
                        \cup {ClearStateCall(c, u)}
    BY <1>1 DEF BuiltBy, MethodCall
  <1> HIDE DEF Added
  <1>4. \A m \in DOMAIN Routes(k) : MethodCall(k, c.app, m, u) \in Offers(k)
    BY CallOffered
  <1>5. \A m \in DOMAIN Client[k].sends : SentCall(c, m, u) \in Offers(k)
    BY <1>1, <1>2, <1>4, Zenon
  <1>6. \A m \in DOMAIN Client[k].composes : Added(m) \in Offers(k)
    BY <1>1, <1>2, <1>4, Zenon
  <1>7. \A t \in {Payment} \cup BuiltBy(c, u) : t \in Offers(k)
    BY <1>3, <1>4, OthersOffered
  <1> QED
    BY <1>5, <1>6, <1>7, OthersOffered DEF Added

-----------------------------------------------------------------------------
(* What every step keeps.                                                  *)

AppOf(k) == [program: {k}, global: {Program[k].created},
             local: [Senders -> {{}, Program[k].optedIn}]]

\* Every application is as the program it was created with made it, but for
\* the accounts that joined.
AppsInv ==
    /\ DOMAIN apps \subseteq AppIds
    /\ \A i \in DOMAIN apps : \E k \in Kinds : apps[i] \in AppOf(k)

GroupOf(k) == [client: [kind: {k}, app: AppIds], items: Seq(Offers(k))]

\* The composer holds what its client offers.
GroupInv ==
    \/ group = NoGroup
    \/ \E k \in Kinds :
        /\ group \in GroupOf(k) /\ group.client.app \in DOMAIN apps
        /\ Len(group.items) <= MaxGroup

ClientInv == AppsInv /\ GroupInv

\* The initial state.
LEMMA ClientInitInv == ClientInit => ClientInv
  BY DEF ClientInit, ClientInv, AppsInv, GroupInv

\* A group that runs changes who joined, and nothing else.
LEMMA ExecuteKeeps ==
    ASSUME AppsInv, NEW items, Execute(items)
    PROVE  /\ AppsInv' /\ DOMAIN apps' = DOMAIN apps
           /\ \A i \in DOMAIN apps : /\ apps'[i].program = apps[i].program
                                     /\ apps'[i].global = apps[i].global
  <1>1. DOMAIN apps' = DOMAIN apps
    BY DEF Execute
  <1>2. ASSUME NEW i \in DOMAIN apps, NEW k \in Kinds, apps[i] \in AppOf(k)
        PROVE  /\ apps'[i] \in AppOf(k) /\ apps'[i].program = apps[i].program
               /\ apps'[i].global = apps[i].global
    <2> DEFINE after == [u \in Senders |-> LocalAfter(items, i, u)]
    <2>1. apps'[i] = [apps[i] EXCEPT !.local = after]
      BY DEF Execute
    <2>2. apps[i].program = k /\ apps[i].local \in [Senders -> {{}, Program[k].optedIn}]
      BY <1>2 DEF AppOf
    <2>3. \A u \in Senders : LocalAfter(items, i, u) \in {{}, Program[k].optedIn}
      BY <2>2 DEF LocalAfter
    <2>4. after \in [Senders -> {{}, Program[k].optedIn}]
      BY <2>3
    <2> HIDE DEF after
    <2> QED
      BY <1>2, <2>1, <2>4 DEF AppOf
  <1>3. \A i \in DOMAIN apps : \E k \in Kinds : apps[i] \in AppOf(k)
    BY DEF AppsInv
  <1>4. AppsInv'
    BY <1>1, <1>2, <1>3 DEF AppsInv
  <1> QED
    BY <1>1, <1>2, <1>3, <1>4

\* What a factory sends creates an application or is turned away: no program
\* routes an update or a delete.
LEMMA FactoryOnlyCreates ==
    ASSUME AppsInv, NEW u \in Senders, NEW k \in Kinds,
           NEW t \in BareCalls(u) \cup CreateCalls(k, u), FactorySend(k, t)
    PROVE  \E new \in AppIds \ DOMAIN apps :
             apps' = [i \in DOMAIN apps \cup {new} |->
                        IF i = new THEN NewApp(k) ELSE apps[i]]
  <1>1. t.onCompletion = "NoOp"
    <2>1. CASE t = BareCall(NoApp, "NoOp", u)
      BY <2>1 DEF BareCall, Txn
    <2>2. CASE t \in CreateCalls(k, u)
      BY <2>2 DEF CreateCalls, Txn
    <2>3. ASSUME NEW i \in DOMAIN apps, NEW oc \in {"UpdateApplication", "DeleteApplication"},
                 t = BareCall(i, oc, u)
          PROVE  FALSE
      <3>1. t.app = i /\ t.onCompletion = oc
        BY <2>3 DEF BareCall, Txn
      <3>2. i # NoApp
        BY ClientAssumption DEF AppsInv
      <3>3. PICK owner \in Kinds : apps[i] \in AppOf(owner)
        BY DEF AppsInv
      <3>4. Routed(owner, t)
        BY <3>1, <3>2, <3>3 DEF FactorySend, AppOf
      <3>5. \A m \in DOMAIN Program[owner].routes :
              Program[owner].routes[m] \in {"NoOp", "OptIn"}
        BY ClientsAgree DEF CallsAgree
      <3> QED
        BY <3>1, <3>4, <3>5 DEF Routed, BareRoute, MethodRoute
    <2> QED
      BY <2>1, <2>2, <2>3 DEF BareCalls
  <1> QED
    BY <1>1 DEF FactorySend, FactoryEffect

\* A created application starts as its program makes it, with no account.
LEMMA FactoryKeeps ==
    ASSUME AppsInv, NEW k \in Kinds, NEW new \in AppIds \ DOMAIN apps,
           apps' = [i \in DOMAIN apps \cup {new} |-> IF i = new THEN NewApp(k) ELSE apps[i]]
    PROVE  /\ AppsInv' /\ DOMAIN apps \subseteq DOMAIN apps'
           /\ \A i \in DOMAIN apps : apps'[i] = apps[i]
  <1>1. NewApp(k) \in AppOf(k)
    BY DEF NewApp, AppOf
  <1>2. /\ DOMAIN apps' = DOMAIN apps \cup {new} /\ apps'[new] = NewApp(k)
        /\ \A i \in DOMAIN apps : apps'[i] = apps[i]
    OBVIOUS
  <1> QED
    BY <1>1, <1>2 DEF AppsInv

\* A composer stands as long as its application does.
LEMMA GroupStands ==
    ASSUME GroupInv, group' = group, DOMAIN apps \subseteq DOMAIN apps'
    PROVE  GroupInv'
  BY DEF GroupInv

\* A composer that is being added to is one of some client's.
LEMMA ComposerHolds ==
    ASSUME GroupInv, Composing
    PROVE  \E k \in Kinds :
             /\ group \in GroupOf(k) /\ group.client.app \in DOMAIN apps
             /\ group.client.kind = k /\ Len(group.items) + 1 <= MaxGroup
  <1>1. PICK k \in Kinds : group \in GroupOf(k) /\ group.client.app \in DOMAIN apps
    BY DEF GroupInv, Composing
  <1>2. group.client.kind = k /\ group.items \in Seq(Offers(k))
    BY <1>1 DEF GroupOf
  <1>3. Len(group.items) + 1 <= MaxGroup
    BY <1>2, ClientAssumption DEF Composing
  <1> QED
    BY <1>1, <1>2, <1>3

\* Adding a call the client offers.
LEMMA AddCallKeeps ==
    ASSUME GroupInv, Composing, NEW t, UNCHANGED apps, AddCall(t),
           t \in Offers(group.client.kind)
    PROVE  GroupInv'
  <1>1. PICK k \in Kinds :
          /\ group \in GroupOf(k) /\ group.client.app \in DOMAIN apps
          /\ group.client.kind = k /\ Len(group.items) + 1 <= MaxGroup
    BY ComposerHolds
  <1> DEFINE more == Append(group.items, t)
  <1>2. group.items \in Seq(Offers(k))
    BY <1>1 DEF GroupOf
  <1>3. more \in Seq(Offers(k)) /\ Len(more) = Len(group.items) + 1
    BY <1>1, <1>2
  <1> HIDE DEF more
  <1>4. group' = [group EXCEPT !.items = more]
    BY DEF AddCall, more
  <1>5. /\ group' \in GroupOf(k) /\ group'.client = group.client /\ group'.items = more
    BY <1>1, <1>3, <1>4 DEF GroupOf
  <1> QED
    BY <1>1, <1>3, <1>5 DEF GroupInv

\* A composer of a client starts empty.
LEMMA NewGroupKeeps ==
    ASSUME NEW c \in Clients, AppsInv, NewGroup(c)
    PROVE  GroupInv'
  <1>1. c.kind \in Kinds /\ c.app \in DOMAIN apps /\ c.app \in AppIds
        /\ c \in [kind: {c.kind}, app: AppIds]
    BY DEF Clients, AppsInv
  <1>2. group' = [client |-> c, items |-> <<>>] /\ apps' = apps
    BY DEF NewGroup, NoGroup
  <1>3. group' \in GroupOf(c.kind) /\ group'.client.app \in DOMAIN apps'
    BY <1>1, <1>2 DEF GroupOf
  <1>4. Len(group'.items) <= MaxGroup
    BY <1>2, ClientAssumption
  <1> QED
    BY <1>1, <1>3, <1>4 DEF GroupInv

\* What every step may do to the applications: add some, change who joined.
Kept ==
    \A i \in DOMAIN apps : /\ i \in DOMAIN apps'
                           /\ apps'[i].program = apps[i].program
                           /\ apps'[i].global = apps[i].global

\* Every step keeps the invariant and the applications.
LEMMA ClientStep ==
    ASSUME ClientInv, [ClientNext]_clientVars
    PROVE  ClientInv' /\ Kept
  <1>1. ASSUME UNCHANGED apps, GroupInv' PROVE ClientInv' /\ Kept
    BY <1>1 DEF ClientInv, AppsInv, Kept
  <1>2. ASSUME NEW items, Execute(items), group' = group \/ group' = NoGroup
        PROVE  ClientInv' /\ Kept
    <2>1. /\ AppsInv' /\ DOMAIN apps' = DOMAIN apps
          /\ \A i \in DOMAIN apps : /\ apps'[i].program = apps[i].program
                                    /\ apps'[i].global = apps[i].global
      BY <1>2, ExecuteKeeps DEF ClientInv
    <2>2. GroupInv'
      BY <1>2, <2>1, GroupStands DEF ClientInv, GroupInv
    <2> QED
      BY <2>1, <2>2 DEF ClientInv, Kept
  <1>3. CASE UNCHANGED clientVars
    BY <1>3, <1>1, GroupStands DEF clientVars, ClientInv
  <1>4. ASSUME NEW u \in Senders, NEW k \in Kinds,
               NEW t \in BareCalls(u) \cup CreateCalls(k, u), FactorySend(k, t)
        PROVE  ClientInv' /\ Kept
    <2>1. PICK new \in AppIds \ DOMAIN apps :
            apps' = [i \in DOMAIN apps \cup {new} |-> IF i = new THEN NewApp(k) ELSE apps[i]]
      BY <1>4, FactoryOnlyCreates DEF ClientInv
    <2>2. /\ AppsInv' /\ DOMAIN apps \subseteq DOMAIN apps'
          /\ \A i \in DOMAIN apps : apps'[i] = apps[i]
      BY <2>1, FactoryKeeps DEF ClientInv
    <2>3. GroupInv'
      BY <1>4, <2>2, GroupStands DEF FactorySend, ClientInv
    <2> QED
      BY <2>2, <2>3 DEF ClientInv, Kept
  <1>5. ASSUME NEW c \in Clients, NewGroup(c) PROVE ClientInv' /\ Kept
    BY <1>1, <1>5, NewGroupKeeps DEF NewGroup, ClientInv
  <1>6. ASSUME NEW c \in Clients, NEW u \in Senders, SendClearState(c, u)
        PROVE  ClientInv' /\ Kept
    BY <1>2, <1>6 DEF SendClearState
  <1>7. ASSUME NEW c \in Clients, NEW m, NEW u \in Senders, Send(c, m, u)
        PROVE  ClientInv' /\ Kept
    BY <1>2, <1>7 DEF Send
  <1>8. ASSUME NEW u \in Senders, Composing
        PROVE  /\ group.client.kind \in Kinds /\ group.client.app \in AppIds
    BY <1>8, ComposerHolds DEF ClientInv, AppsInv
  <1>9. ASSUME NEW u \in Senders, ComposeClearState(u) PROVE ClientInv' /\ Kept
    <2>1. Composing
      BY <1>9 DEF ComposeClearState
    <2>2. ClearStateCall(group.client, u) \in Offers(group.client.kind)
      BY <1>8, <2>1, ClientsOffer
    <2>3. GroupInv'
      BY <1>9, <2>1, <2>2, AddCallKeeps DEF ComposeClearState, ClientInv
    <2> QED
      BY <1>1, <1>9, <2>3 DEF ComposeClearState
  <1>10. ASSUME NEW u \in Senders, NEW t \in {Payment} \cup BuiltBy(group.client, u),
                ComposeTransaction(t)
         PROVE  ClientInv' /\ Kept
    <2>1. Composing
      BY <1>10 DEF ComposeTransaction
    <2>2. t \in Offers(group.client.kind)
      BY <1>8, <2>1, ClientsOffer
    <2>3. GroupInv'
      BY <1>10, <2>1, <2>2, AddCallKeeps DEF ComposeTransaction, ClientInv
    <2> QED
      BY <1>1, <1>10, <2>3 DEF ComposeTransaction
  <1>11. ASSUME NEW u \in Senders, NEW m \in DOMAIN Client[group.client.kind].composes,
                Compose(m, u)
         PROVE  ClientInv' /\ Kept
    <2> DEFINE t == [ParamsCall(group.client, m, u) EXCEPT
                       !.onCompletion = Client[group.client.kind].composes[m]]
    <2>1. Composing
      BY <1>11 DEF Compose
    <2>2. t \in Offers(group.client.kind)
      BY <1>8, <2>1, ClientsOffer
    <2>3. AddCall(t) /\ UNCHANGED apps
      BY <1>11 DEF Compose
    <2> HIDE DEF t
    <2>4. GroupInv'
      BY <2>1, <2>2, <2>3, AddCallKeeps DEF ClientInv
    <2> QED
      BY <1>1, <2>3, <2>4
  <1>12. CASE SendGroup
    BY <1>2, <1>12 DEF SendGroup
  <1>13. CASE GroupFails
    BY <1>1, <1>13 DEF GroupFails, GroupInv
  <1> QED
    BY <1>3, <1>4, <1>5, <1>6, <1>7, <1>9, <1>10, <1>11, <1>12, <1>13 DEF ClientNext

\* The invariant, always.
LEMMA ClientInvariant == ClientSpec => []ClientInv
  <1>1. ClientInv /\ [ClientNext]_clientVars => ClientInv'
    BY ClientStep
  <1> QED
    BY <1>1, ClientInitInv, PTL DEF ClientSpec

-----------------------------------------------------------------------------
(* The properties.                                                         *)

\* Applications and the composer always have their shape, the composer's
\* client bound to an application that exists.
THEOREM ClientTypeCorrect == ClientSpec => []ClientTypeOK
  <1>1. AppsInv => /\ DOMAIN apps \subseteq AppIds
                   /\ \A i \in DOMAIN apps : /\ apps[i].program \in Kinds
                                             /\ DOMAIN apps[i].local = Senders
    BY DEF AppsInv, AppOf
  <1>2. ASSUME GroupInv
        PROVE  Len(group.items) <= MaxGroup /\ (group # NoGroup => group.client \in Clients)
    <2>1. CASE group = NoGroup
      <3>1. group.items = <<>>
        BY <2>1 DEF NoGroup
      <3> QED
        BY <2>1, <3>1, ClientAssumption
    <2>2. CASE group # NoGroup
      BY <1>2, <2>2 DEF GroupInv, GroupOf, Clients
    <2> QED
      BY <2>1, <2>2
  <1>3. ClientInv => ClientTypeOK
    BY <1>1, <1>2 DEF ClientInv, ClientTypeOK
  <1> QED
    BY <1>3, ClientInvariant, PTL

\* No client builds a call the program it was generated for turns away:
\* whatever is composed or sent alone passes the router.
THEOREM OfferedCallsRoutedHolds == ClientSpec => []OfferedCallsRouted
  <1>1. ASSUME GroupInv
        PROVE  \A j \in DOMAIN group.items :
                 group.items[j] = Payment \/ Routed(group.client.kind, group.items[j])
    <2>1. CASE group = NoGroup
      <3>1. DOMAIN group.items = {}
        BY <2>1 DEF NoGroup
      <3> QED
        BY <3>1
    <2>2. CASE group # NoGroup
      <3>1. PICK k \in Kinds : group \in GroupOf(k)
        BY <1>1, <2>2 DEF GroupInv
      <3>2. group.client.kind = k /\ group.items \in Seq(Offers(k))
        BY <3>1 DEF GroupOf
      <3>3. \A j \in DOMAIN group.items : group.items[j] \in Offers(k)
        BY <3>2
      <3> QED
        BY <3>2, <3>3 DEF Offers
    <2> QED
      BY <2>1, <2>2
  <1>2. ASSUME AppsInv, NEW c \in Clients, NEW u \in Senders,
               NEW m \in DOMAIN Client[c.kind].sends
        PROVE  Routed(c.kind, SentCall(c, m, u))
    <2>1. c.kind \in Kinds /\ c.app \in AppIds
      BY <1>2 DEF Clients, AppsInv
    <2>2. SentCall(c, m, u) \in Offers(c.kind)
      BY <2>1, ClientsOffer
    <2>3. SentCall(c, m, u).app = c.app /\ Payment.app = NoApp
      BY DEF SentCall, ParamsCall, Payment, Txn
    <2> QED
      BY <2>1, <2>2, <2>3, ClientAssumption DEF Offers
  <1>3. ClientInv => OfferedCallsRouted
    BY <1>1, <1>2 DEF ClientInv, OfferedCallsRouted
  <1> QED
    BY <1>3, ClientInvariant, PTL

\* The typed readers find every key they promise: always in the global state,
\* and in the local state of every account that joined.
THEOREM TypedStateWholeHolds == ClientSpec => []TypedStateWhole
  <1>1. ASSUME AppsInv, NEW i \in DOMAIN apps
        PROVE  /\ Client[apps[i].program].global = apps[i].global
               /\ \A u \in Senders :
                    apps[i].local[u] \in {{}, Client[apps[i].program].local}
    <2>1. PICK k \in Kinds : apps[i] \in AppOf(k)
      BY <1>1 DEF AppsInv
    <2>2. Client[k].global = Program[k].created /\ Client[k].local = Program[k].optedIn
      BY ClientsAgree DEF KeysAgree
    <2> QED
      BY <2>1, <2>2 DEF AppOf
  <1>2. ClientInv => TypedStateWhole
    BY <1>1 DEF ClientInv, TypedStateWhole
  <1> QED
    BY <1>2, ClientInvariant, PTL

\* Nothing that is offered removes an application, replaces its program or
\* touches its global keys.
THEOREM AppsKeptHolds == ClientSpec => AppsKept
  <1>1. ClientInv /\ [ClientNext]_clientVars => [Kept]_clientVars
    BY ClientStep
  <1>2. [Kept]_clientVars
          <=> [\A i \in DOMAIN apps : /\ i \in DOMAIN apps'
                                      /\ apps'[i].program = apps[i].program
                                      /\ apps'[i].global = apps[i].global]_clientVars
    BY DEF Kept
  <1> QED
    BY <1>1, <1>2, ClientInvariant, PTL DEF ClientSpec, AppsKept

=============================================================================
