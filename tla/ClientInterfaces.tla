--------------------------- MODULE ClientInterfaces ---------------------------
(***************************************************************************)
(* What the four generated Python clients offer, one table per class of a  *)
(* client, and what the approval programs they were generated for accept,  *)
(* one table per program.  The client tables are read off the Python       *)
(* classes and the program tables off the TEAL, so that comparing the two  *)
(* says something.                                                         *)
(***************************************************************************)
EXTENDS Naturals, Sequences

Kinds == {"pool", "lending", "aura", "vault"}

\* An ABI method: its signature is its selector.
Method(name, args, returns) == [name |-> name, args |-> args, returns |-> returns]

Getters(names) == {Method(n, <<"address">>, "uint64") : n \in names}
OptInMethod == Method("opt_in", <<>>, "void")

\* A table of calls: what each method asks for on completion.
WithoutOptIn(methods) == [m \in methods |-> "NoOp"]
WithOptIn(methods) ==
    [m \in methods \cup {OptInMethod} |-> IF m = OptInMethod THEN "OptIn" ELSE "NoOp"]

\* The fields of the arguments class of a method; a method without one takes none.
Fields(table, m) == IF m.name \in DOMAIN table THEN table[m.name] ELSE 0

-----------------------------------------------------------------------------
(* AlgoPool: the client. *)

PoolArgsBeforeMinCollateral ==
    [deposit |-> 1, admin_add_pool_liquidity |-> 1, withdraw |-> 1,
     request_collateral_loan |-> 3, request_unsecured_loan |-> 2, repay |-> 1,
     liquidate_default |-> 1, get_user_shares |-> 1, get_active_loan |-> 1,
     get_due_amount |-> 1, get_due_ts |-> 1, get_net_aura |-> 1,
     get_unsecured_credit_limit |-> 1, is_blacklisted |-> 1]
PoolArgs ==
    [deposit |-> 1, admin_add_pool_liquidity |-> 1, withdraw |-> 1,
     request_collateral_loan |-> 4, request_unsecured_loan |-> 2, repay |-> 1,
     liquidate_default |-> 1, get_user_shares |-> 1, get_active_loan |-> 1,
     get_due_amount |-> 1, get_due_ts |-> 1, get_net_aura |-> 1,
     get_unsecured_credit_limit |-> 1, is_blacklisted |-> 1]

PoolParams == WithOptIn(
    {Method("app_opt_in_usdc", <<>>, "void"),
     Method("deposit", <<"uint64">>, "uint64"),
     Method("admin_add_pool_liquidity", <<"uint64">>, "uint64"),
     Method("withdraw", <<"uint64">>, "uint64"),
     Method("request_collateral_loan",
            <<"uint64", "uint64", "uint64", "uint64">>, "uint64"),
     Method("request_unsecured_loan", <<"uint64", "uint64">>, "uint64"),
     Method("repay", <<"uint64">>, "uint64"),
     Method("liquidate_default", <<"address">>, "uint64"),
     Method("get_pool", <<>>, "uint64"), Method("get_total_shares", <<>>, "uint64")}
    \cup Getters({"get_user_shares", "get_active_loan", "get_due_amount",
        "get_due_ts", "get_net_aura", "get_unsecured_credit_limit", "is_blacklisted"}))

PoolTransactions == PoolParams
PoolSends == PoolParams
PoolComposes == PoolParams
PoolCreates == DOMAIN PoolParams

PoolGlobal == {"pool", "total_shares", "usdc_asset_id", "daily_interest_bps",
    "microalgos_per_algo", "min_aura_for_unsecured", "unsecured_limit_bps_of_aura"}
PoolLocal == {"shares", "loan_active", "loan_type", "principal", "interest_due",
    "due_amount", "collateral_usdc", "due_ts", "aura_earned", "aura_penalty",
    "aura_blacklisted"}

-----------------------------------------------------------------------------
(* AlgocrefiLending: the client. *)

LendingArgs ==
    [set_pool_address |-> 1, request_collateral_loan |-> 5,
     request_unsecured_loan |-> 3, repay |-> 1, liquidate_default |-> 1,
     get_active_loan |-> 1, get_due_amount |-> 1, get_due_ts |-> 1,
     get_aura_earned |-> 1, get_aura_penalty |-> 1, get_net_aura |-> 1,
     get_unsecured_credit_limit |-> 1, is_blacklisted |-> 1]

LendingParams == WithOptIn(
    {Method("app_opt_in_usdc", <<>>, "void"),
     Method("set_pool_address", <<"address">>, "void"),
     Method("request_collateral_loan",
            <<"uint64", "uint64", "uint64", "uint64", "uint64">>, "uint64"),
     Method("request_unsecured_loan", <<"uint64", "uint64", "uint64">>, "uint64"),
     Method("repay", <<"uint64">>, "uint64"),
     Method("liquidate_default", <<"address">>, "uint64"),
     Method("get_pool_address", <<>>, "address")}
    \cup Getters({"get_active_loan", "get_due_amount", "get_due_ts",
        "get_aura_earned", "get_aura_penalty", "get_net_aura",
        "get_unsecured_credit_limit", "is_blacklisted"}))

LendingTransactions == LendingParams
LendingSends == LendingParams
LendingComposes == LendingParams
LendingCreates == DOMAIN LendingParams

LendingGlobal == {"pool_address", "usdc_asset_id", "daily_interest_bps",
    "microalgos_per_algo", "min_aura_for_unsecured", "unsecured_limit_bps_of_aura"}
LendingLocal == {"loan_active", "loan_type", "principal", "interest_due", "due_amount",
    "collateral_usdc", "due_ts", "aura_earned", "aura_penalty", "aura_blacklisted"}

-----------------------------------------------------------------------------
(* AlgocrefiAura and AlgocrefiVault: the clients. *)

AuraArgs ==
    [add_repayment_aura |-> 2, add_default_penalty |-> 2, blacklist_unsecured |-> 1,
     get_net_aura |-> 1, get_aura_earned |-> 1, get_aura_penalty |-> 1,
     is_blacklisted |-> 1]

AuraParams == WithOptIn(
    {Method("add_repayment_aura", <<"address", "uint64">>, "uint64"),
     Method("add_default_penalty", <<"address", "uint64">>, "uint64"),
     Method("blacklist_unsecured", <<"address">>, "uint64")}
    \cup Getters({"get_net_aura", "get_aura_earned", "get_aura_penalty",
        "is_blacklisted"}))

AuraTransactions == AuraParams
AuraSends == AuraParams
AuraComposes == AuraParams
AuraCreates == DOMAIN AuraParams
AuraLocal == {"aura_earned", "aura_penalty", "blacklisted"}

VaultArgs == [deposit |-> 1, withdraw |-> 1]

VaultParams == WithoutOptIn(
    {Method("deposit", <<"uint64">>, "void"), Method("withdraw", <<"uint64">>, "void"),
     Method("get_total_balance", <<>>, "uint64")})

VaultTransactions == VaultParams
VaultSends == VaultParams
VaultComposes == VaultParams
VaultCreates == DOMAIN VaultParams
VaultGlobal == {"total_balance"}

-----------------------------------------------------------------------------
(* The clients, class by class. *)

Client == [
    pool |-> [args |-> PoolArgs, params |-> PoolParams,
        transactions |-> PoolTransactions, sends |-> PoolSends,
        composes |-> PoolComposes, creates |-> PoolCreates,
        global |-> PoolGlobal, local |-> PoolLocal],
    lending |-> [args |-> LendingArgs, params |-> LendingParams,
        transactions |-> LendingTransactions, sends |-> LendingSends,
        composes |-> LendingComposes, creates |-> LendingCreates,
        global |-> LendingGlobal, local |-> LendingLocal],
    aura |-> [args |-> AuraArgs, params |-> AuraParams,
        transactions |-> AuraTransactions, sends |-> AuraSends,
        composes |-> AuraComposes, creates |-> AuraCreates,
        global |-> {}, local |-> AuraLocal],
    vault |-> [args |-> VaultArgs, params |-> VaultParams,
        transactions |-> VaultTransactions, sends |-> VaultSends,
        composes |-> VaultComposes, creates |-> VaultCreates,
        global |-> VaultGlobal, local |-> {}]]

-----------------------------------------------------------------------------
(* The approval programs: the methods they route, the keys they write when *)
(* they are created and the keys opt_in writes.                            *)

PoolRoutes == WithOptIn(
    {Method("app_opt_in_usdc", <<>>, "void"), Method("get_pool", <<>>, "uint64"),
     Method("get_total_shares", <<>>, "uint64"),
     Method("liquidate_default", <<"address">>, "uint64"),
     Method("request_unsecured_loan", <<"uint64", "uint64">>, "uint64"),
     Method("request_collateral_loan",
            <<"uint64", "uint64", "uint64", "uint64">>, "uint64")}
    \cup {Method(n, <<"uint64">>, "uint64") :
            n \in {"deposit", "admin_add_pool_liquidity", "withdraw", "repay"}}
    \cup Getters({"get_user_shares", "get_active_loan", "get_due_amount", "get_due_ts",
        "get_net_aura", "get_unsecured_credit_limit", "is_blacklisted"}))
PoolCreated == {"pool", "total_shares", "usdc_asset_id", "daily_interest_bps",
    "microalgos_per_algo", "min_aura_for_unsecured", "unsecured_limit_bps_of_aura"}
PoolOptedInWithoutAura == {"shares", "loan_active", "loan_type", "principal",
    "interest_due", "due_amount", "collateral_usdc", "due_ts"}
PoolOptedIn == {"shares", "loan_active", "loan_type", "principal", "interest_due",
    "due_amount", "collateral_usdc", "due_ts", "aura_earned", "aura_penalty",
    "aura_blacklisted"}

LendingRoutes == WithOptIn(
    {Method("app_opt_in_usdc", <<>>, "void"),
     Method("set_pool_address", <<"address">>, "void"),
     Method("get_pool_address", <<>>, "address"),
     Method("repay", <<"uint64">>, "uint64"),
     Method("liquidate_default", <<"address">>, "uint64"),
     Method("request_unsecured_loan", <<"uint64", "uint64", "uint64">>, "uint64"),
     Method("request_collateral_loan",
            <<"uint64", "uint64", "uint64", "uint64", "uint64">>, "uint64")}
    \cup Getters({"get_active_loan", "get_due_amount", "get_due_ts", "get_aura_earned",
        "get_aura_penalty", "get_net_aura", "get_unsecured_credit_limit",
        "is_blacklisted"}))
LendingCreated == {"pool_address", "usdc_asset_id", "daily_interest_bps",
    "microalgos_per_algo", "min_aura_for_unsecured", "unsecured_limit_bps_of_aura"}
LendingOptedIn == {"loan_active", "loan_type", "principal", "interest_due",
    "due_amount", "collateral_usdc", "due_ts", "aura_earned", "aura_penalty",
    "aura_blacklisted"}

AuraRoutes == WithOptIn(
    {Method("blacklist_unsecured", <<"address">>, "uint64")}
    \cup {Method(n, <<"address", "uint64">>, "uint64") :
            n \in {"add_repayment_aura", "add_default_penalty"}}
    \cup Getters({"get_net_aura", "get_aura_earned", "get_aura_penalty",
        "is_blacklisted"}))
AuraOptedIn == {"aura_earned", "aura_penalty", "blacklisted"}

VaultRoutes == WithoutOptIn(
    {Method(n, <<"uint64">>, "void") : n \in {"deposit", "withdraw"}}
    \cup {Method("get_total_balance", <<>>, "uint64")})
VaultCreated == {"total_balance"}

Program == [
    pool |-> [routes |-> PoolRoutes, created |-> PoolCreated, optedIn |-> PoolOptedIn],
    lending |-> [routes |-> LendingRoutes, created |-> LendingCreated,
                 optedIn |-> LendingOptedIn],
    aura |-> [routes |-> AuraRoutes, created |-> {}, optedIn |-> AuraOptedIn],
    vault |-> [routes |-> VaultRoutes, created |-> VaultCreated, optedIn |-> {}]]
=============================================================================
