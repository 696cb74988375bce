------------------------------ MODULE LoanBook ------------------------------
(***************************************************************************)
(* What the lending half of the pool contract promises, without shares,    *)
(* prices or AURA arithmetic: who owes what until when, what is pledged    *)
(* for it, and how a loan may end.                                         *)
(***************************************************************************)
EXTENDS Integers

CONSTANT Borrowers

VARIABLES
    members, \* borrowers with a record in the book
    terms,   \* the terms each borrower is bound by, or Free
    escrow,  \* collateral held
    till,    \* money held
    clock

bookVars == <<members, terms, escrow, till, clock>>

Free == [kind |-> "none", due |-> 0, pledge |-> 0, deadline |-> 0]

Terms == [kind: {"none", "secured", "unsecured"},
          due: Nat, pledge: Nat, deadline: Nat]

BookInit ==
    /\ members = {} /\ terms = [b \in Borrowers |-> Free]
    /\ escrow = 0 /\ till = 0 /\ clock = 0

OnlyTermsOf(b) == \A c \in Borrowers \ {b} : terms'[c] = terms[c]

\* Money leaves the till, the pledge enters escrow, and the borrower owes at
\* least that money by a deadline that has not passed.
Grant(b) ==
    /\ b \in members /\ terms[b] = Free
    /\ terms'[b] \in Terms
    /\ terms'[b].kind # "none"
    /\ terms'[b].kind = "unsecured" => terms'[b].pledge = 0
    /\ terms'[b].deadline >= clock
    /\ escrow' = escrow + terms'[b].pledge
    /\ till' < till /\ terms'[b].due >= till - till'
    /\ OnlyTermsOf(b)
    /\ UNCHANGED <<members, clock>>

\* The debt is paid in full and the pledge goes back.
Settle(b) ==
    /\ terms[b].kind # "none"
    /\ till' >= till + terms[b].due
    /\ escrow' = escrow - terms[b].pledge
    /\ terms'[b] = Free
    /\ OnlyTermsOf(b)
    /\ UNCHANGED <<members, clock>>

\* After the deadline the pledge is seized.
Foreclose(b) ==
    /\ terms[b].kind # "none"
    /\ clock > terms[b].deadline
    /\ escrow' = escrow - terms[b].pledge
    /\ terms'[b] = Free
    /\ OnlyTermsOf(b)
    /\ UNCHANGED <<members, till, clock>>

\* A record starts clean, and may be dropped with its debt; what was pledged
\* for the debt stays.
Clean(b) ==
    /\ terms'[b] = Free
    /\ OnlyTermsOf(b)
    /\ UNCHANGED <<escrow, till, clock>>
Join(b) == b \notin members /\ members' = members \cup {b} /\ Clean(b)
Leave(b) == b \in members /\ members' = members \ {b} /\ Clean(b)

\* Money moves for other business, and time passes; no loan is affected.
Trade == till' \in Nat /\ UNCHANGED <<members, terms, escrow, clock>>
Advance == clock' > clock /\ UNCHANGED <<members, terms, escrow, till>>

BookNext ==
    \/ \E b \in Borrowers :
        Grant(b) \/ Settle(b) \/ Foreclose(b) \/ Join(b) \/ Leave(b)
    \/ Trade
    \/ Advance

BookSpec == BookInit /\ [][BookNext]_bookVars
=============================================================================
