---------------------------- MODULE UsageLedger ----------------------------
(***************************************************************************)
(* The request counts of web research (analyst/websearch/ledger.py): rows  *)
(* of Postgres which every process that asks a vendor reserves on before   *)
(* it sends.  A reservation is one transaction, whose row locks make it    *)
(* one step: it counts whole or not at all, and no count ever goes down.   *)
(* The counts here are those of one month and one session: the next has    *)
(* rows of its own, which start at zero.                                   *)
(***************************************************************************)
EXTENDS Integers, FiniteSets, Functions

CONSTANTS
  Vendors,       \* the vendors that have a budget
  Direct,        \* the direct fetch, which has none
  Capabilities,  \* "search" and "fetch"
  Units,         \* what one call of a vendor for a capability is billed
  Budget,        \* each vendor's units of a month
  MonthlyCap,    \* the requests of a month, all vendors together
  SessionCap     \* the requests of the session, per capability

Callees == Vendors \cup {Direct}

ASSUME VendorsAssumption == IsFiniteSet(Vendors) /\ IsFiniteSet(Capabilities)
ASSUME DirectAssumption == Direct \notin Vendors
ASSUME UnitsAssumption == Units \in [Vendors \X Capabilities -> Nat \ {0}]
ASSUME BudgetAssumption == Budget \in [Vendors -> Nat]
ASSUME CapsAssumption == MonthlyCap \in Nat /\ SessionCap \in [Capabilities -> Nat]

VARIABLES
  used,       \* units of the month, per vendor
  requests,   \* calls of the month, per vendor
  total,      \* requests of the month
  session     \* requests of the session, per capability

ledgerVars == <<used, requests, total, session>>

LedgerInit ==
  /\ used = [v \in Vendors |-> 0]
  /\ requests = [v \in Callees |-> 0]
  /\ total = 0
  /\ session = [c \in Capabilities |-> 0]

\* models.within_budget
WithinBudget(spent, units, budget) == spent + units <= budget

Remaining(v, c) == (Budget[v] - used[v]) \div Units[<<v, c>>]

\* Mutant: the budget is not compared again, _pick having read the row.
FitsAsPicked(v, c) == TRUE

\* _RESERVE_MONTH compares the row it has locked.
Fits(v, c) == WithinBudget(used[v], Units[<<v, c>>], Budget[v])

\* reserve_call, with its three outcomes: only the first counts anything.
ReserveCall(v, c, outcome) ==
  LET counted == requests' = [requests EXCEPT ![v] = @ + 1] IN
  /\ UNCHANGED session
  /\ \/ /\ v = Direct
        /\ outcome = "ok" /\ counted
        /\ UNCHANGED <<used, total>>
     \/ /\ v # Direct /\ WithinBudget(total, 1, MonthlyCap) /\ Fits(v, c)
        /\ outcome = "ok" /\ counted
        /\ total' = total + 1
        /\ used' = [used EXCEPT ![v] = @ + Units[<<v, c>>]]
     \/ /\ v # Direct /\ WithinBudget(total, 1, MonthlyCap) /\ ~Fits(v, c)
        /\ outcome = "over_vendor_budget"
        /\ UNCHANGED <<used, requests, total>>
     \/ /\ v # Direct /\ ~WithinBudget(total, 1, MonthlyCap)
        /\ outcome = "over_monthly_cap"
        /\ UNCHANGED <<used, requests, total>>

\* reserve_session
SessionLeft(c) == WithinBudget(session[c], 1, SessionCap[c])
ReserveSession(c) ==
  /\ SessionLeft(c)
  /\ session' = [session EXCEPT ![c] = @ + 1]
  /\ UNCHANGED <<used, requests, total>>

-----------------------------------------------------------------------------
(* Properties *)

\* The rows are well formed.
LedgerTypeOK ==
  /\ used \in [Vendors -> Nat] /\ requests \in [Callees -> Nat]
  /\ total \in Nat
  /\ session \in [Capabilities -> Nat]

\* No count passes its cap, and the month's total is what its vendors were asked, the direct fetch
\* left out, whoever reserves at once.
CapsHold ==
  /\ \A c \in Capabilities : session[c] <= SessionCap[c]
  /\ \A v \in Vendors : used[v] <= Budget[v]
  /\ total <= MonthlyCap /\ total = SumFunctionOnSet(requests, Vendors)
=============================================================================
