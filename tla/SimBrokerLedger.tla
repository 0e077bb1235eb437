-------------------------- MODULE SimBrokerLedger --------------------------
(***************************************************************************)
(* The cash ledger of the paper broker (execution/sim_broker.py _ledger),  *)
(* kept beside SimBroker because nothing the broker does next reads it:    *)
(* every fill and every credit posts one line.  `proceeds` and `outlay`    *)
(* are observers: what each trade date's sales were worth, and what buys   *)
(* took out net of what credits put in.                                    *)
(***************************************************************************)
EXTENDS SimBroker, FiniteSetsExt

VARIABLES
  base,      \* the account's value when this process's ledger was opened
  posted,    \* credits less debits of every line since
  balance,   \* the balance on the last line
  proceeds,  \* net sale proceeds by trade date
  outlay     \* buys less credits

ledger     == <<base, posted, balance>>
ledgerVars == <<vars, ledger, proceeds, outlay>>

SumOver(f, S) == MapThenSumSet(LAMBDA x : f[x], S)
\* Mutant: the proceeds in settlement are forgotten.
SpendableValue == cash
AccountValue  == cash + SumOver(receivables, Sessions)   \* _cash + unsettled_proceeds

LInit ==
  /\ Init
  /\ base = OpeningCash /\ posted = 0 /\ balance = OpeningCash
  /\ proceeds = [t \in Sessions |-> 0] /\ outlay = 0

Post(amount, after) == /\ posted' = posted + amount
                       /\ balance' = after
                       /\ UNCHANGED base

\* _apply, _post_ledger: the balance is spendable cash plus proceeds in settlement.
PostBuy ==
  /\ \E id \in due : FillBuy(id)
  /\ Post(cash' - cash, AccountValue')
  /\ outlay' = outlay + (cash - cash')
  /\ UNCHANGED proceeds

PostSell ==
  /\ \E id \in due : FillSell(id)
  /\ LET net == receivables'[today] - receivables[today]
     IN  /\ Post(net, AccountValue')
         /\ proceeds' = [proceeds EXCEPT ![today] = @ + net]
  /\ UNCHANGED outlay

\* _credit_cash: the balance is spendable cash alone.
PostCredit ==
  /\ \/ \E amount \in Credits : CreditCash(amount)
     \/ \E isin \in Isins : Surrender(isin)
  /\ Post(cash' - cash, cash')
  /\ outlay' = outlay - (cash' - cash)
  /\ UNCHANGED proceeds

\* A restored broker's ledger starts empty.
OpenLedger ==
  /\ Restore
  /\ base' = AccountValue /\ posted' = 0 /\ balance' = AccountValue
  /\ UNCHANGED <<proceeds, outlay>>

NoLine ==
  /\ \/ \E isin \in Isins, side \in Sides, q \in Quantities : Place(isin, side, q)
     \/ \E id \in Known : Cancel(id)
     \/ ExecuteSession
     \/ \E t \in Sessions : SettleTrades(t)
     \/ Settled
     \/ \E id \in due : RejectOrder(id)
     \/ StartRelease
     \/ \E t \in Sessions : ReleaseAhead(t)
     \/ EndSession
     \/ \E isin \in Isins, ratio \in Ratios : ApplyShareRescale(isin, ratio)
     \/ NextDay
  /\ UNCHANGED <<ledger, proceeds, outlay>>

LNext == PostBuy \/ PostSell \/ PostCredit \/ OpenLedger \/ NoLine

LSpec == LInit /\ [][LNext]_ledgerVars

-----------------------------------------------------------------------------
\* The last balance is the opening balance plus every credit less every debit
\* ("the ledger reconciles to its own debits and credits whatever the cycle").
LedgerReconciles == balance = base + posted

\* Whatever the cycle and the credits before it, the line of a fill carries the opening
\* balance plus every credit less every debit (_apply, _post_ledger).
FillLinesReconcile ==
  [][phase = "fill" /\ <<posted, balance>>' # <<posted, balance>> =>
       balance' = base' + posted']_ledgerVars

ProceedsDueBy(day) == SumOver(proceeds, {t \in Sessions : t + Lag[t] <= day})

\* Between sessions the cash a decision may spend is exactly what will have settled when
\* it can first fill: every sale with T+N on or before the next session, and no other.
SpendableIsSettledByNextFill ==
  phase = "idle" => cash = OpeningCash - outlay + ProceedsDueBy(currentSession + 1)

\* interest_bearing_cash is the cash settled by the end of the current session.
InterestOnSettledCash ==
  phase = "idle" => cash - releasedAhead = OpeningCash - outlay + ProceedsDueBy(currentSession)
=============================================================================
