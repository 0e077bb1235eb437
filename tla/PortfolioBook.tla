--------------------------- MODULE PortfolioBook ---------------------------
(***************************************************************************)
(* The accounting book (backtest/accounting.py, class PortfolioBook): what *)
(* the platform says it owns.  It knows no settlement: a fill moves cash   *)
(* and shares at once.  Reconciliation compares the broker with it share   *)
(* for share and rupee for rupee, so it is the abstract specification the  *)
(* broker must implement.  It has no moves of its own: each action takes   *)
(* the fill or the event it is posted, as the code's methods do.  Cost     *)
(* basis and realized P&L are left out.                                    *)
(***************************************************************************)
EXTENDS Integers

CONSTANTS
  Isins,
  OpeningCash

VARIABLES cash, position   \* _cash and the quantities of _positions

bookVars == <<cash, position>>

Init == cash = OpeningCash /\ position = [isin \in Isins |-> 0]

\* What a buy moves: the fill's shares in, its net amount out.
Bought(isin, quantity, net) ==
  /\ position' = [position EXCEPT ![isin] = @ + quantity]
  /\ cash' = cash - net

\* _record_buy: InsufficientCashError if the book's cash cannot cover it.
RecordBuy(isin, quantity, net) == net <= cash /\ Bought(isin, quantity, net)

\* _record_sell: InsufficientSharesError if the book holds fewer.
RecordSell(isin, quantity, net) ==
  /\ quantity <= position[isin]
  /\ position' = [position EXCEPT ![isin] = @ - quantity]
  /\ cash' = cash + net

\* apply_split and apply_bonus with forfeit_fraction: the whole position is floored once.
RescaleQuantity(isin, ratio) ==
  /\ position[isin] > 0
  /\ position' = [position EXCEPT ![isin] = (@ * ratio[1]) \div ratio[2]]
  /\ UNCHANGED cash

\* apply_merger 1:1, which is how a reissue is carried.
ApplyMerger(acquired, surviving) ==
  /\ acquired # surviving /\ position[acquired] > 0
  /\ position' = [position EXCEPT ![acquired] = 0,
                                  ![surviving] = position[surviving] + position[acquired]]
  /\ UNCHANGED cash

\* apply_cash_exit at price 1.
ApplyCashExit(isin) ==
  /\ position[isin] > 0
  /\ cash' = cash + position[isin]
  /\ position' = [position EXCEPT ![isin] = 0]

\* credit_dividend, credit_late_dividend, credit_interest, credit_scheme_cash.
Credit(amount) ==
  /\ amount > 0
  /\ UNCHANGED position
  /\ cash' = cash + amount
=============================================================================
