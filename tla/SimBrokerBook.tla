--------------------------- MODULE SimBrokerBook ---------------------------
(***************************************************************************)
(* The paper broker as the accounting book sees it, which is what daily    *)
(* reconciliation compares (execution/recon.py): every share on the book,  *)
(* settled or not, and every unit of money, spendable or in settlement.    *)
(***************************************************************************)
EXTENDS SimBroker, FiniteSetsExt

AccountCash == cash + MapThenSumSet(LAMBDA t : receivables[t], Sessions)
AccountPosition == [isin \in Isins |-> OnBook(isin)]

Account == INSTANCE PortfolioBook WITH cash <- AccountCash, position <- AccountPosition

\* The net amount of a fill, from the price and depository charge on its record.
FillNet(o) == NetAmount(o.side, o.quantity * o.price, o.dp)

\* Every fill moves in the account its own shares and its own net amount, every corporate
\* action and credit moves there what the book's method of that name moves, and no other
\* call - a settlement, a release, a re-run, a restart - moves anything.
Agreement ==
  /\ \A id \in due : LET o == orders[id] IN
       /\ FillBuy(id) => Account!Bought(o.isin, o.quantity, FillNet(orders'[id]))
       /\ FillSell(id) => Account!RecordSell(o.isin, o.quantity, FillNet(orders'[id]))
  /\ \A isin \in Isins :
       /\ \A ratio \in Ratios :
            ApplyShareRescale(isin, ratio) => Account!RescaleQuantity(isin, ratio)
       /\ \A to \in Isins : CarryOver(isin, to) => Account!ApplyMerger(isin, to)
       /\ Surrender(isin) => Account!ApplyCashExit(isin)
  /\ \A amount \in Credits : CreditCash(amount) => Account!Credit(amount)
  /\ \/ UNCHANGED Account!bookVars
     \/ \E id \in due : FillBuy(id) \/ FillSell(id)
     \/ \E isin \in Isins : \/ \E ratio \in Ratios : ApplyShareRescale(isin, ratio)
                            \/ \E to \in Isins : CarryOver(isin, to)
                            \/ Surrender(isin)
     \/ \E amount \in Credits : CreditCash(amount)

\* The book never refuses a buy the broker has filled.
Accepted ==
  \A id \in due : LET o == orders[id] IN
    FillBuy(id) => Account!RecordBuy(o.isin, o.quantity, FillNet(orders'[id]))

\* Broker and accounting book move alike: they hold the same shares and the same money
\* after every call, whatever is still in settlement.
BooksAgree == Account!Init /\ [][Agreement]_vars

\* The broker implements the accounting book: they move alike, and every fill is one the
\* book accepts (execution/recon.py compares the two after every session).
ImplementsBook == Account!Init /\ [][Agreement /\ Accepted]_vars
=============================================================================
