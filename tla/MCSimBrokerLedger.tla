------------------------- MODULE MCSimBrokerLedger -------------------------
(* SimBrokerLedger instantiated for TLC: one scrip that always prints.     *)
EXTENDS SimBrokerLedger

CONSTANTS a

\* The first three trade dates settle T+2, the later ones T+1: what is bought in session 1
\* can be sold in session 3 and its proceeds wait through session 4, where another sale
\* settles T+1 on the very same day.
MCLag == [t \in Sessions |-> IF t <= 3 THEN 2 ELSE 1]

\* T+2 throughout.
MCLagTwo == [t \in Sessions |-> 2]
MCBars == Isins \X Sessions
MCRatios == {<<3, 2>>}
MCReference == [bar \in MCBars |-> 3]
MCTradedValue == [bar \in MCBars |-> 6]
=============================================================================
