---------------------------- MODULE MCSimBroker ----------------------------
(***************************************************************************)
(* SimBroker instantiated for TLC: the market, the settlement schedule and *)
(* the charges of a small world.                                           *)
(***************************************************************************)
EXTENDS SimBrokerBook

CONSTANTS a, b   \* two scrips

\* T+2 for the first trade date, T+1 afterwards: the era change of cycles.yaml.
MCLag == [t \in Sessions |-> IF t = 1 THEN 2 ELSE 1]

\* a prints every session, b does not print in session 2 and is exit-only in session 3.
MCBars == {<<i, s>> \in Isins \X Sessions : ~(i # a /\ s = 2)}
MCExitOnly == {<<i, s>> \in MCBars : i # a /\ s = 3}

\* A price of 3 in a market as deep as two shares: one share moves the price by 1, two by 2.
MCReference == [bar \in MCBars |-> 3]
MCTradedValue == [bar \in MCBars |-> 6]

MCRatios == {<<3, 2>>, <<1, 2>>}

\* The change a session later, so that two lots wait at once, one of them settling before
\* the other: an action can meet two pending lots, or a settled one beside a pending one.
MCLagTwoLots == [t \in Sessions |-> IF t <= 2 THEN 2 ELSE 1]
=============================================================================
