------------------------------ MODULE Archive ------------------------------
(***************************************************************************)
(* What the raw layer promises of each key (dataplatform/store/l0.py): the *)
(* first document to claim a key is the only one it will ever hold, a put  *)
(* is answered with that document and with no other, only once it is       *)
(* stored whole, and nothing is ever taken back.                           *)
(***************************************************************************)

CONSTANTS Keys, Docs

VARIABLES
  claimed,    \* per key, the documents that claimed it: none or one
  stored,     \* the keys whose document is stored whole
  answered    \* the <<key, document>> pairs handed back to a caller

vars == <<claimed, stored, answered>>

Init == claimed = [k \in Keys |-> {}] /\ stored = {} /\ answered = {}

Claim(k, d) ==
  /\ claimed[k] = {}
  /\ claimed' = [claimed EXCEPT ![k] = {d}]
  /\ UNCHANGED <<stored, answered>>

\* Storing the document answers the put that wrote it.
Store(k, d) ==
  /\ d \in claimed[k] /\ k \notin stored
  /\ stored' = stored \cup {k}
  /\ answered' = answered \cup {<<k, d>>}
  /\ UNCHANGED claimed

Answer(k, d) ==
  /\ d \in claimed[k] /\ k \in stored
  /\ answered' = answered \cup {<<k, d>>}
  /\ UNCHANGED <<claimed, stored>>

Next == \E k \in Keys, d \in Docs : Claim(k, d) \/ Store(k, d) \/ Answer(k, d)

Spec == Init /\ [][Next]_vars
=============================================================================
