------------------------------ MODULE RawStore ------------------------------
(***************************************************************************)
(* The raw layer (dataplatform/store/l0.py, class L0Store): one payload    *)
(* and one sidecar per key, each created with O_EXCL, then written, then   *)
(* never touched again.  put claims a key with the sidecar and stores the  *)
(* payload after it.                                                       *)
(*                                                                         *)
(* A document stands for a logical date and the digest of a payload: two   *)
(* documents of a key differ in one or in the other.  A file is short from *)
(* its creation until its bytes are in it, and stays short when the        *)
(* writer dies or fails in between.                                        *)
(***************************************************************************)

CONSTANTS
  Writers,    \* the processes that put
  Keys,       \* <<source, month, filename>>: what the layout tells apart
  Docs        \* <<logical date, sha256>>

VARIABLES
  sidecar,    \* the .meta.json file of each key
  payload,    \* the payload file of each key
  put,        \* where each writer is in put
  answered    \* the <<key, document>> pairs put has returned (observer)

vars == <<sidecar, payload, put, answered>>

Absent == [is |-> "absent"]
Short(d) == [is |-> "short", doc |-> d]
Whole(d) == [is |-> "whole", doc |-> d]
Files == {Absent} \cup {Short(d) : d \in Docs} \cup {Whole(d) : d \in Docs}

Idle == [at |-> "idle"]
Steps == {"claim", "claiming", "store", "storing", "stored", "refused"}
Putting == [at : Steps, key : Keys, doc : Docs]

Init ==
  /\ sidecar = [k \in Keys |-> Absent]
  /\ payload = [k \in Keys |-> Absent]
  /\ put = [w \in Writers |-> Idle]
  /\ answered = {}

At(w, step) == put[w].at = step
Goes(w, step) == put' = [put EXCEPT ![w].at = step]
Answered(w) == answered' = answered \cup {<<put[w].key, put[w].doc>>}

-----------------------------------------------------------------------------
(* put *)

Put(w, k, d) ==
  /\ At(w, "idle")
  /\ put' = [put EXCEPT ![w] = [at |-> "claim", key |-> k, doc |-> d]]
  /\ UNCHANGED <<sidecar, payload, answered>>

\* Mutant: the incumbent's digest is not compared, only its date.
AgreesOnDate(file, d) == file.is = "whole"

\* _claim_key, _store_payload: the file in place is whole and of the same document.
Agrees(file, d) == file = Whole(d)

\* _claim_key: the sidecar is created, or the one there is read, a short one unreadable.
Claim(w) ==
  LET k == put[w].key  d == put[w].doc IN
  /\ At(w, "claim")
  /\ IF sidecar[k] = Absent
     THEN sidecar' = [sidecar EXCEPT ![k] = Short(d)] /\ Goes(w, "claiming")
     ELSE UNCHANGED sidecar /\ Goes(w, IF Agrees(sidecar[k], d) THEN "store" ELSE "refused")
  /\ UNCHANGED <<payload, answered>>

\* _create_exclusively: the bytes are written and flushed.
Claimed(w) ==
  /\ At(w, "claiming")
  /\ sidecar' = [sidecar EXCEPT ![put[w].key] = Whole(put[w].doc)]
  /\ Goes(w, "store")
  /\ UNCHANGED <<payload, answered>>

\* _store_payload: the payload is created, or the one there is hashed.
Store(w) ==
  LET k == put[w].key  d == put[w].doc IN
  /\ At(w, "store")
  /\ \/ /\ payload[k] = Absent
        /\ payload' = [payload EXCEPT ![k] = Short(d)]
        /\ Goes(w, "storing")
        /\ UNCHANGED answered
     \/ /\ Agrees(payload[k], d)
        /\ Goes(w, "stored") /\ Answered(w)
        /\ UNCHANGED payload
     \/ /\ payload[k] # Absent /\ ~Agrees(payload[k], d)
        /\ Goes(w, "refused")
        /\ UNCHANGED <<payload, answered>>
  /\ UNCHANGED sidecar

Stored(w) ==
  /\ At(w, "storing")
  /\ payload' = [payload EXCEPT ![put[w].key] = Whole(put[w].doc)]
  /\ Goes(w, "stored") /\ Answered(w)
  /\ UNCHANGED sidecar

\* A write that raises leaves the short file where it is: no clean-up, no second attempt.
WriteFails(w) ==
  /\ At(w, "claiming") \/ At(w, "storing")
  /\ Goes(w, "refused")
  /\ UNCHANGED <<sidecar, payload, answered>>

\* put has returned or raised and its caller goes on, or the process dies.
Leave(w) ==
  /\ put[w] # Idle
  /\ put' = [put EXCEPT ![w] = Idle]
  /\ UNCHANGED <<sidecar, payload, answered>>

Next == \E w \in Writers :
  \/ \E k \in Keys, d \in Docs : Put(w, k, d)
  \/ Claim(w) \/ Claimed(w) \/ Store(w) \/ Stored(w) \/ WriteFails(w) \/ Leave(w)

Spec == Init /\ [][Next]_vars

-----------------------------------------------------------------------------
(* exists, ref_for, get *)

Exists(k) == payload[k] # Absent

\* The document a caller reads back: the sidecar parses and the payload hashes to it.
Readable(k, d) == sidecar[k] = Whole(d) /\ payload[k] = Whole(d)

\* The key is refused for ever: the file a put would have to finish is already there, short.
Damaged(k) == sidecar[k].is = "short" \/ payload[k].is = "short"

-----------------------------------------------------------------------------
(* Properties *)

\* Files and writers are well formed.
TypeOK ==
  /\ sidecar \in [Keys -> Files] /\ payload \in [Keys -> Files]
  /\ put \in [Writers -> {Idle} \cup Putting]
  /\ answered \in SUBSET (Keys \X Docs)

ClaimOf(file) == IF file = Absent THEN {} ELSE {file.doc}

\* The layer keeps the promise of Archive: the first claim stands, and what put returns is
\* stored whole and never changes, through crashes and failed writes ("Write-once with two
\* outcomes and no third").
A == INSTANCE Archive WITH
  claimed <- [k \in Keys |-> ClaimOf(sidecar[k])],
  stored <- {k \in Keys : payload[k].is = "whole"}
ImplementsArchive == A!Spec
=============================================================================
