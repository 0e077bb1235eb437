--------------------------- MODULE RawStoreProofs ---------------------------
(***************************************************************************)
(* For any writers, keys and documents, L0Store keeps the promise of       *)
(* Archive: the first claim stands, and an answer names a document that is *)
(* stored whole.                                                           *)
(***************************************************************************)
EXTENDS RawStore, TLAPS

Claiming(w) == At(w, "claiming") => sidecar[put[w].key] = Short(put[w].doc)

\* From its claim on, a writer's document is the one its key was claimed for.
Claimant(w) == put[w].at \in {"store", "storing", "stored"} =>
                 sidecar[put[w].key] = Whole(put[w].doc)

Storing(w) == At(w, "storing") => payload[put[w].key] = Short(put[w].doc)

\* O_EXCL: one writer at most writes a file.
OneWriter == \A v, w \in Writers :
  /\ At(v, "claiming") /\ At(w, "claiming") /\ put[v].key = put[w].key => v = w
  /\ At(v, "storing") /\ At(w, "storing") /\ put[v].key = put[w].key => v = w

IInv ==
  /\ TypeOK /\ OneWriter
  /\ \A w \in Writers : Claiming(w) /\ Claimant(w) /\ Storing(w)

\* An empty store has no writer under way.
LEMMA InitInv == Init => IInv
  BY DEF Init, IInv, TypeOK, OneWriter, Claiming, Claimant, Storing, At, Idle, Files

-----------------------------------------------------------------------------
(* Files and steps *)

\* Absent, short and whole files are told apart, and name the document they were claimed for.
LEMMA FileFacts ==
  ASSUME NEW d \in Docs, NEW e \in Docs
  PROVE  /\ Short(d) \in Files /\ Whole(d) \in Files /\ Absent \in Files
         /\ Short(d) # Absent /\ Whole(d) # Absent /\ Short(d) # Whole(e)
         /\ Short(d).is = "short" /\ Whole(d).is = "whole" /\ Absent.is = "absent"
         /\ ClaimOf(Short(d)) = {d} /\ ClaimOf(Whole(d)) = {d} /\ ClaimOf(Absent) = {}
         /\ Short(d) = Short(e) => d = e
         /\ Whole(d) = Whole(e) => d = e
<1>1. Short(d).is = "short" /\ Whole(d).is = "whole" /\ Absent.is = "absent"
  BY DEF Short, Whole, Absent
<1>2. Short(d).doc = d /\ Whole(d).doc = d /\ Short(e).doc = e /\ Whole(e).doc = e
  BY DEF Short, Whole
<1>3. Whole(e).is = "whole"
  BY DEF Whole
<1> QED
  BY <1>1, <1>2, <1>3 DEF Files, ClaimOf

\* A writer under way is on a key with a document.
LEMMA BusyWriter ==
  ASSUME TypeOK, NEW w \in Writers, put[w].at # "idle"
  PROVE  put[w] \in Putting /\ put[w].key \in Keys /\ put[w].doc \in Docs
  BY DEF TypeOK, Putting, Idle

-----------------------------------------------------------------------------
(* Each step keeps the invariant *)

\* A put that begins.
LEMMA PutStep ==
  ASSUME IInv, NEW w \in Writers, NEW k \in Keys, NEW d \in Docs, Put(w, k, d)
  PROVE  IInv'
  BY DEF IInv, TypeOK, OneWriter, Claiming, Claimant, Storing, Put, At, Idle, Putting, Steps

\* A sidecar created short, or the one in place read.
LEMMA ClaimStep ==
  ASSUME IInv, NEW w \in Writers, Claim(w)
  PROVE  IInv'
<1> DEFINE k == put[w].key
           d == put[w].doc
<1>1. put[w] \in Putting /\ k \in Keys /\ d \in Docs
  BY BusyWriter DEF IInv, Claim, At
<1>2. CASE sidecar[k] = Absent
  <2>1. sidecar' = [sidecar EXCEPT ![k] = Short(d)] /\ put' = [put EXCEPT ![w].at = "claiming"]
    BY <1>2 DEF Claim, Goes
  <2>2. payload' = payload /\ answered' = answered /\ At(w, "claim")
    BY DEF Claim
  <2>3. TypeOK'
    BY <1>1, <2>1, <2>2, FileFacts DEF IInv, TypeOK, Putting, Steps
  <2>4. OneWriter'
    BY <1>1, <1>2, <2>1, <2>2, FileFacts, BusyWriter
    DEF IInv, TypeOK, OneWriter, At, Claiming, Putting
  <2>5. \A v \in Writers : (Claiming(v) /\ Claimant(v) /\ Storing(v))'
    BY <1>1, <1>2, <2>1, <2>2, FileFacts, BusyWriter
    DEF IInv, TypeOK, At, Claiming, Claimant, Storing, Putting
  <2> QED
    BY <2>3, <2>4, <2>5 DEF IInv
<1>3. CASE sidecar[k] # Absent
  <2> DEFINE step == IF Agrees(sidecar[k], d) THEN "store" ELSE "refused"
  <2>1. sidecar' = sidecar /\ payload' = payload /\ answered' = answered
    BY <1>3 DEF Claim
  <2>2. put' = [put EXCEPT ![w].at = step]
    BY <1>3 DEF Claim, Goes
  <2>3. step = "store" => sidecar[k] = Whole(d)
    BY DEF Agrees
  <2>4. step \in {"store", "refused"}
    OBVIOUS
  <2> HIDE DEF step
  <2> QED
    BY <1>1, <2>1, <2>2, <2>3, <2>4
    DEF IInv, TypeOK, OneWriter, At, Claiming, Claimant, Storing, Putting, Steps
<1> QED
  BY <1>2, <1>3

\* A sidecar written whole.
LEMMA ClaimedStep ==
  ASSUME IInv, NEW w \in Writers, Claimed(w)
  PROVE  IInv'
<1> DEFINE k == put[w].key
           d == put[w].doc
<1>1. put[w] \in Putting /\ k \in Keys /\ d \in Docs
  BY BusyWriter DEF IInv, Claimed, At
<1>2. /\ sidecar' = [sidecar EXCEPT ![k] = Whole(d)] /\ put' = [put EXCEPT ![w].at = "store"]
      /\ payload' = payload /\ answered' = answered
      /\ At(w, "claiming") /\ sidecar[k] = Short(d)
  BY DEF Claimed, Goes, IInv, Claiming
<1>3. TypeOK' /\ OneWriter'
  BY <1>1, <1>2, FileFacts DEF IInv, TypeOK, OneWriter, At, Putting, Steps
<1>4. ASSUME NEW v \in Writers PROVE (Claiming(v) /\ Claimant(v) /\ Storing(v))'
  <2>1. CASE v = w
    BY <1>1, <1>2, <2>1 DEF IInv, TypeOK, At, Claiming, Claimant, Storing, Putting
  <2>2. CASE v # w
    BY <1>1, <1>2, <2>2, FileFacts, BusyWriter
    DEF IInv, TypeOK, OneWriter, At, Claiming, Claimant, Storing, Putting
  <2> QED
    BY <2>1, <2>2
<1> QED
  BY <1>3, <1>4 DEF IInv

\* A payload created short, or the one in place hashed.
LEMMA StoreStep ==
  ASSUME IInv, NEW w \in Writers, Store(w)
  PROVE  IInv'
<1> DEFINE k == put[w].key
           d == put[w].doc
<1>1. put[w] \in Putting /\ k \in Keys /\ d \in Docs
  BY BusyWriter DEF IInv, Store, At
<1>2. sidecar' = sidecar /\ At(w, "store")
  BY DEF Store
<1>3. CASE payload[k] = Absent
  <2>1. /\ payload' = [payload EXCEPT ![k] = Short(d)] /\ answered' = answered
        /\ put' = [put EXCEPT ![w].at = "storing"]
    BY <1>1, <1>3, FileFacts DEF Store, Goes, Agrees
  <2>2. TypeOK'
    BY <1>1, <1>2, <2>1, FileFacts DEF IInv, TypeOK, Putting, Steps
  <2>3. OneWriter'
    BY <1>1, <1>2, <1>3, <2>1, FileFacts, BusyWriter
    DEF IInv, TypeOK, OneWriter, At, Storing, Putting
  <2>4. \A v \in Writers : (Claiming(v) /\ Claimant(v) /\ Storing(v))'
    BY <1>1, <1>2, <1>3, <2>1, FileFacts, BusyWriter
    DEF IInv, TypeOK, At, Claiming, Claimant, Storing, Putting
  <2> QED
    BY <2>2, <2>3, <2>4 DEF IInv
<1>4. CASE payload[k] # Absent
  <2> DEFINE step == IF Agrees(payload[k], d) THEN "stored" ELSE "refused"
  <2>1. payload' = payload /\ put' = [put EXCEPT ![w].at = step]
    BY <1>4 DEF Store, Goes
  <2>2. answered' \in SUBSET (Keys \X Docs)
    BY <1>1 DEF Store, Answered, IInv, TypeOK
  <2>3. step \in {"stored", "refused"}
    OBVIOUS
  <2> HIDE DEF step
  <2> QED
    BY <1>1, <1>2, <2>1, <2>2, <2>3
    DEF IInv, TypeOK, OneWriter, At, Claiming, Claimant, Storing, Putting, Steps
<1> QED
  BY <1>3, <1>4

\* A payload written whole, and the put answered.
LEMMA StoredStep ==
  ASSUME IInv, NEW w \in Writers, Stored(w)
  PROVE  IInv'
<1> DEFINE k == put[w].key
           d == put[w].doc
<1>1. put[w] \in Putting /\ k \in Keys /\ d \in Docs
  BY BusyWriter DEF IInv, Stored, At
<1>2. /\ payload' = [payload EXCEPT ![k] = Whole(d)] /\ put' = [put EXCEPT ![w].at = "stored"]
      /\ sidecar' = sidecar /\ answered' = answered \cup {<<k, d>>}
      /\ At(w, "storing")
  BY DEF Stored, Goes, Answered
<1>3. TypeOK' /\ OneWriter'
  BY <1>1, <1>2, FileFacts DEF IInv, TypeOK, OneWriter, At, Putting, Steps
<1>4. ASSUME NEW v \in Writers PROVE (Claiming(v) /\ Claimant(v) /\ Storing(v))'
  <2>1. CASE v = w
    BY <1>1, <1>2, <2>1 DEF IInv, TypeOK, At, Claiming, Claimant, Storing, Putting
  <2>2. CASE v # w
    BY <1>1, <1>2, <2>2, FileFacts, BusyWriter
    DEF IInv, TypeOK, OneWriter, At, Claiming, Claimant, Storing, Putting
  <2> QED
    BY <2>1, <2>2
<1> QED
  BY <1>3, <1>4 DEF IInv

\* A write that fails.
LEMMA WriteFailsStep ==
  ASSUME IInv, NEW w \in Writers, WriteFails(w)
  PROVE  IInv'
<1>1. put[w] \in Putting
  BY BusyWriter DEF IInv, WriteFails, At
<1> QED
  BY <1>1 DEF WriteFails, Goes, IInv, TypeOK, OneWriter, Claiming, Claimant, Storing, At, Putting,
              Steps

\* A put that is over, or whose process dies.
LEMMA LeaveStep ==
  ASSUME IInv, NEW w \in Writers, Leave(w)
  PROVE  IInv'
  BY DEF IInv, TypeOK, OneWriter, Claiming, Claimant, Storing, Leave, At, Idle

\* Every step keeps the invariant.
LEMMA InvStep == IInv /\ [Next]_vars => IInv'
<1> SUFFICES ASSUME IInv, [Next]_vars PROVE IInv'
  OBVIOUS
<1>1. CASE UNCHANGED vars
  BY <1>1 DEF vars, IInv, TypeOK, OneWriter, Claiming, Claimant, Storing, At
<1>2. CASE Next
  BY <1>2, PutStep, ClaimStep, ClaimedStep, StoreStep, StoredStep, WriteFailsStep, LeaveStep
  DEF Next
<1> QED
  BY <1>1, <1>2

\* A file once whole is never touched again.
LEMMA WholeStays ==
  ASSUME IInv, [Next]_vars, NEW k \in Keys, NEW d \in Docs
  PROVE  /\ sidecar[k] = Whole(d) => sidecar'[k] = Whole(d)
         /\ payload[k] = Whole(d) => payload'[k] = Whole(d)
<1>1. ASSUME NEW w \in Writers, Claim(w) \/ Claimed(w)
      PROVE  sidecar[k] = Whole(d) => sidecar'[k] = Whole(d)
  <2>1. put[w].key \in Keys /\ put[w].doc \in Docs
    BY <1>1, BusyWriter DEF IInv, Claim, Claimed, At
  <2> QED
    BY <1>1, <2>1, FileFacts DEF Claim, Claimed, At, IInv, TypeOK, Claiming
<1>2. ASSUME NEW w \in Writers, Store(w) \/ Stored(w)
      PROVE  payload[k] = Whole(d) => payload'[k] = Whole(d)
  <2>1. put[w].key \in Keys /\ put[w].doc \in Docs
    BY <1>2, BusyWriter DEF IInv, Store, Stored, At
  <2> QED
    BY <1>2, <2>1, FileFacts DEF Store, Stored, At, IInv, TypeOK, Storing
<1> QED
  BY <1>1, <1>2 DEF Next, vars, Put, Claim, Claimed, Store, Stored, WriteFails, Leave

\* Files and writers stay well formed for any writers, keys and documents (L0Store).
THEOREM TypeCorrect == Spec => []TypeOK
<1>1. IInv => TypeOK
  BY DEF IInv
<1> QED
  BY InitInv, InvStep, <1>1, PTL DEF Spec

-----------------------------------------------------------------------------
(* The refinement *)

claimed == [k \in Keys |-> ClaimOf(sidecar[k])]
stored == {k \in Keys : payload[k].is = "whole"}

\* An empty store is an empty archive.
LEMMA InitRefines == Init => A!Init
  BY DEF Init, A!Init, ClaimOf, Absent

\* Only a sidecar claims.
LEMMA Unclaimed ==
  ASSUME sidecar' = sidecar
  PROVE  claimed' = claimed
  BY DEF claimed

\* A sidecar created is a Claim, one written whole changes nothing of the promise.
LEMMA ClaimRefines ==
  ASSUME IInv, NEW w \in Writers, Claim(w)
  PROVE  [A!Next]_(A!vars)
<1> DEFINE k == put[w].key
           d == put[w].doc
<1>1. k \in Keys /\ d \in Docs
  BY BusyWriter DEF IInv, Claim, At
<1>2. stored' = stored /\ answered' = answered
  BY DEF Claim, stored
<1>3. CASE sidecar[k] = Absent
  <2>1. sidecar' = [sidecar EXCEPT ![k] = Short(d)]
    BY <1>3 DEF Claim
  <2>2. claimed[k] = {} /\ claimed' = [claimed EXCEPT ![k] = {d}]
    BY <1>1, <1>3, <2>1, FileFacts DEF claimed, IInv, TypeOK
  <2>3. A!Claim(k, d)
    BY <1>2, <2>2 DEF A!Claim, claimed, stored
  <2> QED
    BY <1>1, <2>3 DEF A!Next
<1>4. CASE sidecar[k] # Absent
  <2>1. sidecar' = sidecar
    BY <1>4 DEF Claim
  <2> QED
    BY <1>2, <2>1, Unclaimed DEF A!vars, claimed, stored
<1> QED
  BY <1>3, <1>4

\* A sidecar written whole claims nothing new.
LEMMA ClaimedRefines ==
  ASSUME IInv, NEW w \in Writers, Claimed(w)
  PROVE  UNCHANGED A!vars
<1> DEFINE k == put[w].key
           d == put[w].doc
<1>1. k \in Keys /\ d \in Docs
  BY BusyWriter DEF IInv, Claimed, At
<1>2. sidecar' = [sidecar EXCEPT ![k] = Whole(d)] /\ sidecar[k] = Short(d)
  BY DEF Claimed, IInv, Claiming
<1>3. \A j \in Keys : ClaimOf(sidecar'[j]) = ClaimOf(sidecar[j])
  <2>1. sidecar \in [Keys -> Files]
    BY DEF IInv, TypeOK
  <2>2. PICK e \in Docs : e = d
    BY <1>1
  <2>3. ClaimOf(Whole(e)) = ClaimOf(Short(e))
    BY FileFacts
  <2>4. sidecar'[k] = Whole(e) /\ sidecar[k] = Short(e)
    BY <1>1, <1>2, <2>1, <2>2
  <2>5. ClaimOf(sidecar'[k]) = ClaimOf(sidecar[k])
    BY <2>3, <2>4
  <2> QED
    BY <1>1, <1>2, <2>1, <2>5
<1>4. stored' = stored /\ answered' = answered
  BY DEF Claimed, stored
<1> QED
  BY <1>3, <1>4 DEF A!vars, stored

\* A payload created changes nothing of the promise, one already there is an Answer or refused.
LEMMA StoreRefines ==
  ASSUME IInv, NEW w \in Writers, Store(w)
  PROVE  [A!Next]_(A!vars)
<1> DEFINE k == put[w].key
           d == put[w].doc
<1>1. k \in Keys /\ d \in Docs
  BY BusyWriter DEF IInv, Store, At
<1>2. claimed' = claimed /\ claimed[k] = {d}
  BY <1>1, Unclaimed, FileFacts DEF Store, IInv, Claimant, At, claimed
<1>3. CASE payload[k] = Absent
  <2>1. payload' = [payload EXCEPT ![k] = Short(d)] /\ answered' = answered
    BY <1>1, <1>3, FileFacts DEF Store, Agrees
  <2>2. stored' = stored
    BY <1>1, <1>3, <2>1, FileFacts DEF stored, IInv, TypeOK
  <2> QED
    BY <1>2, <2>1, <2>2 DEF A!vars, claimed, stored
<1>4. CASE payload[k] # Absent /\ Agrees(payload[k], d)
  <2>1. payload' = payload /\ answered' = answered \cup {<<k, d>>}
    BY <1>4 DEF Store, Answered
  <2>2. k \in stored /\ stored' = stored
    BY <1>1, <1>4, <2>1, FileFacts DEF Agrees, stored
  <2>3. A!Answer(k, d)
    BY <1>2, <2>1, <2>2 DEF A!Answer, claimed, stored
  <2> QED
    BY <1>1, <2>3 DEF A!Next
<1>5. CASE payload[k] # Absent /\ ~Agrees(payload[k], d)
  <2>1. payload' = payload /\ answered' = answered
    BY <1>5 DEF Store
  <2> QED
    BY <1>2, <2>1 DEF A!vars, claimed, stored
<1> QED
  BY <1>3, <1>4, <1>5

\* A payload written whole is a Store, which the put then answers for.
LEMMA StoredRefines ==
  ASSUME IInv, NEW w \in Writers, Stored(w)
  PROVE  [A!Next]_(A!vars)
<1>1. PICK k \in Keys, d \in Docs : put[w].key = k /\ put[w].doc = d
  BY BusyWriter DEF IInv, Stored, At
<1>2. sidecar[k] = Whole(d) /\ payload[k] = Short(d)
  BY <1>1 DEF Stored, IInv, Claimant, Storing, At
<1>3. payload' = [payload EXCEPT ![k] = Whole(d)] /\ answered' = answered \cup {<<k, d>>}
  BY <1>1 DEF Stored, Answered
<1>4. claimed' = claimed /\ claimed[k] = {d}
  BY <1>2, Unclaimed, FileFacts DEF Stored, claimed
<1>5. k \notin stored /\ stored' = stored \cup {k}
  BY <1>2, <1>3, FileFacts DEF stored, IInv, TypeOK
<1>6. A!Store(k, d)
  BY <1>3, <1>4, <1>5 DEF A!Store, claimed, stored
<1> QED
  BY <1>6 DEF A!Next

\* Every step is one of the archive, or invisible to it.
LEMMA StepRefines == IInv /\ [Next]_vars => [A!Next]_(A!vars)
<1> SUFFICES ASSUME IInv, [Next]_vars PROVE [A!Next]_(A!vars)
  OBVIOUS
<1>1. ASSUME NEW w \in Writers, Claim(w) \/ Claimed(w) \/ Store(w) \/ Stored(w)
      PROVE  [A!Next]_(A!vars)
  BY <1>1, ClaimRefines, ClaimedRefines, StoreRefines, StoredRefines
<1>2. ASSUME UNCHANGED <<sidecar, payload, answered>>
      PROVE  UNCHANGED A!vars
  BY <1>2 DEF A!vars
<1> QED
  BY <1>1, <1>2 DEF Next, vars, Put, WriteFails, Leave

\* L0Store implements Archive for any writers, keys and documents, through crashes and failed
\* writes: the first claim of a key stands, and what put returns is stored whole and never
\* changes ("Write-once with two outcomes and no third").
THEOREM StoreIsArchive == Spec => ImplementsArchive
<1>1. Init => A!Init
  BY InitRefines
<1>2. IInv /\ [Next]_vars => [A!Next]_(A!vars)
  BY StepRefines
<1> QED
  BY InitInv, InvStep, <1>1, <1>2, PTL DEF Spec, ImplementsArchive, A!Spec
=============================================================================
