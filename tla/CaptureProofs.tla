--------------------------- MODULE CaptureProofs ---------------------------
(***************************************************************************)
(* What Capture's drivers inherit: for any drivers, sessions and contents  *)
(* every step of Capture is a step of the lease and one of the raw store,  *)
(* or leaves them alone, so what is proved of each holds of the whole.     *)
(***************************************************************************)
EXTENDS Capture, TLAPS

LeaseP == INSTANCE HostLeaseProofs
StoreP == INSTANCE RawStoreProofs WITH Writers <- Drivers, Keys <- Sessions, Docs <- Contents

-----------------------------------------------------------------------------
(* The lease *)

\* Capture's instance of the lease and the one proved about are one.
LEMMA SameLease ==
  /\ Lease!Init <=> LeaseP!Init
  /\ Lease!Next <=> LeaseP!Next
  /\ Lease!OneDriver <=> LeaseP!OneDriver
<1>1. Lease!Next <=> LeaseP!Next
  BY DEF Lease!Next, LeaseP!Next, Lease!Take, LeaseP!Take, Lease!Create, LeaseP!Create,
         Lease!Write, LeaseP!Write, Lease!Find, LeaseP!Find, Lease!Break, LeaseP!Break,
         Lease!Refused, LeaseP!Refused, Lease!Release, LeaseP!Release, Lease!Unlink,
         LeaseP!Unlink, Lease!Dies, LeaseP!Dies, Lease!Ages, LeaseP!Ages, Lease!Goes,
         LeaseP!Goes, Lease!Mine, LeaseP!Mine, Lease!Removes, LeaseP!Removes,
         Lease!Breakable, LeaseP!Breakable, Lease!NoLease, LeaseP!NoLease
<1> QED
  BY <1>1 DEF Lease!Init, LeaseP!Init, Lease!OneDriver, LeaseP!OneDriver,
              Lease!NoLease, LeaseP!NoLease

\* Every step of the capture is one of the lease, or leaves it alone.
LEMMA LeaseSteps == [Next]_vars => [Lease!Next]_(Lease!vars)
<1> SUFFICES ASSUME [Next]_vars PROVE [Lease!Next]_(Lease!vars)
  OBVIOUS
<1> USE DEF leaseVars, Lease!vars, Drivers
<1>1. CASE UNCHANGED vars
  BY <1>1 DEF vars
<1>2. ASSUME NEW p \in Jobs, Fire(p) PROVE [Lease!Next]_(Lease!vars)
  BY <1>2 DEF Fire, Lease!Next
<1>3. ASSUME NEW p \in Campaigns, Start(p) PROVE [Lease!Next]_(Lease!vars)
  BY <1>3 DEF Start, Lease!Next
<1>4. ASSUME NEW p \in Drivers, LeaseStep(p) \/ Busy(p) PROVE [Lease!Next]_(Lease!vars)
  BY <1>4 DEF LeaseStep, Busy, Lease!Next
<1>5. ASSUME NEW p \in Drivers, Crash(p) PROVE [Lease!Next]_(Lease!vars)
  BY <1>5 DEF Crash, Lease!Next
<1>6. ASSUME LeaseAges PROVE [Lease!Next]_(Lease!vars)
  BY <1>6 DEF LeaseAges, Lease!Next
<1>7. ASSUME NEW p \in Drivers,
             JobUnit(p) \/ CampaignUnit(p) \/ Fetch(p) \/ NotServed(p) \/ FetchFails(p)
             \/ PutStep(p) \/ PutRefused(p) \/ Parse(p)
      PROVE  UNCHANGED leaseVars
  BY <1>7 DEF JobUnit, CampaignUnit, Fetch, NotServed, FetchFails, PutStep, PutRefused, Parse,
              OnlyOwn
<1>8. ASSUME NEW p \in Drivers,
             Land(p) \/ Begin(p) \/ WriteL1(p) \/ WriteL2(p) \/ Publish(p) \/ LandFails(p)
             \/ Fail(p) \/ Record(p) \/ Finish(p)
      PROVE  UNCHANGED leaseVars
  BY <1>8 DEF Land, Begin, WriteL1, WriteL2, Publish, LandFails, Fail, Record, Finish, OnlyOwn
<1>9. ASSUME Serve \/ Restate PROVE UNCHANGED leaseVars
  BY <1>9 DEF Serve, Restate
<1> QED
  BY <1>1, <1>2, <1>3, <1>4, <1>5, <1>6, <1>7, <1>8, <1>9 DEF Next, Runs

\* For any jobs and campaigns one driver fetches from the host at a time, unless a live lease was
\* removed in one of the ways raced records (host_lease around both drivers).
THEOREM CaptureExcludes == Spec => []OneDriver
<1>1. Init => LeaseP!Init
  BY SameLease DEF Init
<1>2. [Next]_vars => [LeaseP!Next]_(LeaseP!vars)
  BY LeaseSteps, SameLease DEF Lease!vars, LeaseP!vars
<1>3. LeaseP!OneDriver => OneDriver
  BY SameLease DEF OneDriver
<1> QED
  BY LeaseP!LeaseExcludes, <1>1, <1>2, <1>3, PTL DEF Spec, LeaseP!Spec

-----------------------------------------------------------------------------
(* The raw store *)

\* Capture's instance of the raw store and the one proved about are one.
LEMMA SameStore ==
  /\ L0!Init <=> StoreP!Init
  /\ L0!Next <=> StoreP!Next
<1>1. L0!Next <=> StoreP!Next
  BY DEF L0!Next, StoreP!Next, L0!Put, StoreP!Put, L0!Claim, StoreP!Claim, L0!Claimed,
         StoreP!Claimed, L0!Store, StoreP!Store, L0!Stored, StoreP!Stored, L0!WriteFails,
         StoreP!WriteFails, L0!Leave, StoreP!Leave, L0!At, StoreP!At, L0!Goes, StoreP!Goes,
         L0!Answered, StoreP!Answered, L0!Agrees, StoreP!Agrees, L0!Absent, StoreP!Absent,
         L0!Short, StoreP!Short, L0!Whole, StoreP!Whole, L0!Idle, StoreP!Idle
<1> QED
  BY <1>1 DEF L0!Init, StoreP!Init, L0!Absent, StoreP!Absent, L0!Idle, StoreP!Idle

\* So are the archives the two of them implement.
LEMMA SameArchive == (L0!A!Init <=> StoreP!A!Init) /\ (L0!A!Next <=> StoreP!A!Next)
  BY DEF L0!A!Init, StoreP!A!Init, L0!A!Next, StoreP!A!Next, L0!A!Claim, StoreP!A!Claim,
         L0!A!Store, StoreP!A!Store, L0!A!Answer, StoreP!A!Answer, L0!ClaimOf, StoreP!ClaimOf,
         L0!Absent, StoreP!Absent

HasRows == {"land", "begin", "l1", "l2", "publish"}
OnFile == HasRows \cup {"ref", "put", "fail", "record"}
Places == OnFile \cup {"idle", "next", "release"}

\* Whoever is on a file, or records that it has none, is on a session; the host serves contents.
OnSession ==
  /\ served \in [Sessions -> SUBSET Contents]
  /\ at \in [Drivers -> Places]
  /\ unit \in [Drivers -> 1..Owed + 1] /\ plan \in [Drivers -> Sessions]
  /\ \A p \in Jobs : unit[p] \in Sessions
  /\ \A p \in Drivers : at[p] \in OnFile => unit[p] \in Sessions

\* The first and the last session owed are sessions, and each has a next unit.
LEMMA FirstAndLast ==
  /\ 1 \in Sessions /\ Owed \in Sessions /\ Sessions \subseteq 1..Owed + 1
  /\ \A s \in Sessions : s + 1 \in 1..Owed + 1
  BY BoundsAssumption DEF Sessions

\* Nobody is on a session at first.
LEMMA OnSessionInit == Init => OnSession
<1> SUFFICES ASSUME Init PROVE OnSession
  OBVIOUS
<1>1. served \in [Sessions -> SUBSET Contents]
  <2>1. PICK past \in [1..Owed - 1 -> Parseable] :
          served = [s \in Sessions |-> IF s = Owed THEN None ELSE {past[s]}]
    BY DEF Init
  <2>2. ASSUME NEW s \in Sessions, s # Owed PROVE past[s] \in Contents
    BY <2>2, ContentsAssumption, BoundsAssumption DEF Sessions
  <2> QED
    BY <2>1, <2>2 DEF None
<1>2. /\ at = [p \in Drivers |-> "idle"]
      /\ unit = [p \in Drivers |-> 1] /\ plan = [p \in Drivers |-> 1]
  BY DEF Init
<1> QED
  BY <1>1, <1>2, FirstAndLast DEF OnSession, Drivers, Places, OnFile, HasRows

\* A step that leaves plan and served alone, and unit but for a campaign's next session, and
\* sets nobody on a session it was not on.
LEMMA Onwards ==
  ASSUME OnSession, NEW p \in Drivers, NEW step \in Places, Goes(p, step),
         plan' = plan, served' = served,
         step \notin OnFile \/ (at[p] \in OnFile /\ unit' = unit) \/ (p \in Jobs /\ unit' = unit),
         \/ unit' = unit
         \/ p \notin Jobs /\ unit[p] \in Sessions /\ unit' = [unit EXCEPT ![p] = @ + 1]
  PROVE  OnSession'
<1>1. unit' \in [Drivers -> 1..Owed + 1] /\ \A q \in Drivers : q # p => unit'[q] = unit[q]
  BY FirstAndLast DEF OnSession
<1>2. at' \in [Drivers -> Places] /\ at'[p] = step
      /\ \A q \in Drivers : q # p => at'[q] = at[q]
  BY DEF OnSession, Goes
<1>3. \A q \in Jobs : unit'[q] \in Sessions
  BY DEF OnSession, Drivers
<1> QED
  BY <1>1, <1>2, <1>3 DEF OnSession

\* A run that ends, or dies, leaves the others where they are.
LEMMA RunEnds ==
  ASSUME OnSession, NEW p \in Drivers, Ends(p), served' = served
  PROVE  OnSession'
<1>1. /\ at' = [at EXCEPT ![p] = "idle"]
      /\ unit' = [unit EXCEPT ![p] = 1] /\ plan' = [plan EXCEPT ![p] = 1]
  BY DEF Ends, Goes
<1> QED
  BY <1>1, FirstAndLast DEF OnSession, Drivers, Places, OnFile, HasRows

\* A run that begins is given its session or its plan.
LEMMA RunBegins ==
  ASSUME OnSession, NEW p \in Drivers, NEW step \in {"next", "release"}, Goes(p, step),
         served' = served, NEW s \in Sessions, unit' = [unit EXCEPT ![p] = s],
         plan' = plan \/ \E last \in Sessions : plan' = [plan EXCEPT ![p] = last]
  PROVE  OnSession'
<1>1. at' = [at EXCEPT ![p] = step] /\ step \in Places /\ step \notin OnFile
  BY DEF Goes, Places, OnFile, HasRows
<1>2. plan' \in [Drivers -> Sessions]
  BY DEF OnSession
<1>3. unit' \in [Drivers -> 1..Owed + 1] /\ \A q \in Jobs : unit'[q] \in Sessions
  BY FirstAndLast DEF OnSession, Drivers
<1> QED
  BY <1>1, <1>2, <1>3 DEF OnSession

\* No step takes a driver to a file of no session.
LEMMA OnSessionStep == OnSession /\ [Next]_vars => OnSession'
<1> SUFFICES ASSUME OnSession, [Next]_vars PROVE OnSession'
  OBVIOUS
<1> USE DEF ownVars, worldVars, OnFile, HasRows
<1>1. CASE UNCHANGED vars
  BY <1>1 DEF vars, OnSession
<1>2. ASSUME NEW p \in Jobs, Fire(p) PROVE OnSession'
  <2>1. \E step \in {"next", "release"} : Goes(p, step)
    BY <1>2 DEF Fire
  <2>2. p \in Drivers /\ plan' = plan /\ served' = served /\ unit' = [unit EXCEPT ![p] = Owed]
    BY <1>2 DEF Fire, Drivers
  <2> QED
    BY <2>1, <2>2, RunBegins, FirstAndLast
<1>3. ASSUME NEW p \in Campaigns, Start(p) PROVE OnSession'
  <2>1. /\ Goes(p, "next") /\ served' = served /\ unit' = [unit EXCEPT ![p] = 1]
        /\ \E last \in Sessions : plan' = [plan EXCEPT ![p] = last]
    BY <1>3 DEF Start
  <2> QED
    BY <2>1, RunBegins, FirstAndLast DEF Drivers
<1>4. ASSUME NEW p \in Drivers, LeaseStep(p) PROVE OnSession'
  BY <1>4 DEF LeaseStep, OnSession
<1>5. ASSUME NEW p \in Drivers, Busy(p) PROVE OnSession'
  <2>1. CASE p \in Jobs
    BY <1>5, <2>1, Onwards DEF Busy, Fails, Places
  <2>2. CASE p \notin Jobs
    BY <1>5, <2>2, RunEnds DEF Busy
  <2> QED
    BY <2>1, <2>2
<1>6. ASSUME NEW p \in Jobs, JobUnit(p) PROVE OnSession'
  <2>1. p \in Drivers /\ unit' = unit /\ plan' = plan /\ served' = served
    BY <1>6 DEF JobUnit, OnlyOwn, Drivers
  <2>2. Goes(p, "release") \/ Goes(p, "ref")
    BY <1>6 DEF JobUnit
  <2>3. at' \in [Drivers -> Places] /\ \A q \in Drivers : q # p => at'[q] = at[q]
    BY <2>1, <2>2 DEF Goes, OnSession, Places
  <2> QED
    BY <2>1, <2>3 DEF OnSession
<1>7. ASSUME NEW p \in Campaigns, CampaignUnit(p) PROVE OnSession'
  <2>1. p \notin Jobs /\ p \in Drivers /\ plan' = plan /\ served' = served
    BY <1>7, DriversAssumption DEF Drivers, CampaignUnit, OnlyOwn
  <2>2. unit[p] <= plan[p] => unit[p] \in Sessions
    <3>1. unit[p] \in 1..Owed + 1 /\ plan[p] \in Sessions
      BY <2>1 DEF OnSession
    <3> QED
      BY <3>1, BoundsAssumption DEF Sessions
  <2>3. CASE Goes(p, "ref") /\ unit' = unit /\ unit[p] <= plan[p]
    <3>1. at' \in [Drivers -> Places] /\ \A q \in Drivers : q # p => at'[q] = at[q]
      BY <2>1, <2>3 DEF Goes, OnSession, Places
    <3> QED
      BY <2>1, <2>2, <2>3, <3>1 DEF OnSession
  <2>4. CASE unit[p] <= plan[p] /\ Onward(p)
    BY <2>1, <2>2, <2>4, Onwards DEF Onward, Places
  <2>5. CASE Goes(p, "release") /\ unit' = unit
    BY <2>1, <2>5, Onwards DEF Places
  <2> QED
    BY <1>7, <2>3, <2>4, <2>5 DEF CampaignUnit
<1>8. ASSUME NEW p \in Drivers, NEW step \in Places, Goes(p, step), plan' = plan,
             served' = served, unit' = unit, step \notin OnFile \/ at[p] \in OnFile
      PROVE  OnSession'
  BY <1>8, Onwards
<1>9. ASSUME NEW p \in Drivers, Fetch(p) \/ NotServed(p) \/ FetchFails(p) PROVE OnSession'
  BY <1>8, <1>9 DEF Fetch, NotServed, FetchFails, Fails, Fault, OnlyOwn, Places
<1>10. ASSUME NEW p \in Drivers, PutStep(p) PROVE OnSession'
  BY <1>10 DEF PutStep, Fault, OnSession
<1>11. ASSUME NEW p \in Drivers, PutRefused(p) \/ Parse(p) PROVE OnSession'
  BY <1>8, <1>11 DEF PutRefused, Parse, Fails, Places
<1>12. ASSUME NEW p \in Drivers, Land(p) \/ Begin(p) \/ WriteL1(p) \/ WriteL2(p) PROVE OnSession'
  BY <1>8, <1>12 DEF Land, Begin, WriteL1, WriteL2, OnlyOwn, Places
<1>13. ASSUME NEW p \in Drivers, LandFails(p) \/ Fail(p) PROVE OnSession'
  BY <1>8, <1>13 DEF LandFails, Fail, Fault, OnlyOwn, Places
<1>14. ASSUME NEW p \in Drivers, Onward(p), at[p] \in OnFile, plan' = plan, served' = served
       PROVE  OnSession'
  BY <1>14, Onwards DEF Onward, Places, OnSession
<1>15. ASSUME NEW p \in Drivers, Publish(p) \/ Record(p) PROVE OnSession'
  <2>1. at[p] \in OnFile /\ plan' = plan /\ served' = served
    BY <1>15 DEF Publish, Record
  <2>2. Onward(p) \/ (Goes(p, "release") /\ unit' = unit)
    BY <1>15 DEF Publish, Record
  <2> QED
    BY <1>8, <1>14, <2>1, <2>2 DEF Places
<1>16. ASSUME NEW p \in Drivers, Finish(p) \/ Crash(p) PROVE OnSession'
  BY <1>16, RunEnds DEF Finish, Crash, Fault
<1>17. ASSUME Serve \/ Restate PROVE OnSession'
  BY <1>17 DEF Serve, Restate, Publishes, OnSession
<1>18. ASSUME LeaseAges PROVE OnSession'
  BY <1>18 DEF LeaseAges, Fault, OnSession
<1> QED
  BY <1>1, <1>2, <1>3, <1>4, <1>5, <1>6, <1>7, <1>9, <1>10, <1>11, <1>12, <1>13, <1>15, <1>16,
     <1>17, <1>18 DEF Next, Runs

\* Every step of the capture is one of the raw store, or leaves it alone.
LEMMA StoreSteps == OnSession /\ [Next]_vars => [L0!Next]_(L0!vars)
<1> SUFFICES ASSUME OnSession, [Next]_vars PROVE [L0!Next]_(L0!vars)
  OBVIOUS
<1> USE DEF l0Vars, L0!vars
<1>1. CASE UNCHANGED vars
  BY <1>1 DEF vars
<1>2. ASSUME NEW p \in Drivers, Fetch(p) PROVE [L0!Next]_(L0!vars)
  BY <1>2 DEF Fetch, L0!Next, OnSession, OnFile
<1>3. ASSUME NEW p \in Drivers, PutStep(p) \/ PutRefused(p) \/ Parse(p) \/ Crash(p)
      PROVE  [L0!Next]_(L0!vars)
  BY <1>3 DEF PutStep, PutRefused, Parse, Crash, L0!Next
<1>4. ASSUME NEW p \in Drivers,
             Fire(p) \/ Start(p) \/ LeaseStep(p) \/ Busy(p) \/ JobUnit(p) \/ CampaignUnit(p)
             \/ NotServed(p) \/ FetchFails(p)
      PROVE  UNCHANGED l0Vars
  BY <1>4 DEF Fire, Start, LeaseStep, Busy, JobUnit, CampaignUnit, NotServed, FetchFails, OnlyOwn
<1>5. ASSUME NEW p \in Drivers,
             Land(p) \/ Begin(p) \/ WriteL1(p) \/ WriteL2(p) \/ Publish(p) \/ LandFails(p)
             \/ Fail(p) \/ Record(p) \/ Finish(p)
      PROVE  UNCHANGED l0Vars
  BY <1>5 DEF Land, Begin, WriteL1, WriteL2, Publish, LandFails, Fail, Record, Finish, OnlyOwn
<1>6. ASSUME Serve \/ Restate \/ LeaseAges PROVE UNCHANGED l0Vars
  BY <1>6 DEF Serve, Restate, LeaseAges
<1> QED
  BY <1>1, <1>2, <1>3, <1>4, <1>5, <1>6 DEF Next, Runs, Drivers

\* For any jobs, campaigns, sessions and contents the raw store keeps Archive's promise while the
\* nightly job and the backfill write to it (Fetcher.fetch, parse_l0).
THEOREM CaptureArchives == Spec => ImplementsArchive
<1>1. Init => StoreP!IInv /\ L0!A!Init
  BY SameStore, SameArchive, StoreP!InitInv, StoreP!InitRefines DEF Init
<1>2. OnSession /\ [Next]_vars => [StoreP!Next]_(StoreP!vars)
  BY StoreSteps, SameStore DEF L0!vars, StoreP!vars
<1>3. StoreP!IInv /\ [StoreP!Next]_(StoreP!vars) => [L0!A!Next]_(L0!A!vars)
  BY SameArchive, StoreP!StepRefines
     DEF L0!A!vars, StoreP!A!vars, L0!ClaimOf, StoreP!ClaimOf, L0!Absent, StoreP!Absent
<1> QED
  BY OnSessionInit, OnSessionStep, StoreP!InvStep, <1>1, <1>2, <1>3, PTL
  DEF Spec, ImplementsArchive, L0!ImplementsArchive, L0!A!Spec
-----------------------------------------------------------------------------
(* What is published *)

Typed ==
  /\ rows \in [Drivers -> SUBSET Parseable]
  /\ sync \in [Sessions -> {"none", "FAILED", "CLOSED", "PUBLISHED"}]
  /\ l1 \in [Sessions -> SUBSET Parseable] /\ l2 \in [Sessions -> SUBSET Parseable]

\* The rows at hand were read from the raw store.
RowsRead ==
  \A p \in Drivers : at[p] \in HasRows =>
    \E c \in Parseable : rows[p] = {c} /\ L0!Readable(unit[p], c)

\* The partitions written in the transaction under way hold the rows at hand.
PartsWritten ==
  \A p \in Drivers :
    /\ at[p] \in {"l2", "publish"} => l1[unit[p]] = rows[p]
    /\ at[p] = "publish" => l2[unit[p]] = rows[p]

DataInv == Typed /\ RowsRead /\ PartsWritten /\ PublishedIsRederivable
Inv == OnSession /\ StoreP!IInv /\ DataInv

\* A key is read back as one content only.
LEMMA OneReading ==
  ASSUME NEW s \in Sessions, NEW c \in Parseable, NEW d \in Parseable,
         L0!Readable(s, c), L0!Readable(s, d)
  PROVE  c = d
  BY DEF L0!Readable, L0!Whole

\* And what can be read back stays readable, whatever restates the file at its host.
LEMMA ReadableStays ==
  ASSUME OnSession, StoreP!IInv, [Next]_vars, NEW s \in Sessions, NEW c \in Parseable,
         L0!Readable(s, c)
  PROVE  L0!Readable(s, c)'
<1>1. [StoreP!Next]_(StoreP!vars)
  BY StoreSteps, SameStore DEF L0!vars, StoreP!vars
<1>2. c \in Contents
  BY ContentsAssumption
<1> QED
  BY <1>1, <1>2, StoreP!WholeStays DEF L0!Readable, L0!Whole, StoreP!Whole

\* q has nothing at hand after the step, or what it had before it.
Keeps(q) ==
  \/ at'[q] \notin HasRows
  \/ /\ at[q] \in HasRows /\ unit'[q] = unit[q] /\ rows'[q] = rows[q]
     /\ at'[q] = at[q] \/ at'[q] \in {"land", "begin", "l1"}

\* A step that publishes nothing and leaves the partitions alone.
LEMMA Quiet ==
  ASSUME Inv, [Next]_vars, l1' = l1, l2' = l2,
         rows' \in [Drivers -> SUBSET Parseable],
         sync' \in [Sessions -> {"none", "FAILED", "CLOSED", "PUBLISHED"}],
         \A s \in Sessions : sync'[s] = "PUBLISHED" => sync[s] = "PUBLISHED",
         \A q \in Drivers : Keeps(q)
  PROVE  DataInv'
<1> USE DEF Inv, DataInv
<1>1. Typed'
  BY DEF Typed
<1>2. RowsRead'
  <2> SUFFICES ASSUME NEW q \in Drivers, at'[q] \in HasRows
               PROVE  \E c \in Parseable : rows'[q] = {c} /\ L0!Readable(unit[q], c)'
    BY DEF RowsRead
  <2>1. at[q] \in HasRows /\ unit'[q] = unit[q] /\ rows'[q] = rows[q]
    BY DEF Keeps
  <2>2. PICK c \in Parseable : rows[q] = {c} /\ L0!Readable(unit[q], c)
    BY <2>1 DEF RowsRead
  <2>3. unit[q] \in Sessions
    BY <2>1 DEF OnSession, OnFile
  <2>4. sidecar'[unit[q]] = L0!Whole(c) /\ payload'[unit[q]] = L0!Whole(c)
    BY <2>2, <2>3, ReadableStays DEF L0!Readable, L0!Whole
  <2> QED
    BY <2>1, <2>2, <2>4 DEF L0!Readable, L0!Whole
<1>3. PartsWritten'
  BY DEF PartsWritten, Keeps, HasRows
<1>4. PublishedIsRederivable'
  BY ReadableStays DEF PublishedIsRederivable
<1> QED
  BY <1>1, <1>2, <1>3, <1>4

\* Nothing is at hand, written or published at first.
LEMMA DataInit == Init => DataInv
  BY FirstAndLast
  DEF Init, DataInv, Typed, RowsRead, PartsWritten, PublishedIsRederivable, None, HasRows

\* A step of p alone: it drops what it has at hand, or moves on before anything is written, and
\* commits no row or a failure.
LEMMA OwnStep ==
  ASSUME Inv, [Next]_vars, NEW p \in Drivers, NEW step, Goes(p, step), l1' = l1, l2' = l2,
         rows' = rows \/ rows' = [rows EXCEPT ![p] = None],
         unit' = unit \/ \E u : unit' = [unit EXCEPT ![p] = u],
         step \notin HasRows
           \/ (unit' = unit /\ rows' = rows /\ at[p] \in HasRows /\ step \in {"begin", "l1"}),
         sync' = sync \/ Records(p, "FAILED") \/ Records(p, "CLOSED")
  PROVE  DataInv'
<1>1. at'[p] = step /\ \A q \in Drivers : q # p => at'[q] = at[q]
  BY DEF Goes, Inv, OnSession
<1>2. \A q \in Drivers : q # p => unit'[q] = unit[q]
  BY DEF Inv, OnSession
<1>3. \A q \in Drivers : q # p => rows'[q] = rows[q]
  BY DEF Inv, DataInv, Typed
<1>4. \A q \in Drivers : Keeps(q)
  BY <1>1, <1>2, <1>3 DEF Keeps
<1>5. rows' \in [Drivers -> SUBSET Parseable]
  BY DEF Inv, DataInv, Typed, None
<1>6. /\ sync' \in [Sessions -> {"none", "FAILED", "CLOSED", "PUBLISHED"}]
      /\ \A s \in Sessions : sync'[s] = "PUBLISHED" => sync[s] = "PUBLISHED"
  BY DEF Inv, DataInv, Typed, Records
<1> QED
  BY <1>4, <1>5, <1>6, Quiet

\* A step that touches no row, partition or driver on a file.
LEMMA Elsewhere ==
  ASSUME Inv, [Next]_vars, UNCHANGED <<at, unit, rows, dataVars>>
  PROVE  DataInv'
<1>1. \A q \in Drivers : Keeps(q)
  BY DEF Keeps
<1> QED
  BY <1>1, Quiet DEF Inv, DataInv, Typed, dataVars

\* A parse takes at hand only what can be read back.
LEMMA ParseStep ==
  ASSUME Inv, [Next]_vars, NEW p \in Drivers, Parse(p)
  PROVE  DataInv'
<1> DEFINE held == {c \in Parseable : L0!Readable(unit[p], c)}
<1>1. CASE held = {}
  BY <1>1, OwnStep DEF Parse, Fails, dataVars, HasRows
<1>2. CASE held # {}
  <2>1. /\ Goes(p, "land") /\ rows' = [rows EXCEPT ![p] = held] /\ unit' = unit
        /\ UNCHANGED dataVars /\ at[p] \in {"ref", "put"}
    BY <1>2 DEF Parse
  <2>2. PICK c \in Parseable : L0!Readable(unit[p], c)
    BY <1>2
  <2>3. unit[p] \in Sessions
    BY <2>1 DEF Inv, OnSession, OnFile
  <2>4. held = {c}
    BY <2>2, <2>3, OneReading
  <2>5. at'[p] = "land" /\ \A q \in Drivers : q # p => at'[q] = at[q]
    BY <2>1 DEF Goes, Inv, OnSession
  <2>6. rows'[p] = {c} /\ \A q \in Drivers : q # p => rows'[q] = rows[q]
    BY <2>1, <2>4 DEF Inv, DataInv, Typed
  <2>7. Typed'
    BY <2>1 DEF Inv, DataInv, Typed, dataVars
  <2>8. RowsRead'
    <3> SUFFICES ASSUME NEW q \in Drivers, at'[q] \in HasRows
                 PROVE  \E d \in Parseable : rows'[q] = {d} /\ L0!Readable(unit[q], d)'
      BY DEF RowsRead
    <3>1. PICK d \in Parseable : rows'[q] = {d} /\ L0!Readable(unit[q], d)
      BY <2>2, <2>5, <2>6 DEF Inv, DataInv, RowsRead
    <3>2. unit[q] \in Sessions
      BY <2>3, <2>5 DEF Inv, OnSession, OnFile
    <3> QED
      BY <2>1, <3>1, <3>2, ReadableStays DEF Inv, L0!Readable, L0!Whole
  <2>9. PartsWritten'
    BY <2>1, <2>5, <2>6 DEF Inv, DataInv, PartsWritten, dataVars
  <2>10. PublishedIsRederivable'
    BY <2>1, ReadableStays DEF Inv, DataInv, PublishedIsRederivable, dataVars
  <2> QED
    BY <2>7, <2>8, <2>9, <2>10 DEF DataInv
<1> QED
  BY <1>1, <1>2

\* The partition p writes holds already what a published row or another driver needs of it.
LEMMA SameRows ==
  ASSUME Inv, NEW p \in Drivers, at[p] \in HasRows
  PROVE  /\ \A q \in Drivers : at[q] \in HasRows /\ unit[q] = unit[p] => rows[q] = rows[p]
         /\ sync[unit[p]] = "PUBLISHED" => l1[unit[p]] = rows[p] /\ l2[unit[p]] = rows[p]
         /\ rows[p] # None /\ rows[p] \subseteq Parseable /\ unit[p] \in Sessions
<1>1. unit[p] \in Sessions
  BY DEF Inv, OnSession, OnFile
<1>2. PICK c \in Parseable : rows[p] = {c} /\ L0!Readable(unit[p], c)
  BY DEF Inv, DataInv, RowsRead
<1>3. ASSUME NEW q \in Drivers, at[q] \in HasRows, unit[q] = unit[p]
      PROVE  rows[q] = rows[p]
  <2>1. PICK d \in Parseable : rows[q] = {d} /\ L0!Readable(unit[q], d)
    BY <1>3 DEF Inv, DataInv, RowsRead
  <2> QED
    BY <1>1, <1>2, <1>3, <2>1, OneReading
<1>4. ASSUME sync[unit[p]] = "PUBLISHED"
      PROVE  l1[unit[p]] = rows[p] /\ l2[unit[p]] = rows[p]
  <2>1. PICK d \in Parseable :
          L0!Readable(unit[p], d) /\ l1[unit[p]] = {d} /\ l2[unit[p]] = {d}
    BY <1>1, <1>4 DEF Inv, DataInv, PublishedIsRederivable
  <2> QED
    BY <1>1, <1>2, <2>1, OneReading
<1> QED
  BY <1>1, <1>2, <1>3, <1>4 DEF None

\* A step that writes p's partition, or commits its row, and touches no file of the raw store.
LEMMA Reading ==
  ASSUME Inv, [Next]_vars, NEW p \in Drivers, at[p] \in HasRows, NEW step, Goes(p, step),
         rows' = rows, UNCHANGED l0Vars,
         unit' = unit \/ (step \notin HasRows /\ \E u : unit' = [unit EXCEPT ![p] = u])
  PROVE  RowsRead'
<1>1. at'[p] = step /\ \A q \in Drivers : q # p => at'[q] = at[q]
  BY DEF Goes, Inv, OnSession
<1>2. \A q \in Drivers : at'[q] \in HasRows => at[q] \in HasRows /\ unit'[q] = unit[q]
  BY <1>1 DEF Inv, OnSession
<1> QED
  BY <1>2 DEF Inv, DataInv, RowsRead, L0!Readable, l0Vars

\* The L1 partition is written from the rows at hand.
LEMMA WriteL1Step ==
  ASSUME Inv, [Next]_vars, NEW p \in Drivers, WriteL1(p)
  PROVE  DataInv'
<1>1. /\ at[p] = "l1" /\ Goes(p, "l2") /\ l1' = [l1 EXCEPT ![unit[p]] = rows[p]]
      /\ UNCHANGED <<sync, l2, unit, rows, l0Vars>>
  BY DEF WriteL1, ownVars
<1>2. at[p] \in HasRows
  BY <1>1 DEF HasRows
<1>3. at'[p] = "l2" /\ \A q \in Drivers : q # p => at'[q] = at[q]
  BY <1>1 DEF Goes, Inv, OnSession
<1>4. Typed'
  BY <1>1, <1>2, SameRows DEF Inv, DataInv, Typed
<1>5. RowsRead'
  BY <1>1, <1>2, Reading
<1>6. PartsWritten'
  BY <1>1, <1>2, <1>3, SameRows DEF Inv, OnSession, DataInv, Typed, PartsWritten, HasRows, OnFile
<1>7. PublishedIsRederivable'
  <2>1. \A s \in Sessions : sync[s] = "PUBLISHED" => l1'[s] = l1[s]
    BY <1>1, <1>2, SameRows DEF Inv, DataInv, Typed
  <2> QED
    BY <1>1, <2>1 DEF Inv, DataInv, PublishedIsRederivable, L0!Readable, l0Vars
<1> QED
  BY <1>4, <1>5, <1>6, <1>7 DEF DataInv

\* So is the L2 partition, after it.
LEMMA WriteL2Step ==
  ASSUME Inv, [Next]_vars, NEW p \in Drivers, WriteL2(p)
  PROVE  DataInv'
<1>1. /\ at[p] = "l2" /\ Goes(p, "publish") /\ l2' = [l2 EXCEPT ![unit[p]] = rows[p]]
      /\ UNCHANGED <<sync, l1, unit, rows, l0Vars>>
  BY DEF WriteL2, ownVars
<1>2. at[p] \in HasRows
  BY <1>1 DEF HasRows
<1>3. at'[p] = "publish" /\ \A q \in Drivers : q # p => at'[q] = at[q]
  BY <1>1 DEF Goes, Inv, OnSession
<1>4. Typed'
  BY <1>1, <1>2, SameRows DEF Inv, DataInv, Typed
<1>5. RowsRead'
  BY <1>1, <1>2, Reading
<1>6. PartsWritten'
  BY <1>1, <1>2, <1>3, SameRows DEF Inv, OnSession, DataInv, Typed, PartsWritten, HasRows, OnFile
<1>7. PublishedIsRederivable'
  <2>1. \A s \in Sessions : sync[s] = "PUBLISHED" => l2'[s] = l2[s]
    BY <1>1, <1>2, SameRows DEF Inv, DataInv, Typed
  <2> QED
    BY <1>1, <2>1 DEF Inv, DataInv, PublishedIsRederivable, L0!Readable, l0Vars
<1> QED
  BY <1>4, <1>5, <1>6, <1>7 DEF DataInv

\* A row is published only over both partitions and the bytes they came from.
LEMMA PublishStep ==
  ASSUME Inv, [Next]_vars, NEW p \in Drivers, Publish(p)
  PROVE  DataInv'
<1>1. /\ at[p] = "publish" /\ sync' = [sync EXCEPT ![unit[p]] = "PUBLISHED"]
      /\ UNCHANGED <<l1, l2, rows, l0Vars>>
  BY DEF Publish, Records
<1>2. PICK step \in {"release", "next"} :
        Goes(p, step) /\ (unit' = unit \/ \E u : unit' = [unit EXCEPT ![p] = u])
  BY DEF Publish, Onward
<1>3. at[p] \in HasRows /\ step \notin HasRows
  BY <1>1 DEF HasRows
<1>4. /\ at'[p] = step
      /\ \A q \in Drivers : q # p => at'[q] = at[q] /\ unit'[q] = unit[q]
  BY <1>2 DEF Goes, Inv, OnSession
<1>5. Typed'
  BY <1>1 DEF Inv, DataInv, Typed
<1>6. RowsRead'
  BY <1>1, <1>2, <1>3, Reading
<1>7. PartsWritten'
  BY <1>1, <1>3, <1>4 DEF Inv, DataInv, PartsWritten, HasRows
<1>8. PublishedIsRederivable'
  <2>1. PICK c \in Parseable : rows[p] = {c} /\ L0!Readable(unit[p], c)
    BY <1>3 DEF Inv, DataInv, RowsRead
  <2>2. l1[unit[p]] = {c} /\ l2[unit[p]] = {c}
    BY <1>1, <2>1 DEF Inv, DataInv, PartsWritten
  <2>3. \A s \in Sessions : s # unit[p] => sync'[s] = sync[s]
    BY <1>1 DEF Inv, DataInv, Typed
  <2> QED
    BY <1>1, <2>1, <2>2, <2>3 DEF Inv, DataInv, PublishedIsRederivable, L0!Readable, l0Vars
<1> QED
  BY <1>5, <1>6, <1>7, <1>8 DEF DataInv

\* heal_fo_aggregates fills what is missing, and nothing a published row needs is.
LEMMA FinishStep ==
  ASSUME Inv, [Next]_vars, NEW p \in Drivers, Finish(p)
  PROVE  DataInv'
<1>1. /\ at' = [at EXCEPT ![p] = "idle"] /\ unit' = [unit EXCEPT ![p] = 1]
      /\ rows' = [rows EXCEPT ![p] = None] /\ UNCHANGED <<sync, l1, l0Vars>>
  BY DEF Finish, Ends, Goes
<1>2. /\ l2' \in [Sessions -> SUBSET Parseable]
      /\ \A s \in Sessions : l2[s] # None => l2'[s] = l2[s]
  BY DEF Finish, Inv, DataInv, Typed
<1>3. /\ at'[p] \notin HasRows
      /\ \A q \in Drivers : q # p => at'[q] = at[q] /\ unit'[q] = unit[q] /\ rows'[q] = rows[q]
  BY <1>1 DEF Inv, OnSession, DataInv, Typed, HasRows
<1>4. Typed'
  BY <1>1, <1>2 DEF Inv, DataInv, Typed, None
<1>5. RowsRead'
  BY <1>1, <1>3 DEF Inv, DataInv, RowsRead, L0!Readable, l0Vars
<1>6. PartsWritten'
  <2> SUFFICES ASSUME NEW q \in Drivers, at'[q] \in {"l2", "publish"}
               PROVE  /\ l1'[unit'[q]] = rows'[q]
                      /\ at'[q] = "publish" => l2'[unit'[q]] = rows'[q]
    BY DEF PartsWritten
  <2>1. q # p /\ at'[q] = at[q] /\ unit'[q] = unit[q] /\ rows'[q] = rows[q] /\ at[q] \in HasRows
    BY <1>3 DEF HasRows
  <2>2. rows[q] # None /\ unit[q] \in Sessions
    BY <2>1, SameRows
  <2> QED
    BY <1>1, <1>2, <2>1, <2>2 DEF Inv, DataInv, PartsWritten
<1>7. PublishedIsRederivable'
  BY <1>1, <1>2 DEF Inv, DataInv, PublishedIsRederivable, L0!Readable, l0Vars, None
<1> QED
  BY <1>4, <1>5, <1>6, <1>7 DEF DataInv

\* Every step keeps what is published derived from what is stored.
LEMMA DataStep == Inv /\ [Next]_vars => DataInv'
<1> SUFFICES ASSUME Inv, [Next]_vars PROVE DataInv'
  OBVIOUS
<1> USE DEF ownVars, dataVars, HasRows
<1>1. CASE UNCHANGED vars
  BY <1>1, Elsewhere DEF vars
<1>2. ASSUME NEW p \in Drivers, Fire(p) \/ Start(p) PROVE DataInv'
  BY <1>2, OwnStep DEF Fire, Start
<1>3. ASSUME NEW p \in Drivers, LeaseStep(p) \/ PutStep(p) PROVE DataInv'
  BY <1>3, Elsewhere DEF LeaseStep, PutStep
<1>4. ASSUME NEW p \in Drivers, Busy(p) \/ JobUnit(p) \/ CampaignUnit(p) PROVE DataInv'
  BY <1>4, OwnStep DEF Busy, JobUnit, CampaignUnit, Fails, Ends, Onward, OnlyOwn
<1>5. ASSUME NEW p \in Drivers, Fetch(p) \/ NotServed(p) \/ FetchFails(p) \/ PutRefused(p)
      PROVE  DataInv'
  BY <1>5, OwnStep DEF Fetch, NotServed, FetchFails, PutRefused, Fails, OnlyOwn
<1>6. ASSUME NEW p \in Drivers, Land(p) \/ Begin(p) \/ LandFails(p) \/ Fail(p) PROVE DataInv'
  BY <1>6, OwnStep DEF Land, Begin, LandFails, Fail, OnlyOwn
<1>7. ASSUME NEW p \in Drivers, Record(p) PROVE DataInv'
  BY <1>7, OwnStep DEF Record, Onward
<1>8. ASSUME NEW p \in Drivers, Crash(p) PROVE DataInv'
  BY <1>8, OwnStep DEF Crash, Ends
<1>9. ASSUME Serve \/ Restate \/ LeaseAges PROVE DataInv'
  BY <1>9, Elsewhere DEF Serve, Restate, LeaseAges
<1> QED
  BY <1>1, <1>2, <1>3, <1>4, <1>5, <1>6, <1>7, <1>8, <1>9,
     ParseStep, WriteL1Step, WriteL2Step, PublishStep, FinishStep DEF Next, Runs, Drivers

\* Only a job takes the job's lock.
LockOfJobs == lock \subseteq Jobs

\* Only a job under way has the scheduler's lock.
LEMMA LockStep == LockOfJobs /\ [Next]_vars => LockOfJobs'
<1> SUFFICES ASSUME lock \subseteq Jobs, [Next]_vars PROVE lock' \subseteq Jobs
  BY DEF LockOfJobs
<1>1. ASSUME NEW p \in Drivers,
             Start(p) \/ LeaseStep(p) \/ Busy(p) \/ JobUnit(p) \/ CampaignUnit(p) \/ Fetch(p)
             \/ NotServed(p) \/ FetchFails(p) \/ PutStep(p) \/ PutRefused(p) \/ Parse(p)
      PROVE  lock' = lock
  BY <1>1 DEF Start, LeaseStep, Busy, JobUnit, CampaignUnit, Fetch, NotServed, FetchFails,
              PutStep, PutRefused, Parse, OnlyOwn
<1>2. ASSUME NEW p \in Drivers,
             Land(p) \/ Begin(p) \/ WriteL1(p) \/ WriteL2(p) \/ Publish(p) \/ LandFails(p)
             \/ Fail(p) \/ Record(p)
      PROVE  lock' = lock
  BY <1>2 DEF Land, Begin, WriteL1, WriteL2, Publish, LandFails, Fail, Record, OnlyOwn
<1>3. ASSUME NEW p \in Drivers, (p \in Jobs /\ Fire(p)) \/ Finish(p) \/ Crash(p)
      PROVE  lock' \subseteq Jobs
  BY <1>3 DEF Fire, Finish, Crash
<1>4. Serve \/ Restate \/ LeaseAges \/ UNCHANGED vars => lock' = lock
  BY DEF Serve, Restate, LeaseAges, vars
<1> QED
  BY <1>1, <1>2, <1>3, <1>4 DEF Next, Runs, Drivers

\* All of it holds at first.
LEMMA InvInit == Init => Inv
  BY OnSessionInit, DataInit, SameStore, StoreP!InitInv DEF Init, Inv

\* And every step keeps it.
LEMMA InvStep == Inv /\ [Next]_vars => Inv'
  BY OnSessionStep, DataStep, StoreSteps, SameStore, StoreP!InvStep
  DEF Inv, L0!vars, StoreP!vars

\* For any jobs, campaigns, sessions and contents: a published row's bytes are in the raw store,
\* whole, and both its partitions were derived from them (_land, FoBackfillRunner._process).
THEOREM PublishedRederives == Spec => []PublishedIsRederivable
<1>1. Inv => PublishedIsRederivable
  BY DEF Inv, DataInv
<1> QED
  BY InvInit, InvStep, <1>1, PTL DEF Spec

\* Rows, partitions, drivers, the lease and the store keep their types, and no driver goes past
\* the session after its plan's last.
THEOREM TypeCorrect == Spec => []TypeOK
<1>1. Init => LockOfJobs /\ LeaseP!IInv
  BY SameLease, LeaseP!InitInv DEF Init, LockOfJobs
<1>2. LeaseP!IInv /\ [Next]_vars => LeaseP!IInv'
  BY LeaseSteps, SameLease, LeaseP!InvStep DEF Lease!vars, LeaseP!vars
<1>3. Inv /\ LockOfJobs /\ LeaseP!IInv => TypeOK
  <2>1. LeaseP!IInv => Lease!TypeOK
    BY DEF LeaseP!IInv, Lease!TypeOK, LeaseP!TypeOK, Lease!Leases, LeaseP!Leases,
           Lease!Steps, LeaseP!Steps, Lease!NoLease, LeaseP!NoLease
  <2>2. StoreP!IInv => L0!TypeOK
    BY DEF StoreP!IInv, L0!TypeOK, StoreP!TypeOK, L0!Files, StoreP!Files, L0!Putting,
           StoreP!Putting, L0!Idle, StoreP!Idle, L0!Steps, StoreP!Steps, L0!Absent,
           StoreP!Absent, L0!Short, StoreP!Short, L0!Whole, StoreP!Whole
  <2> QED
    BY <2>1, <2>2 DEF Inv, OnSession, DataInv, Typed, TypeOK, LockOfJobs
<1> QED
  BY InvInit, InvStep, LockStep, <1>1, <1>2, <1>3, PTL DEF Spec

-----------------------------------------------------------------------------
(* PublishedStands, for any jobs, campaigns, sessions and contents.  The   *)
(* lease keeps two drivers from holding a session at once, the job's lock  *)
(* keeps two jobs apart, and what is left is a job refused the host while  *)
(* a campaign was beside it.                                               *)

InTransaction == {"begin", "l1", "l2", "publish"}
Leased == InTransaction \cup {"ref", "put", "land"}

\* Whoever is on a file holds the lease; only a job records a failure without it.
Leasing ==
  \A p \in Drivers :
    /\ at[p] \in Leased => hold[p] = "held"
    /\ at[p] \in {"fail", "record"} => hold[p] = "held" \/ p \in Jobs

\* The job's lock keeps jobs apart.
OneJob ==
  /\ \A p \in Jobs : at[p] # "idle" => p \in lock
  /\ \A p, q \in lock : p = q

\* beside holds every job at work with a campaign.
Beside == \A p \in Jobs, c \in Campaigns : at[p] # "idle" /\ at[c] # "idle" => p \in beside

\* The row p saw open is open still, unless the lease was lost, or p is a job beside a campaign
\* and about to record that the host was busy.
Open(p) ==
  /\ at[p] \in InTransaction => raced \/ sync[unit[p]] # "PUBLISHED"
  /\ at[p] = "record" =>
       raced \/ sync[unit[p]] # "PUBLISHED" \/ (p \in Jobs /\ p \in beside)

OpenRows == \A p \in Drivers : Open(p)

Keeping == Leasing /\ OneJob /\ Beside /\ OpenRows
AllInv == Inv /\ LeaseP!IInv /\ Keeping

\* Nobody has the host, the lock or a row at first.
LEMMA KeepingInit == Init => Keeping
<1> SUFFICES ASSUME Init PROVE Keeping
  OBVIOUS
<1>1. at = [p \in Drivers |-> "idle"] /\ lock = {}
  BY DEF Init
<1> QED
  BY <1>1 DEF Keeping, Leasing, OneJob, Beside, OpenRows, Open, InTransaction, Leased, Drivers

-----------------------------------------------------------------------------
(* The lease *)

\* A lease lost once is remembered.
LEMMA RacedStays == [Next]_vars => (raced => raced')
<1>1. [Lease!Next]_(Lease!vars) => (raced => raced')
  BY DEF Lease!Next, Lease!vars, Lease!Take, Lease!Create, Lease!Write, Lease!Find, Lease!Break,
         Lease!Refused, Lease!Release, Lease!Unlink, Lease!Dies, Lease!Ages, Lease!Removes
<1> QED
  BY <1>1, LeaseSteps

\* One driver's steps leave the others' places in host_lease alone.
LEMMA OthersHold ==
  ASSUME LeaseP!IInv, NEW p \in Drivers,
         \/ Lease!Take(p) \/ Lease!Create(p) \/ Lease!Write(p) \/ Lease!Find(p)
         \/ Lease!Break(p) \/ Lease!Refused(p) \/ Lease!Release(p) \/ Lease!Unlink(p)
         \/ Lease!Dies(p)
  PROVE  \A q \in Drivers : q # p => hold'[q] = hold[q]
  BY DEF Lease!Take, Lease!Create, Lease!Write, Lease!Find, Lease!Break, Lease!Refused,
         Lease!Release, Lease!Unlink, Lease!Dies, Lease!Goes, LeaseP!IInv, LeaseP!TypeOK

\* Two that hold the lease at once show that a live one was removed.
LEMMA LeaseIsOne ==
  ASSUME LeaseP!IInv, NEW p \in Drivers, NEW q \in Drivers,
         hold[p] = "held", hold[q] = "held", p # q
  PROVE  raced
  BY LeaseP!InvImplies DEF LeaseP!OneDriver
-----------------------------------------------------------------------------
(* What a step changes *)

\* The steps of a run under way, but its end.
Going(p) ==
  \/ LeaseStep(p) \/ Busy(p)
  \/ p \in Jobs /\ JobUnit(p)
  \/ p \in Campaigns /\ CampaignUnit(p)
  \/ Fetch(p) \/ NotServed(p) \/ FetchFails(p) \/ PutStep(p) \/ PutRefused(p) \/ Parse(p)
  \/ Land(p) \/ Begin(p) \/ WriteL1(p) \/ WriteL2(p) \/ Publish(p) \/ LandFails(p)
  \/ Fail(p) \/ Record(p)

\* The steps of the capture by whose they are.
LEMMA StepKinds ==
  ASSUME Next
  PROVE  \/ \E p \in Jobs : Fire(p)
         \/ \E p \in Campaigns : Start(p)
         \/ \E p \in Drivers : Going(p) \/ Finish(p) \/ Crash(p)
         \/ Serve \/ Restate \/ LeaseAges
  BY DEF Next, Runs, Going

\* A driver's step moves no other driver, and takes no lock.
LEMMA GoingAlone ==
  ASSUME OnSession, NEW p \in Drivers, Going(p)
  PROVE  /\ at[p] # "idle" /\ lock' = lock
         /\ \A q \in Drivers : q # p => at'[q] = at[q] /\ unit'[q] = unit[q]
         /\ beside' = beside \/ (beside' = beside \ {p} /\ at'[p] = "idle")
<1> USE DEF OnSession, Goes, ownVars, worldVars
<1>1. CASE LeaseStep(p) \/ PutStep(p)
  BY <1>1 DEF LeaseStep, PutStep, Fault
<1>2. CASE Busy(p)
  BY <1>2 DEF Busy, Fails, Ends
<1>3. CASE (p \in Jobs /\ JobUnit(p)) \/ (p \in Campaigns /\ CampaignUnit(p))
  BY <1>3 DEF JobUnit, CampaignUnit, Ready, Onward, OnlyOwn
<1>4. CASE Fetch(p) \/ NotServed(p) \/ FetchFails(p)
  BY <1>4 DEF Fetch, NotServed, FetchFails, Fails, OnlyOwn
<1>5. CASE PutRefused(p) \/ Parse(p)
  BY <1>5 DEF PutRefused, Parse, Fails
<1>6. CASE Land(p) \/ Begin(p) \/ Fail(p)
  BY <1>6 DEF Land, Begin, Fail, OnlyOwn
<1>7. CASE WriteL1(p) \/ WriteL2(p) \/ LandFails(p)
  BY <1>7 DEF WriteL1, WriteL2, LandFails
<1>8. CASE Publish(p) \/ Record(p)
  BY <1>8 DEF Publish, Record, Onward
<1> QED
  BY <1>1, <1>2, <1>3, <1>4, <1>5, <1>6, <1>7, <1>8 DEF Going

\* Nor does the end of a run, or its death.
LEMMA EndAlone ==
  ASSUME OnSession, NEW p \in Drivers, Finish(p) \/ Crash(p)
  PROVE  /\ at'[p] = "idle" /\ lock' = lock \ {p} /\ beside' = beside \ {p}
         /\ \A q \in Drivers : q # p => at'[q] = at[q] /\ unit'[q] = unit[q]
  BY DEF Finish, Crash, Ends, Goes, OnSession

\* A fire takes the lock, and sees the campaigns under way.
LEMMA FireAlone ==
  ASSUME OnSession, NEW p \in Jobs, Fire(p)
  PROVE  /\ at[p] = "idle" /\ at'[p] \in {"next", "release"} /\ lock = {} /\ lock' = {p}
         /\ \A q \in Drivers : q # p => at'[q] = at[q] /\ unit'[q] = unit[q]
         /\ beside \subseteq beside'
         /\ (\E c \in Campaigns : at[c] # "idle") => p \in beside'
  BY DEF Fire, Goes, OnSession, Drivers

\* A campaign that starts sees the jobs under way.
LEMMA StartAlone ==
  ASSUME OnSession, NEW p \in Campaigns, Start(p)
  PROVE  /\ at'[p] = "next" /\ lock' = lock /\ beside' = {j \in Jobs : at[j] # "idle"}
         /\ \A q \in Drivers : q # p => at'[q] = at[q] /\ unit'[q] = unit[q]
  BY DEF Start, Goes, OnSession, Drivers

\* What happens around the drivers moves none of them.
LEMMA WorldAlone ==
  ASSUME Serve \/ Restate \/ LeaseAges \/ UNCHANGED vars
  PROVE  UNCHANGED <<at, unit, lock, beside, dataVars, hold>>
  BY DEF Serve, Restate, LeaseAges, Fault, vars, ownVars, worldVars, leaseVars, Lease!Ages

-----------------------------------------------------------------------------
(* The locks *)

\* The lock admits one job at a time.
LEMMA OneJobStep ==
  ASSUME OnSession, OneJob, [Next]_vars
  PROVE  OneJob'
<1>1. ASSUME NEW p \in Jobs, Fire(p) PROVE OneJob'
  BY <1>1, FireAlone DEF OneJob, Drivers
<1>2. ASSUME NEW p \in Campaigns, Start(p) PROVE OneJob'
  BY <1>2, StartAlone, DriversAssumption DEF OneJob, Drivers
<1>3. ASSUME NEW p \in Drivers, Going(p) PROVE OneJob'
  BY <1>3, GoingAlone DEF OneJob, Drivers
<1>4. ASSUME NEW p \in Drivers, Finish(p) \/ Crash(p) PROVE OneJob'
  BY <1>4, EndAlone DEF OneJob, Drivers
<1>5. CASE Serve \/ Restate \/ LeaseAges \/ UNCHANGED vars
  BY <1>5, WorldAlone DEF OneJob
<1> QED
  BY <1>1, <1>2, <1>3, <1>4, <1>5, StepKinds

\* A job beside which a campaign runs stays counted as such.
LEMMA BesideStep ==
  ASSUME OnSession, Beside, [Next]_vars
  PROVE  Beside'
<1> USE DriversAssumption DEF Drivers
<1>1. ASSUME NEW p \in Jobs, Fire(p) PROVE Beside'
  BY <1>1, FireAlone DEF Beside
<1>2. ASSUME NEW p \in Campaigns, Start(p) PROVE Beside'
  BY <1>2, StartAlone DEF Beside
<1>3. ASSUME NEW p \in Drivers, Going(p) PROVE Beside'
  BY <1>3, GoingAlone DEF Beside
<1>4. ASSUME NEW p \in Drivers, Finish(p) \/ Crash(p) PROVE Beside'
  BY <1>4, EndAlone DEF Beside
<1>5. CASE Serve \/ Restate \/ LeaseAges \/ UNCHANGED vars
  BY <1>5, WorldAlone DEF Beside
<1> QED
  BY <1>1, <1>2, <1>3, <1>4, <1>5, StepKinds

\* What an actor's step must show of itself for Leasing to hold after it.
LEMMA LeasingOf ==
  ASSUME Leasing, NEW p \in Drivers,
         \A q \in Drivers : q # p => at'[q] = at[q] /\ hold'[q] = hold[q],
         at'[p] \in Leased => hold'[p] = "held",
         at'[p] \in {"fail", "record"} => hold'[p] = "held" \/ p \in Jobs
  PROVE  Leasing'
  BY DEF Leasing

\* Whoever is on a file still holds the lease.
LEMMA LeasingStep ==
  ASSUME OnSession, LeaseP!IInv, Leasing, [Next]_vars
  PROVE  Leasing'
<1> USE DEF InTransaction, Leased
<1>1. ASSUME NEW p \in Jobs, Fire(p) PROVE Leasing'
  <2>1. p \in Drivers /\ (UNCHANGED leaseVars \/ Lease!Take(p))
    BY <1>1 DEF Fire, Drivers
  <2>2. \A q \in Drivers : q # p => hold'[q] = hold[q]
    BY <2>1, OthersHold DEF leaseVars
  <2> QED
    BY <1>1, <2>1, <2>2, FireAlone, LeasingOf
<1>2. ASSUME NEW p \in Campaigns, Start(p) PROVE Leasing'
  <2>1. p \in Drivers /\ Lease!Take(p)
    BY <1>2 DEF Start, Drivers
  <2> QED
    BY <1>2, <2>1, StartAlone, OthersHold, LeasingOf
<1>3. ASSUME NEW p \in Drivers, LeaseStep(p) PROVE Leasing'
  <2>1. \A q \in Drivers : q # p => hold'[q] = hold[q]
    BY <1>3, OthersHold DEF LeaseStep
  <2>2. at' = at /\ at[p] \in {"next", "release"}
    BY <1>3 DEF LeaseStep
  <2> QED
    BY <2>1, <2>2, LeasingOf
<1>4. ASSUME NEW p \in Drivers, Busy(p) PROVE Leasing'
  <2>1. Lease!Refused(p) /\ (p \in Jobs \/ at'[p] = "idle") /\ at'[p] \in {"fail", "idle"}
    BY <1>4 DEF Busy, Fails, Ends, Goes, OnSession
  <2>2. \A q \in Drivers : q # p => at'[q] = at[q]
    BY <1>4, GoingAlone DEF Going
  <2> QED
    BY <2>1, <2>2, OthersHold, LeasingOf
<1>5. ASSUME NEW p \in Drivers, Going(p), hold' = hold, hold[p] = "held" \/ p \in Jobs,
             at'[p] \in Leased => hold[p] = "held"
      PROVE  Leasing'
  BY <1>5, GoingAlone, LeasingOf
<1>6. ASSUME NEW p \in Drivers,
             (p \in Jobs /\ JobUnit(p)) \/ (p \in Campaigns /\ CampaignUnit(p))
      PROVE  Leasing'
  <2>1. hold[p] = "held" /\ hold' = hold
    BY <1>6 DEF JobUnit, CampaignUnit, Ready, OnlyOwn, leaseVars
  <2> QED
    BY <1>5, <1>6, <2>1 DEF Going
<1>7. ASSUME NEW p \in Drivers,
             Fetch(p) \/ NotServed(p) \/ FetchFails(p) \/ PutStep(p) \/ PutRefused(p) \/ Parse(p)
             \/ Land(p) \/ Begin(p) \/ WriteL1(p) \/ WriteL2(p) \/ Publish(p) \/ LandFails(p)
      PROVE  Leasing'
  <2>1. at[p] \in Leased
    BY <1>7 DEF Fetch, NotServed, FetchFails, PutStep, PutRefused, Parse, Land, Begin, WriteL1,
                WriteL2, Publish, LandFails
  <2>2. hold' = hold
    BY <1>7 DEF Fetch, NotServed, FetchFails, PutStep, PutRefused, Parse, Land, Begin, WriteL1,
                WriteL2, Publish, LandFails, OnlyOwn, leaseVars
  <2> QED
    BY <1>5, <1>7, <2>1, <2>2 DEF Leasing, Going
<1>8. ASSUME NEW p \in Drivers, Fail(p) \/ Record(p) PROVE Leasing'
  <2>1. /\ at[p] \in {"fail", "record"} /\ hold' = hold
        /\ at'[p] \in {"release", "record", "next"}
    BY <1>8 DEF Fail, Record, Onward, Goes, OnSession, OnlyOwn, leaseVars
  <2> QED
    BY <1>5, <1>8, <2>1 DEF Leasing, Going
<1>9. ASSUME NEW p \in Drivers, Finish(p) \/ Crash(p) PROVE Leasing'
  <2>1. \A q \in Drivers : q # p => hold'[q] = hold[q]
    BY <1>9, OthersHold DEF Finish, Crash, leaseVars
  <2> QED
    BY <1>9, <2>1, EndAlone, LeasingOf
<1>10. CASE Serve \/ Restate \/ LeaseAges \/ UNCHANGED vars
  BY <1>10, WorldAlone DEF Leasing
<1> QED
  BY <1>1, <1>2, <1>3, <1>4, <1>6, <1>7, <1>8, <1>9, <1>10, StepKinds DEF Going

-----------------------------------------------------------------------------
(* The rows *)

\* A step of p that publishes nothing.
LEMMA RowsOf ==
  ASSUME OpenRows, [Next]_vars, NEW p \in Drivers,
         \A q \in Drivers : q # p => at'[q] = at[q] /\ unit'[q] = unit[q],
         \A q \in Jobs : q # p /\ at[q] # "idle" /\ q \in beside => q \in beside',
         \A q \in Drivers :
           q # p /\ at[q] \in InTransaction \cup {"record"} /\ sync'[unit[q]] = "PUBLISHED"
             => sync[unit[q]] = "PUBLISHED",
         Open(p)'
  PROVE  OpenRows'
<1> SUFFICES ASSUME NEW q \in Drivers, q # p PROVE Open(q)'
  BY DEF OpenRows
<1>1. Open(q) /\ at'[q] = at[q] /\ unit'[q] = unit[q]
  BY DEF OpenRows
<1> QED
  BY <1>1, RacedStays DEF Open

\* p sees its row open, or goes where it matters no more.
LEMMA OpenAfter ==
  ASSUME Inv, OpenRows, [Next]_vars, NEW p \in Drivers, Going(p)
  PROVE  Open(p)'
<1> USE DEF Inv, OnSession, Goes, InTransaction
<1>1. ASSUME at'[p] \notin InTransaction \cup {"record"} PROVE Open(p)'
  BY <1>1 DEF Open
<1>2. CASE LeaseStep(p) \/ PutStep(p) \/ Busy(p)
  BY <1>1, <1>2 DEF LeaseStep, PutStep, Busy, Fails, Ends
<1>3. CASE (p \in Jobs /\ JobUnit(p)) \/ (p \in Campaigns /\ CampaignUnit(p))
  BY <1>1, <1>3 DEF JobUnit, CampaignUnit, Onward
<1>4. CASE Fetch(p) \/ NotServed(p) \/ FetchFails(p) \/ PutRefused(p) \/ Parse(p)
  BY <1>1, <1>4 DEF Fetch, NotServed, FetchFails, PutRefused, Parse, Fails
<1>5. CASE Publish(p) \/ Record(p) \/ LandFails(p)
  BY <1>1, <1>5 DEF Publish, Record, LandFails, Onward
<1>6. CASE Land(p) \/ Fail(p)
  <2>1. unit' = unit /\ sync' = sync
    BY <1>6 DEF Land, Fail, ownVars, OnlyOwn, dataVars
  <2>2. at'[p] = "release" \/ Row(p) # "PUBLISHED"
    BY <1>6 DEF Land, Fail, Closed
  <2> QED
    BY <1>1, <2>1, <2>2 DEF Open, Row
<1>7. CASE Begin(p) \/ WriteL1(p) \/ WriteL2(p)
  <2>1. unit' = unit /\ sync' = sync /\ at[p] \in InTransaction /\ at'[p] \in InTransaction
    BY <1>7 DEF Begin, WriteL1, WriteL2, ownVars, OnlyOwn, dataVars
  <2> QED
    BY <2>1, RacedStays DEF Open, OpenRows
<1> QED
  BY <1>2, <1>3, <1>4, <1>5, <1>6, <1>7 DEF Going

\* No step but Publish publishes a row.
LEMMA PublishesNothing ==
  ASSUME Inv, NEW p \in Drivers, Going(p), ~Publish(p), NEW s \in Sessions,
         sync'[s] = "PUBLISHED"
  PROVE  sync[s] = "PUBLISHED"
<1>1. sync' = sync \/ Records(p, "FAILED") \/ Records(p, "CLOSED")
  BY DEF Going, LeaseStep, Busy, JobUnit, CampaignUnit, Fetch, NotServed, FetchFails, PutStep,
         PutRefused, Parse, Land, Begin, WriteL1, WriteL2, LandFails, Fail, Record, OnlyOwn,
         dataVars
<1> QED
  BY <1>1 DEF Records, Inv, DataInv, Typed

\* Whoever publishes holds the lease: nobody else is in a transaction, nor about to record a
\* failure but a job beside it.
LEMMA PublishRows ==
  ASSUME AllInv, [Next]_vars, NEW p \in Drivers, Publish(p)
  PROVE  OpenRows'
<1> USE DEF AllInv, Keeping
<1>1. Going(p) /\ OnSession
  BY DEF Going, Inv
<1>2. beside' = beside /\ at[p] = "publish" /\ hold[p] = "held"
  BY DEF Publish, worldVars, Leasing, Leased, InTransaction
<1> SUFFICES ASSUME NEW q \in Drivers, q # p PROVE Open(q)'
  BY <1>1, OpenAfter DEF OpenRows
<1>3. at'[q] = at[q] /\ unit'[q] = unit[q]
  BY <1>1, GoingAlone
<1>4. CASE at[q] \in InTransaction
  <2>1. raced
    BY <1>2, <1>4, LeaseIsOne DEF Leasing, Leased
  <2> QED
    BY <2>1, RacedStays DEF Open
<1>5. CASE at[q] = "record"
  <2>1. CASE hold[q] = "held"
    BY <1>2, <2>1, LeaseIsOne, RacedStays DEF Open
  <2>2. CASE q \in Jobs
    <3>1. p \notin Jobs
      BY <1>2, <1>5, <2>2 DEF OneJob
    <3>2. q \in beside
      BY <1>2, <1>5, <2>2, <3>1 DEF Beside, Drivers
    <3> QED
      BY <1>2, <1>3, <1>5, <2>2, <3>2 DEF Open, InTransaction
  <2> QED
    BY <1>5, <2>1, <2>2 DEF Leasing
<1> QED
  BY <1>3, <1>4, <1>5 DEF Open

\* The row a driver saw open stays open, unless the lease was lost or the host was refused it.
LEMMA OpenRowsStep ==
  ASSUME AllInv, [Next]_vars
  PROVE  OpenRows'
<1> USE DEF AllInv, Keeping
<1>1. /\ OnSession
      /\ \A q \in Drivers : at[q] \in InTransaction \cup {"record"} => unit[q] \in Sessions
  BY DEF Inv, OnSession, InTransaction, OnFile, HasRows
<1>2. ASSUME NEW p \in Jobs, Fire(p) PROVE OpenRows'
  <2>1. p \in Drivers /\ sync' = sync
    BY <1>2 DEF Fire, Drivers, dataVars
  <2>2. Open(p)'
    BY <1>1, <1>2, FireAlone DEF Open, InTransaction
  <2> QED
    BY <1>1, <1>2, <2>1, <2>2, FireAlone, RowsOf
<1>3. ASSUME NEW p \in Campaigns, Start(p) PROVE OpenRows'
  <2>1. p \in Drivers /\ sync' = sync
    BY <1>3 DEF Start, Drivers, dataVars
  <2>2. Open(p)'
    BY <1>1, <1>3, StartAlone DEF Open, InTransaction
  <2> QED
    BY <1>1, <1>3, <2>1, <2>2, StartAlone, RowsOf
<1>4. ASSUME NEW p \in Drivers, Going(p), ~Publish(p) PROVE OpenRows'
  <2>1. Open(p)'
    BY <1>4, OpenAfter
  <2>2. \A q \in Drivers :
          q # p /\ at[q] \in InTransaction \cup {"record"} /\ sync'[unit[q]] = "PUBLISHED"
            => sync[unit[q]] = "PUBLISHED"
    BY <1>1, <1>4, PublishesNothing
  <2> QED
    BY <1>1, <1>4, <2>1, <2>2, GoingAlone, RowsOf
<1>5. ASSUME NEW p \in Drivers, Finish(p) \/ Crash(p) PROVE OpenRows'
  <2>1. sync' = sync
    BY <1>5 DEF Finish, Crash, dataVars
  <2>2. Open(p)'
    BY <1>1, <1>5, EndAlone DEF Open, InTransaction
  <2> QED
    BY <1>1, <1>5, <2>1, <2>2, EndAlone, RowsOf
<1>6. CASE Serve \/ Restate \/ LeaseAges \/ UNCHANGED vars
  BY <1>6, WorldAlone, RacedStays DEF OpenRows, Open, dataVars
<1> QED
  BY <1>2, <1>3, <1>4, <1>5, <1>6, PublishRows, StepKinds

-----------------------------------------------------------------------------

\* All of it holds at first.
LEMMA AllInit == Init => AllInv
  BY InvInit, KeepingInit, SameLease, LeaseP!InitInv DEF Init, AllInv

\* And every step keeps it.
LEMMA AllStep == AllInv /\ [Next]_vars => AllInv'
<1> SUFFICES ASSUME AllInv, [Next]_vars PROVE AllInv'
  OBVIOUS
<1>1. Inv' /\ OpenRows'
  BY InvStep, OpenRowsStep DEF AllInv
<1>2. LeaseP!IInv'
  BY LeaseSteps, SameLease, LeaseP!InvStep DEF AllInv, Lease!vars, LeaseP!vars
<1>3. Leasing' /\ OneJob' /\ Beside'
  BY LeasingStep, OneJobStep, BesideStep DEF AllInv, Keeping, Inv
<1> QED
  BY <1>1, <1>2, <1>3 DEF AllInv, Keeping

\* A step that withdraws a published session is a job's, kept from the host, or a lost lease's.
LEMMA StandsStep ==
  AllInv /\ [Next]_vars =>
    [\A s \in Sessions : sync[s] = "PUBLISHED" /\ sync'[s] # "PUBLISHED" =>
       raced \/ \E p \in Jobs : at[p] = "record" /\ unit[p] = s /\ p \in beside]_vars
<1> SUFFICES ASSUME AllInv, Next, NEW s \in Sessions, sync[s] = "PUBLISHED",
                    sync'[s] # "PUBLISHED"
             PROVE  raced \/ \E p \in Jobs : at[p] = "record" /\ unit[p] = s /\ p \in beside
  OBVIOUS
<1>1. PICK p \in Drivers : Going(p) /\ ~Publish(p) /\ sync' # sync
  <2>1. ASSUME NEW p \in Drivers, Publish(p) PROVE FALSE
    BY <2>1 DEF Publish, Records, AllInv, Inv, DataInv, Typed
  <2>2. ASSUME NEW p \in Drivers, Fire(p) \/ Start(p) \/ Finish(p) \/ Crash(p)
        PROVE  sync' = sync
    BY <2>2 DEF Fire, Start, Finish, Crash, dataVars
  <2> QED
    BY <2>1, <2>2, StepKinds, WorldAlone DEF Drivers, dataVars
<1>2. /\ LandFails(p) \/ Record(p)
      /\ Records(p, "FAILED") \/ Records(p, "CLOSED")
  BY <1>1 DEF Going, LeaseStep, Busy, JobUnit, CampaignUnit, Fetch, NotServed, FetchFails,
              PutStep, PutRefused, Parse, Land, Begin, WriteL1, WriteL2, LandFails, Fail, Record,
              OnlyOwn, dataVars
<1>3. unit[p] = s
  BY <1>2 DEF Records, AllInv, Inv, DataInv, Typed
<1>4. Open(p) /\ at[p] \in InTransaction \cup {"record"}
  BY <1>2 DEF AllInv, Keeping, OpenRows, LandFails, Record, InTransaction
<1> QED
  BY <1>3, <1>4 DEF Open

\* For any jobs, campaigns, sessions and contents: while no live lease was removed, a published
\* session stays published, but for a job refused the host by a campaign (host_lease, _try_lock,
\* LEGAL_TRANSITIONS as _land and _fail ask for them).
THEOREM PublishedStand == Spec => PublishedStands
  BY AllInit, AllStep, StandsStep, PTL DEF Spec, PublishedStands
=============================================================================
