------------------------------ MODULE Capture ------------------------------
(***************************************************************************)
(* How one dated file of the exchange becomes published data: the F&O      *)
(* bhavcopy, which two drivers land.  The nightly job                      *)
(* (dataplatform/ingest/daily_capture.py), under its scheduler lock, takes *)
(* the session owed; the backfill campaign (fo_backfill.py), started by    *)
(* hand, walks the sessions up to one it is given.  Both hold the lease on *)
(* the host, keep the bytes in the raw store, derive the L1 and L2         *)
(* partitions from what the store returns, and record the outcome in       *)
(* sync_state inside one database transaction per session.                 *)
(*                                                                         *)
(* A row of sync_state is what is committed: the states between PENDING    *)
(* and PUBLISHED never are.  CLOSED is FAILED with retryable false.        *)
(***************************************************************************)
EXTENDS Integers, FiniteSets

CONSTANTS
  Jobs,          \* the processes that may fire the nightly job: a scheduler, a command line
  Campaigns,     \* the processes that may run the backfill
  Contents,      \* what the host may serve for a session
  Parseable,     \* the contents the parser accepts
  Owed,          \* the session the nightly job owes tonight: those before it are the campaign's
  MaxCampaigns,  \* bound on the backfill runs
  MaxFaults      \* bound on crashes, failed writes and fetches, restated files, leases that age

Drivers == Jobs \cup Campaigns
Sessions == 1..Owed

ASSUME ContentsAssumption == Parseable \subseteq Contents
ASSUME BoundsAssumption == Owed \in Nat \ {0} /\ MaxCampaigns \in Nat /\ MaxFaults \in Nat
ASSUME DriversAssumption == Jobs \cap Campaigns = {}

VARIABLES
  served,     \* what the host serves for each session: a content, or none and a 404
  sync,       \* the committed sync_state row of each session
  l1, l2,     \* the contents each partition was derived from
  lock,       \* the holder of the job's advisory lock, at most one
  at,         \* where each driver is
  unit,       \* the session it is on
  plan,       \* the last session of its plan
  rows,       \* what it parsed
  mark,       \* how it will record a failure
  beside,     \* the jobs at work with a campaign beside them (observer)
  campaigns, faults,                 \* counted against their bounds
  lease, hold, read, raced,          \* HostLease
  sidecar, payload, put, answered    \* RawStore

Lease == INSTANCE HostLease
L0 == INSTANCE RawStore WITH Writers <- Drivers, Keys <- Sessions, Docs <- Contents

leaseVars == <<lease, hold, read, raced>>
l0Vars == <<sidecar, payload, put, answered>>
dataVars == <<sync, l1, l2>>
ownVars == <<unit, plan, rows, mark>>
worldVars == <<served, beside, campaigns, faults>>
vars == <<dataVars, lock, at, ownVars, worldVars, leaseVars, l0Vars>>

None == {}

Init ==
  /\ \E past \in [1..Owed - 1 -> Parseable] :
       served = [s \in Sessions |-> IF s = Owed THEN None ELSE {past[s]}]
  /\ sync = [s \in Sessions |-> "none"]
  /\ l1 = [s \in Sessions |-> None] /\ l2 = [s \in Sessions |-> None]
  /\ lock = {}
  /\ at = [p \in Drivers |-> "idle"]
  /\ unit = [p \in Drivers |-> 1] /\ plan = [p \in Drivers |-> 1]
  /\ rows = [p \in Drivers |-> None]
  /\ mark = [p \in Drivers |-> "none"]
  /\ beside = {}
  /\ campaigns = 0 /\ faults = 0
  /\ Lease!Init /\ L0!Init

Goes(p, step) == at' = [at EXCEPT ![p] = step]
Row(p) == sync[unit[p]]
Records(p, state) == sync' = [sync EXCEPT ![unit[p]] = state]

\* LEGAL_TRANSITIONS: no attempt is opened on a row in one of these states.
Closed(row) == row \in {"PUBLISHED", "CLOSED"}

\* A transaction of another driver holds the row: an UPSERT waits for it to end.
RowFree(p) == \A q \in Drivers \ {p} : at[q] \in {"l1", "l2", "publish"} => unit[q] # unit[p]

\* Nothing other processes can see changes.
OnlyOwn == UNCHANGED <<dataVars, lock, worldVars, leaseVars, l0Vars>>

\* The driver's run is over, and nothing of it is left in the process.
Ends(p) ==
  /\ Goes(p, "idle")
  /\ unit' = [unit EXCEPT ![p] = 1] /\ plan' = [plan EXCEPT ![p] = 1]
  /\ rows' = [rows EXCEPT ![p] = None] /\ mark' = [mark EXCEPT ![p] = "none"]
  /\ beside' = beside \ {p}

Fails(p, how) ==
  Goes(p, "fail") /\ mark' = [mark EXCEPT ![p] = how] /\ UNCHANGED <<unit, plan, rows>>

Fault ==
  /\ faults < MaxFaults /\ faults' = faults + 1
  /\ UNCHANGED <<served, campaigns>>

-----------------------------------------------------------------------------
(* A run begins: SchedulerRunner.run_once, fo_backfill.main *)

\* _try_lock: a fire that finds the lock held records SKIPPED_LOCKED and is over.  An owed session
\* already published leaves only the derived partitions to heal.
Fire(p) ==
  /\ at[p] = "idle" /\ lock = {}
  /\ lock' = lock \cup {p}
  /\ unit' = [unit EXCEPT ![p] = Owed]
  /\ beside' = IF \E c \in Campaigns : at[c] # "idle" THEN beside \cup {p} ELSE beside
  /\ IF sync[Owed] = "PUBLISHED"
     THEN Goes(p, "release") /\ UNCHANGED leaseVars
     ELSE Goes(p, "next") /\ Lease!Take(p)
  /\ UNCHANGED <<dataVars, plan, rows, mark, served, campaigns, faults, l0Vars>>

\* The operator chooses the last session of the plan.
Start(p) ==
  /\ at[p] = "idle" /\ campaigns < MaxCampaigns
  /\ campaigns' = campaigns + 1
  /\ beside' = {j \in Jobs : at[j] # "idle"}
  /\ \E last \in Sessions : plan' = [plan EXCEPT ![p] = last]
  /\ unit' = [unit EXCEPT ![p] = 1]
  /\ Goes(p, "next") /\ Lease!Take(p)
  /\ UNCHANGED <<dataVars, lock, rows, mark, served, faults, l0Vars>>

-----------------------------------------------------------------------------
(* leased_fetcher, _with_fetcher *)

\* The steps of host_lease, in and out.
LeaseStep(p) ==
  /\ \/ at[p] = "next" /\ (Lease!Create(p) \/ Lease!Write(p) \/ Lease!Find(p) \/ Lease!Break(p))
     \/ at[p] = "release" /\ (Lease!Release(p) \/ Lease!Unlink(p))
  /\ UNCHANGED <<dataVars, lock, at, ownVars, worldVars, l0Vars>>

\* A busy host costs the job its owed session; the campaign refuses to start.
Busy(p) ==
  /\ at[p] = "next" /\ Lease!Refused(p)
  /\ IF p \in Jobs THEN Fails(p, "retry") /\ UNCHANGED beside ELSE Ends(p)
  /\ UNCHANGED <<dataVars, lock, served, campaigns, faults, l0Vars>>

-----------------------------------------------------------------------------
(* One session: its row, its bytes, its contracts *)

Ready(p) == at[p] = "next" /\ hold[p] = "held"

\* The job has one session, the campaign goes on to its next.
Onward(p) ==
  IF p \in Jobs THEN Goes(p, "release") /\ UNCHANGED unit
                ELSE Goes(p, "next") /\ unit' = [unit EXCEPT ![p] = @ + 1]

\* capture_fo_bhavcopy reads the row again, under the lease.
JobUnit(p) ==
  /\ Ready(p)
  /\ Goes(p, IF Row(p) = "PUBLISHED" THEN "release" ELSE "ref")
  /\ UNCHANGED ownVars /\ OnlyOwn

\* FoBackfillRunner.run: a session that is closed is skipped, and the run may be told to stop.
CampaignUnit(p) ==
  /\ Ready(p)
  /\ \/ unit[p] <= plan[p] /\ Closed(Row(p)) /\ Onward(p)
     \/ unit[p] <= plan[p] /\ ~Closed(Row(p)) /\ Goes(p, "ref") /\ UNCHANGED unit
     \/ Goes(p, "release") /\ UNCHANGED unit
  /\ UNCHANGED <<plan, rows, mark>> /\ OnlyOwn

\* Fetcher.fetch: whatever the host serves goes to the raw store before anything parses it.
Fetch(p) ==
  /\ at[p] = "ref" /\ ~L0!Exists(unit[p])
  /\ \E content \in served[unit[p]] : L0!Put(p, unit[p], content)
  /\ Goes(p, "put")
  /\ UNCHANGED <<ownVars, dataVars, lock, worldVars, leaseVars>>

\* Mutant: a 404 closes the session for the job too.
NotServedCloses(p) ==
  /\ at[p] = "ref" /\ ~L0!Exists(unit[p])
  /\ served[unit[p]] = None
  /\ Fails(p, "close")
  /\ OnlyOwn

\* A 404: not yet published, says the job; the archive does not hold it, says the campaign.
NotServed(p) ==
  /\ at[p] = "ref" /\ ~L0!Exists(unit[p])
  /\ served[unit[p]] = None
  /\ Fails(p, IF p \in Jobs THEN "retry" ELSE "close")
  /\ OnlyOwn

\* A request that fails, or the 403 spike that parks a campaign.
FetchFails(p) ==
  /\ at[p] = "ref" /\ ~L0!Exists(unit[p])
  /\ \E how \in IF p \in Jobs THEN {"retry"} ELSE {"retry", "park"} : Fails(p, how)
  /\ Fault
  /\ UNCHANGED <<dataVars, lock, beside, leaseVars, l0Vars>>

PutStep(p) ==
  /\ at[p] = "put"
  /\ \/ /\ L0!Claim(p) \/ L0!Claimed(p) \/ L0!Store(p) \/ L0!Stored(p)
        /\ UNCHANGED <<served, campaigns, faults>>
     \/ L0!WriteFails(p) /\ Fault
  /\ UNCHANGED <<at, ownVars, dataVars, lock, beside, leaseVars>>

\* A put refused is one more failure to the job, and ends the campaign.
PutRefused(p) ==
  /\ at[p] = "put" /\ put[p].at = "refused"
  /\ L0!Leave(p)
  /\ IF p \in Jobs THEN Fails(p, "retry") ELSE Goes(p, "release") /\ UNCHANGED ownVars
  /\ UNCHANGED <<dataVars, lock, worldVars, leaseVars>>

\* parse_l0, of bytes just stored or held since an earlier run: the store re-hashes what it hands
\* back, and the parser may refuse it.
Parse(p) ==
  /\ \/ at[p] = "ref" /\ L0!Exists(unit[p]) /\ UNCHANGED l0Vars
     \/ at[p] = "put" /\ put[p].at = "stored" /\ L0!Leave(p)
  /\ LET held == {c \in Parseable : L0!Readable(unit[p], c)} IN
     IF held # {}
     THEN Goes(p, "land") /\ rows' = [rows EXCEPT ![p] = held] /\ UNCHANGED <<unit, plan, mark>>
     ELSE Fails(p, "retry")
  /\ UNCHANGED <<dataVars, lock, worldVars, leaseVars>>

-----------------------------------------------------------------------------
(* _land, FoBackfillRunner._process: one transaction around the two partitions *)

\* The row is read.  On a closed one the job reports ALREADY_PUBLISHED, the campaign raises.
Land(p) ==
  /\ at[p] = "land"
  /\ Goes(p, IF Closed(Row(p)) THEN "release" ELSE "begin")
  /\ UNCHANGED ownVars /\ OnlyOwn

\* Mutant: no transaction, so that the row is committed ahead of its partitions.
BeginCommits(p) ==
  /\ at[p] = "begin" /\ RowFree(p)
  /\ Goes(p, "l1") /\ Records(p, "PUBLISHED")
  /\ UNCHANGED <<l1, l2, ownVars, lock, worldVars, leaseVars, l0Vars>>

\* begin, mark_fetched, mark_validated: the first UPSERT takes the row until the transaction ends.
Begin(p) ==
  /\ at[p] = "begin" /\ RowFree(p)
  /\ Goes(p, "l1")
  /\ UNCHANGED ownVars /\ OnlyOwn

WriteL1(p) ==
  /\ at[p] = "l1"
  /\ l1' = [l1 EXCEPT ![unit[p]] = rows[p]]
  /\ Goes(p, "l2")
  /\ UNCHANGED <<sync, l2, ownVars, lock, worldVars, leaseVars, l0Vars>>

WriteL2(p) ==
  /\ at[p] = "l2"
  /\ l2' = [l2 EXCEPT ![unit[p]] = rows[p]]
  /\ Goes(p, "publish")
  /\ UNCHANGED <<sync, l1, ownVars, lock, worldVars, leaseVars, l0Vars>>

Publish(p) ==
  /\ at[p] = "publish"
  /\ Records(p, "PUBLISHED")
  /\ Onward(p)
  /\ UNCHANGED <<l1, l2, plan, rows, mark, lock, worldVars, leaseVars, l0Vars>>

\* Mutant: the clause that records a failure also covers what follows the commit.
LandFailsLate(p) ==
  /\ at[p] \in {"l1", "l2", "release"}
  /\ IF p \in Jobs THEN Records(p, "FAILED") ELSE UNCHANGED sync
  /\ Goes(p, "release")
  /\ Fault
  /\ UNCHANGED <<l1, l2, ownVars, lock, beside, leaseVars, l0Vars>>

\* A partition cannot be written: the job commits the failure, the campaign rolls back and ends.
LandFails(p) ==
  /\ at[p] \in {"l1", "l2"}
  /\ IF p \in Jobs THEN Records(p, "FAILED") ELSE UNCHANGED sync
  /\ Goes(p, "release")
  /\ Fault
  /\ UNCHANGED <<l1, l2, ownVars, lock, beside, leaseVars, l0Vars>>

-----------------------------------------------------------------------------
(* _fail, FoBackfillRunner._fail and _park *)

\* The row is read: a closed one is left alone.
Fail(p) ==
  /\ at[p] = "fail"
  /\ Goes(p, IF Closed(Row(p)) THEN "release" ELSE "record")
  /\ UNCHANGED ownVars /\ OnlyOwn

Record(p) ==
  /\ at[p] = "record" /\ RowFree(p)
  /\ Records(p, IF mark[p] = "retry" THEN "FAILED" ELSE "CLOSED")
  /\ IF mark[p] = "park" THEN Goes(p, "release") /\ UNCHANGED unit ELSE Onward(p)
  /\ UNCHANGED <<l1, l2, plan, rows, mark, lock, worldVars, leaseVars, l0Vars>>

-----------------------------------------------------------------------------
(* A run ends *)

\* heal_fo_aggregates: the job derives again what L1 holds and L2 lacks, then unlocks.
Finish(p) ==
  /\ at[p] = "release" /\ hold[p] = "none"
  /\ Ends(p)
  /\ lock' = lock \ {p}
  /\ IF p \in Jobs
     THEN l2' = [s \in Sessions |-> IF s <= unit[p] /\ l2[s] = None THEN l1[s] ELSE l2[s]]
     ELSE UNCHANGED l2
  /\ UNCHANGED <<sync, l1, served, campaigns, faults, leaseVars, l0Vars>>

\* The process dies: its connection closes, so its transaction and its lock go with it; its
\* files and its lease stay.
Crash(p) ==
  /\ at[p] # "idle"
  /\ Ends(p)
  /\ lock' = lock \ {p}
  /\ Lease!Dies(p)
  /\ IF put[p] = L0!Idle THEN UNCHANGED l0Vars ELSE L0!Leave(p)
  /\ Fault
  /\ UNCHANGED dataVars

-----------------------------------------------------------------------------
(* The world *)

Publishes(s, content) == served' = [served EXCEPT ![s] = {content}]

Serve ==
  /\ served[Owed] = None /\ \E content \in Contents : Publishes(Owed, content)
  /\ UNCHANGED <<beside, campaigns, faults, dataVars, lock, at, ownVars, leaseVars, l0Vars>>

\* The host replaces a file it has served.
Restate ==
  /\ faults < MaxFaults /\ faults' = faults + 1
  /\ \E s \in Sessions, content \in Contents :
       served[s] \notin {None, {content}} /\ Publishes(s, content)
  /\ UNCHANGED <<beside, campaigns, dataVars, lock, at, ownVars, leaseVars, l0Vars>>

LeaseAges ==
  /\ Lease!Ages /\ Fault
  /\ UNCHANGED <<dataVars, lock, at, ownVars, beside, l0Vars>>

\* What a driver does by itself once its run has begun.
Runs(p) ==
  \/ LeaseStep(p) \/ Busy(p)
  \/ p \in Jobs /\ JobUnit(p)
  \/ p \in Campaigns /\ CampaignUnit(p)
  \/ Fetch(p) \/ NotServed(p) \/ PutStep(p) \/ PutRefused(p) \/ Parse(p)
  \/ Land(p) \/ Begin(p) \/ WriteL1(p) \/ WriteL2(p) \/ Publish(p)
  \/ Fail(p) \/ Record(p) \/ Finish(p)

Next ==
  \/ \E p \in Jobs : Fire(p)
  \/ \E p \in Campaigns : Start(p)
  \/ \E p \in Drivers : Runs(p) \/ FetchFails(p) \/ LandFails(p) \/ Crash(p)
  \/ Serve \/ Restate \/ LeaseAges

Spec == Init /\ [][Next]_vars

\* A fire once begun does not hang: it ends, or its process dies.  Nothing says that one begins:
\* the job is fired twice a night, then it owes the next session and never walks back to this one.
LiveSpec == Spec /\ \A p \in Jobs : []<>(at[p] = "idle")

-----------------------------------------------------------------------------
(* Properties *)

\* Rows, partitions and drivers are well formed, and so are the lease and the store.
TypeOK ==
  /\ served \in [Sessions -> SUBSET Contents]
  /\ sync \in [Sessions -> {"none", "FAILED", "CLOSED", "PUBLISHED"}]
  /\ l1 \in [Sessions -> SUBSET Parseable] /\ l2 \in [Sessions -> SUBSET Parseable]
  /\ lock \subseteq Jobs
  /\ unit \in [Drivers -> 1..Owed + 1] /\ plan \in [Drivers -> Sessions]
  /\ rows \in [Drivers -> SUBSET Parseable]
  /\ Lease!TypeOK /\ L0!TypeOK

\* A published session is re-derivable: the raw store holds its bytes whole and readable, and
\* both partitions were derived from them, through crashes, failed writes and drivers that
\* overlap (_land, _process, "L1 and L2 are re-derivable from bytes that have not changed").
PublishedIsRederivable ==
  \A s \in Sessions : sync[s] = "PUBLISHED" =>
    \E c \in Parseable : L0!Readable(s, c) /\ l1[s] = {c} /\ l2[s] = {c}

\* The raw store keeps the promise of Archive under both drivers.
ImplementsArchive == L0!ImplementsArchive

\* One driver fetches from the host at a time, unless a live lease was removed (HostLease).
OneDriver == Lease!OneDriver

\* While no live lease was removed, a published session stays published ("PUBLISHED is closed
\* absolutely"), except that a job refused the host by a campaign records its failure over what
\* the campaign has published since it read the row.
PublishedStands ==
  [][\A s \in Sessions : sync[s] = "PUBLISHED" /\ sync'[s] # "PUBLISHED" =>
       raced \/ \E p \in Jobs : at[p] = "record" /\ unit[p] = s /\ p \in beside]_vars

\* No attempt can land the session: a write that failed left its key short, the bytes it keeps
\* do not parse, or it was claimed for bytes that were never stored and are served no more.
Blocked(s) ==
  \/ L0!Damaged(s)
  \/ \E c \in L0!ClaimOf(sidecar[s]) :
       c \notin Parseable \/ (~L0!Exists(s) /\ c \notin served[s])

\* Each fire lands the session by itself: one that begins with the file served ends with the
\* session published, whatever crashes, failed writes and failed fires came before it, unless
\* a fault comes during it, a campaign is beside it or has closed the session, or the key is
\* blocked (_land, "the next fire retries it").
ServedIsLanded ==
  \A f \in 0..MaxFaults :
    ((\E p \in Jobs : at[p] = "next") /\ served[Owed] # None /\ faults = f)
    ~> ( \/ sync[Owed] = "PUBLISHED" \/ Blocked(Owed)
         \/ sync[Owed] = "CLOSED" /\ campaigns > 0
         \/ faults > f \/ beside # {} )
=============================================================================
