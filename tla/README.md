# A verification project for stock-manager

stock-manager is a single-operator research and paper-trading platform for Indian equities. After
every close it captures the exchange's files, rebuilds point-in-time data, lets policies decide
orders for the next session, fills them on a simulated broker, and reconciles the broker with the
accounting book before it decides anything again. These modules specify the parts whose mistakes
would be silent: money and share counts that drift, an order that is filled twice or never, a halt
that does not hold, a session that is decided twice or from the wrong book, a file published from
bytes nobody kept, a paid request nobody counted.

The specification is TLA+, checked by TLC on small instances; what matters most is proved with
TLAPS for every value of the constants. Paths are relative to `src/`.

## 1. Inventory

### Execution (`execution/`)

| component | state | operations | interacts with |
|---|---|---|---|
| Paper broker, `sim_broker.py` | settled cash and holdings, bought lots and sale proceeds waiting for T+N, staged and resolved orders, ledger, `_current_session`, `_released_ahead` | `place`, `modify`, `cancel`, `execute_session`, `apply_share_rescale`, `carry_over`, `surrender`, `credit_corporate_cash`, `credit_interest`, `export_state`, `restore` | settlement schedule, cost model, market bars; called by staging and by the corporate-action applier |
| Settlement schedule, `settlement/schedule.py` | none (dated eras) | `lag_for` | broker |
| Cost model, `costs/model.py` | none (dated rate card) | `charge`, `charge_all` | broker |
| Kill switch, `kill_switch.py` | a file, and each process's copy of it | `trip`, `reset`, `require_placement_allowed`, the command line | staging, reconciliation, the daily job |
| Staging, `staging.py` | decision-to-order ties, uid counter | `stage`, `execute` | kill switch, broker, journal, book |
| Reconciliation, `recon.py` | none | `reconcile` | broker, book, kill switch, alerts |
| Live broker, `session.py`, `kite_broker.py` | login token, order cache | login, place, modify, cancel, sync | the exchange, dry-run unless confirmed |

Hard here: settlement across a dated change of cycle, re-execution of a session, slices of one
exit, corporate actions that land on staged, pending and settled shares at once, two processes on
one switch file, a crash between the switch's temp file and its rename. Correct means: what is
owed settles on its day and not before, the broker and the accounting book never part, one net
order per scrip and session, nothing is placed while the switch is tripped.

### Decision (`backtest/`)

| component | state | operations | interacts with |
|---|---|---|---|
| Daily paper session, `paper_session.py` | one ledger row per book and session, the owner's resolutions | the run of one session: interlock, halt, escalations, restore, corporate actions, fill, reconcile, decide, record | everything below and above; run by the scheduler or by hand |
| Accounting book, `accounting.py` | cash, positions, income | `record_fill`, splits, mergers, exits, credits | told of each fill and action beside the broker |
| Book actions, `book_actions.py` | none | applies one action to both sides | session, broker, accounting book |
| Replay, `replay.py` | the walk of a backtest | fill, decide, place per session | the same broker and policies |
| Policies, `policies/*.py` | redeploy-pending, entry memory | `decide` | session, replay |
| Rails, `rails.py` | none | limits on an order | policies |
| Interest and idle cash, `cash_interest.py`, `idle_cash.py` | accrual | credit | broker |
| Fund-manager job, `fm_job.py`, `fm_world.py`, `fm_paper.py` | its own ledger, call budget | a second daily job | language model, paper broker |
| Backtests, sweeps, campaigns, tax, run ledger | write-once summaries | sequential computation | store |

Hard here: red days, halts, missed sessions and lost runs between decision and fill; corporate
actions learnt late, twice or corrected; a trip that escapes the transaction of the run that made
it; two runs of one book. Correct means: each session decided once, from the book the session
before it left; every order filled on its session or cancelled; each action applied once, to what
was held; nothing decided over an unresolved break or escalation; the book goes on afterwards.

### Data platform (`dataplatform/`)

| component | state | operations | interacts with |
|---|---|---|---|
| Scheduler, `scheduler/runner.py`, `registry.py` | job rows, advisory lock | run a job once, journal it, time budget | every daily job |
| Raw store L0, `store/l0.py` | write-once files with sidecars | `put`, `get`, `exists`, `verify_checksums` | ingest, replays |
| Derived stores, `store/fo_aggregates.py`, `l1.py`, `l2.py`, `migrate.py`, `backup.py` | tables and files rebuilt from L0 | write, rebuild, migrate, dump | Postgres, the drivers |
| Host lease, `ingest/lease.py` | one file per host | take, break, release | every driver that fetches |
| Drivers, `ingest/daily_capture.py`, `fo_backfill.py` with `fetcher.py`, `policy.py` | spacing, breaker; `sync_state` rows | fetch, keep in L0, derive, publish; skip, park, fail | exchanges' sites, lease, L0, L1, L2, Postgres |
| Identity, corporate actions, quality | tables | reconcile feeds | L1, the paper session's lake |
| Status and alerts, `status/*.py`, `alerts.py` | `sync_state` rows, suppression of repeats | begin, advance, fail, the green gate, mail | drivers, scheduler, session |

Hard here: a crash between a sidecar and its payload, two drivers on one host and one session, a
lease broken by two at once, files and a database row that cannot be written together, a job that
hangs while it holds the lock. Correct means: what is published can be derived again from bytes the
store keeps, a published session stays published, one driver fetches from a host at a time, and
a fire that finds the file served publishes it.

### Analyst, orchestrator, operations

| component | state | operations | interacts with |
|---|---|---|---|
| Cases and policy versions, `analyst/cases/` | case lifecycle, append-only versions | open, change, close | Postgres |
| Cash manager, `analyst/cash/` | none | park, deploy | rails |
| Monitors, thesis, interview, mapper, journal, `analyst/` | append-only records | prompts and validation | language model |
| Language-model clients, `analyst/llm/`, `accounting/tokens.py` | token ledger | call, fall back | vendors |
| Web search and snapshots, `analyst/websearch/`, `analyst/commons/` | budgets, snapshot index | reserve, fetch once | vendors, file locks |
| Build orchestrator, `orchestrator/` | locked task state | claim, run, release | git |
| Operations scripts, `ops/` | none | backup, restore, scans | by hand |

Hard here: budget reservations by several processes at once, a single fetch under a file lock, a
crash between a snapshot and its index line, a task left in progress by a dead runner. Correct
means: no vendor is called uncounted or past a cap, and everyone who asks is given one answer.
`PROJECT.json` lists every hazard at its line with the property that would catch it, or why none
does.

## 2. Modules

| module | models | what it is |
|---|---|---|
| `SimBroker` | `execution/sim_broker.py`, with the schedule and the cost model as constants | detailed specification |
| `SimBrokerLedger` | the broker's cash statement | `SimBroker` with observers |
| `PortfolioBook` | `backtest/accounting.py` | abstract specification the broker implements |
| `SimBrokerBook` | `execution/recon.py`: what is compared with the accounting book | `SimBroker` seen as a `PortfolioBook`: the refinement mapping, and which step of the one is which of the other |
| `MCSimBroker`, `MCSimBrokerLedger` | | a small market |
| `SimBrokerProofs` | | the broker's safety, its ledger, the refinement of the book |
| `KillSwitch`, `MCKillSwitch` | `execution/kill_switch.py` | the file, and several processes on it |
| `KillSwitchProofs` | | type correctness and the halt |
| `PaperSession`, `MCPaperSession` | `backtest/paper_session.py` with what it calls | runs, ledger, owner, lake |
| `PaperSessionProofs` | | the session's safety, overlapping runs and alone |
| `Archive` | what the raw layer promises | abstract specification |
| `RawStore` | `dataplatform/store/l0.py` | detailed specification, implements `Archive` |
| `HostLease` | `dataplatform/ingest/lease.py` | the file, and the drivers on it |
| `Capture`, `MCCapture` | `ingest/daily_capture.py`, `ingest/fo_backfill.py`, `status/sync_state.py`, `scheduler/runner.py`, `store/fo_aggregates.py` | composes `HostLease` and `RawStore` (INSTANCE) with the two drivers |
| `HostLeaseProofs`, `RawStoreProofs` | | exclusion; the refinement of `Archive` |
| `CaptureProofs` | | the composition |
| `UsageLedger` | `analyst/websearch/ledger.py` | the counts, one step per transaction |
| `Research`, `MCResearch` | `analyst/websearch/research.py`, `analyst/commons/fetch.py` | threads and processes over the counts and the snapshot store |
| `ResearchProofs` | | one answer per request, every send paid for |
| `FoldLemmas` | | what sums and folds over finite sets compute, for the proofs |

### The broker

A trading date is its ordinal. `cash`, `holdings`, `pending` (shares by ISIN and trade date),
`receivables` (proceeds by trade date), `releasedAhead`, `orders` are the class's fields; `Place`,
`Modify`, `Cancel`, `ApplyShareRescale`, `CarryOver`, `Surrender`, `CreditCash`, `Restore` its
operations. `execute_session` is one call and several actions, one per loop iteration, strung
together by `phase`: `ExecuteSession`, `SettleTrades`, `Settled`, `RejectOrder`, `FillBuy`,
`FillSell`, `StartRelease`, `ReleaseAhead`, `EndSession`; nothing else can happen in between. The
loop over due orders takes them in placement order. Slippage moves the price by the
whole session's quantity of a scrip and side; a charge is a rate and a flat part, once per scrip
and day. `Restore` round-trips the exported state: what `export_state` drops (the resolved orders)
is dropped.

`PortfolioBook` has no settlement: a fill moves cash and shares at once. `SimBrokerBook` maps the
broker's spendable cash plus what is owed to the book's cash, and shares on the book, settled or
not, to its positions. The book has no moves of its own: each of its actions takes the fill or the
event the program posts. `Agreement` ties the steps together by name: a fill moves the account by
its own quantity and its own net amount (`FillNet`, from the price and charge on its record), a
rescale, reissue, cash exit or credit by what the book's method of that name does with the same
arguments, and every other step, a settlement, a release, a re-run or a restart, by nothing.
`Accepted` adds that the book takes each fill. `ImplementsBook` is the two together, from opening
cash and no shares: what `recon.py` compares after every session, at every step.

### The kill switch

`file` is the state on disk, `memory` each process's `_state`, `temp` what it is about to rename
into place. `trip` and `reset` are two steps, `Trip` or `Reset` and then `Replace`; a process may
`Crash` or the write may fail (`WriteFails`) in between, and others run. `Place` is
`require_placement_allowed` returning. `read`, `written` and `alone` are observers: which
transition a process has seen, and whether it has had the switch to itself since it was
constructed.

### The daily paper session

A run is three steps, because that is what other actors can see of it: `Start` (the switch object
is built, so its copy of the file is read), then `Execute`, `Skip` or `Stop` (everything up to the
row, in a transaction), then `Commit`; `Fail` at any point rolls back. Only the trip of a broken
reconciliation escapes the transaction, and `Execute` sets `switch` at once. Between the steps time
passes (`Advance`), the owner trips, resets and resolves, and the lake learns an action, a second
one of the same identity, or replaces one by a correction (`Learn`). `Execute` restores the book
(`Restored`: cancels what lapsed, re-bases after a break), books corrected, late and on-time
actions in that order (`Booked`), fills any subset of the due orders on both sides (`Filled`),
compares the sides (`Broke`) and writes the row of a break or of a decision (`Outcomes`). A slip is
one unit of cash that reaches the broker only: it stands for whatever could make the two sides
differ. A rescale is two calls: `ApplyShareRescale` floors the broker's count once and each staged
order on its own, `RescaleBook` floors the accounting book's position, both by `Ratio` (that the lots
behind the broker's count come to one floor is `SimBroker`'s matter). `rows`, `resolved` and `skips` are the two tables and the journal entries. The row's `from`
is an observer: the session whose book the run restored.

What the session does not model: cash of the fills (`SimBroker` has it), entry memory and the
early re-entry rule of the policy, the rescale twins of two feeds, the state digest, the isolation
of two books in one job, the input gap (a red day here).

### The capture

`RawStore` has one payload and one sidecar per key. Creating a file with O_EXCL and writing it are
two steps, so a file is absent, short or whole. `put` is `Put`, `Claim`, `Claimed`, `Store`,
`Stored` of one writer; `WriteFails` is a write that raises, `Leave` a caller that goes on or a
process that dies, with nothing cleaned up. A document is a logical date and a digest. `Archive`
has no files: a key is claimed, stored, and answered with that document for ever; the mapping takes
the sidecar for the claim and a whole payload for stored.

`HostLease` is `_take`, `_create` and `_release` split where other drivers can run: `Find` reads
the file and decides, `Break` removes whatever is there by then, `Create` and `Write` are the
create and the write. `Dies` leaves the file behind and its holder not alive, `Ages` takes it past
its TTL. `raced` is an observer: a live driver's file was removed by another that had read a
different file, or found it unwritten, or past its TTL.

`Capture` follows one file, the F&O bhavcopy, because two drivers land it. `Fire` is
`SchedulerRunner.run_once` with its advisory lock (a fire that finds it held does nothing) and
`Start` the operator's backfill with the plan it is given. Both then hold the lease (`LeaseStep`,
`Busy`), look at the session's row (`JobUnit`, `CampaignUnit`), fetch and keep the bytes (`Fetch`,
`NotServed`, `FetchFails`, `PutStep`, `PutRefused`), parse what the store hands back (`Parse`),
write the two partitions inside a transaction (`Land`, `Begin`, `WriteL1`, `WriteL2`, `Publish`,
`LandFails`) or record the failure (`Fail`, `Record`), and end (`Finish`, which in the job first
derives again what L2 lacks) or `Crash`. `sync` is what is committed: the states between PENDING
and PUBLISHED exist inside a transaction only; CLOSED is FAILED with `retryable` false. A row that
another transaction has written blocks an UPSERT (`RowFree`) but not a read, which is what lets a
driver act on a row that has changed. `served` is the host's file; `Serve` and `Restate` are the
exchange's.

Assumed: one machine (the lease compares pids), no loss of power (what is written stays), the F&O
source is served by the archive host, the sessions before the owed one are already served and
parse. `get` and the UPSERT that follows it in one call are one step where the call holds the row
already.

### Web research

`UsageLedger`'s rows are those of one month and one session; the next ones start at zero and share
nothing with them. A reservation is one transaction and its row locks make it one step, with its
three outcomes. `Research` is a request from `Ask` to its answer: `Lock`, `Lookup`, and on a miss
`Route` (the session's count), `CheckMonth`, `Pick`, `Reserve`, `Call` at most twice, `WriteOnce`,
`AppendIndex`. What is read in `CheckMonth` and `Pick` may be stale by `Reserve`, which compares
again. A vendor may answer, answer nothing usable, or refuse and leave the process's rotation; a
page's site may refuse. `AppendFails` is a full disk: the index line is missing or cut short, and
every later miss then raises. `Crash` takes a process with all its threads. The rotation's credit is
left out: any eligible vendor may be picked. `sent` and `told` are observers.

## 3. What the runs check

Run `tlc -workers 2 -config <name>.cfg <module>`. Every property of a passing run is broken by a
mutant in `PROJECT.json`: a definition marked "Mutant" in the module, put in the place of the
code's own.

| run | module | question | result |
|---|---|---|---|
| `BrokerOrders` | `MCSimBroker` | do orders settle, price, net and reach the accounting book as they should, with re-runs and restarts? | holds |
| `BrokerActions` | `MCSimBroker` | do corporate actions keep the broker consistent, and equal to the accounting book, over several lots? | holds |
| `SettlementCash` | `MCSimBrokerLedger` | is spendable and interest-bearing cash what has settled, and does each fill's ledger line reconcile? | holds |
| `LedgerUnderT2` | `MCSimBrokerLedger` | does the ledger reconcile whatever the cycle? | violated |
| `SwitchShared` | `MCKillSwitch` | what does a shared switch guarantee, and what to a process alone? | holds |
| `StaleProcessPlaces` | `MCKillSwitch` | does a tripped switch let no placement through? | violated |
| `PaperOrders` | `MCPaperSession` | do orders, rebalances, red days, breaks and halts come out right? | holds |
| `PaperActions` | `MCPaperSession` | is each corporate action applied once, to what was held, or escalated, and does the book go on? | holds |
| `PaperRaces` | `MCPaperSession` | do overlapping runs rewrite a decided session, or stop the book? | holds |
| `Capture` | `MCCapture` | is what two drivers publish re-derivable, theirs alone to fetch, published for good, and landed by the fire that finds it? | holds |
| `Research` | `MCResearch` | is every vendor call paid for within the caps, and everyone given one answer? | holds |
| `UnmodelledOnTime` | `MCPaperSession` | does BOOKED mean applied, or nothing to apply? | violated |

### Bounds, and why they are enough

*Broker.* Two scrips in `BrokerOrders` and `BrokerActions`: `a` prints every session; `b` does not
print in session 2 and is exit-only in session 3, so every rejection occurs in `BrokerOrders`.
`Ordered` names the scrips orders are placed for: both there, `a` alone in `BrokerActions`, where
`b` is what a reissue moves `a` to. The cycle changes from T+2 to T+1 after the first trade date in
`BrokerOrders`, where trades of two days settle together; three sessions are enough there for a
buy, its T+2 settlement and its sale. In `BrokerActions` it changes after the second and there are
four sessions: what is bought in the first two settles on the third and the fourth, so a rescale
meets two lots still pending, or a settled one beside a pending one, with an exit of all of them
staged, and both states are reached. `SettlementCash` has five sessions and changes after the third
trade date: a buy of session 1 is sold in parts, the proceeds of session 3 wait through session 4,
and those of session 4, which settle T+1, are in settlement beside them. Three orders (`MaxOrders`)
let a buy be followed by two slices of its exit, or two buys by one exit; with quantities 1 and 2 a
3-for-2 and a 1-for-2 floor lot by lot to less than the whole, and a one-share order vanishes. The
price is 3, one share moves it by 1 and two by 2, charges are 10% and a DP charge of 1, and opening
cash of 12 pays for two shares or for one of each, so funds run out. `MaxCredits` bounds the
corporate actions and credits: none in `BrokerOrders`, one in the others.
`Reruns` (a session executed twice) is on in `BrokerOrders` only. The calendar ends, so a broker
run may stop: these are the runs that do not check deadlock. `BrokerActions`, the largest, has 1.2
million states and takes three minutes.

*Switch.* Two processes, two causes, four transitions written, one order each: trip, reset, trip
and reset, in any interleaving.

*Session.* `PaperOrders`: a book that opens parked in session 2, then one session of a month and
two of the next, so that a rebalance is made, missed or moved, an exit is filled and its cash
redeployed; two red days, one trip by hand, one slip, one run lost. `PaperActions`: five sessions,
a 5-for-2 split with ex-date 3 and a dividend with ex-date 4, each under two terms, learnt before,
on or after their dates, and one run lost; the buy of session 1 is held from session 2, and a later
one from later. One share becomes two and the half is forfeited; a run that decides neither ex-date
on its day books both at once, the dividend on the floored count; and a dividend booked late after
a split booked late is on the count the ledger has entering its ex-date. `PaperRaces`: two runs,
three sessions, a slip and a lost run. In `PaperActions` an escalation can hold the book from the
session after the split's ex-date. Missed sessions need no bound: `Advance` may always come first.

*Capture.* Two sessions, so that a campaign has one before the owed one and may skip, finish or
stop between them; the nightly job in two processes, which the advisory lock keeps apart, and one
campaign, which is enough for every overlap of a job with a campaign (two campaigns at once are left
to the proofs); two contents of which one does not parse. `MaxFaults` is 1: one of a
crash, a failed write, a failed fetch, a restated file or an aged lease, at any point; a second
crash finds what the first left, and the proofs have no bound. 366 thousand states, about three minutes.

*Research.* Two threads of one process and one of another, so that threads share a rotation and
processes only files and rows; a query and a page; a vendor with a budget of one call, and one of
two units that bills a search two; two requests a month for three threads, one search a session,
one fault. Every cap is reached, and a vendor's budget and the month's cap by two threads at once.
The session's cap is not raced: a capability has one request here, and the request's lock gives it
to one thread at a time. That threads of different requests cannot pass it either is the theorem's
(`SendsArePaidFor`, any number of requests). 572 thousand states, about a minute.

### Fairness

`PaperActions` and `PaperRaces` check `BookGoesOn` under `PaperSession`'s `LiveSpec`. The scheduler
fires the job for the owed session again and again, and it is not shut out for ever: strong
fairness on its `Start`. A run once started ends, by stopping, by committing or by dying:
`[]<>(phase = "idle")` for each run, which is weak fairness of its steps stated on the state; it
excludes the job that hangs, which the code does not prevent (a hazard). The owner is told of every
halt, break and escalation and acts: weak fairness on `Reset` and on `Resolve`. Time passes:
`Advance`. Nothing is assumed of failures, trips, slips or the lake; the first three are bounded,
so they end.

`Capture` checks `ServedIsLanded` under its own `LiveSpec`: a fire once begun ends, or its process
dies. That is weak fairness of the job's steps stated on the state, as above; that the job always
has a step to take is the run's deadlock check. A campaign may stop anywhere, since a fire beside
one is excepted, and nothing says that the job is fired: it is, at
20:00 and again at 23:00 (`scheduler/registry.py:448-450`), and the next day's fires owe the next
session and never walk back (`daily_capture.py:272-286`, `730-731`), so a file served after the
second fire stays out until an operator starts a backfill. The property is therefore about a single
fire: one that begins with the file served ends with the session published, whatever earlier fires
left behind, unless a fault happens during it, a campaign is beside it or has closed the session,
or the key is blocked for good.

### Where the code and its own words part

- `LedgerUnderT2`: the ledger's balance "reconciles to its own debits and credits whatever the
  cycle" (`sim_broker.py:1238-1239`), but a dividend or interest posts spendable cash alone as the
  balance (`sim_broker.py:1048`): with proceeds in settlement it is short by them. What does hold
  is `FillLinesReconcile`: the next fill's line is right again.
- `StaleProcessPlaces`: the switch never lets "a placement through while tripped"
  (`kill_switch.py:254`), but a process reads the file once, when it constructs the switch. What
  does hold is `SeenHaltHolds` and, for a process that has the switch to itself, `HaltHoldsAlone`.
- `UnmodelledOnTime`: BOOKED means "applied to the book, or nothing to apply, because the book did
  not hold the name" (`paper_session.py:581-582`), but an action learnt on time whose terms the
  store does not carry is recorded BOOKED with the name held and changes nothing. Learnt a day
  later it is escalated.

Four more were met while modelling the capture and web research. No run of its own refutes the
words; the models have the behaviour, and the properties are stated around it.

- *The lease.* "Exactly one driver per lake is fetching from one host at a time"
  (`ingest/lease.py`). A driver that reads the file between another's create and write finds it
  unreadable and breaks it; one that has read a dead holder's file removes whatever has replaced it
  by then. Two drivers then hold the host. `OneDriver` says it happens only so (`raced`).
- *A published row withdrawn.* "`PUBLISHED` is closed absolutely" (`status/sync_state.py:139`). A
  job that a campaign keeps from the host reads the row in `_fail`, the campaign commits PUBLISHED,
  and the job's UPSERT writes FAILED over it. `PublishedStands` excepts just that; the next fire
  publishes the session again from the bytes kept.
- *A closed row reported as published.* Where a campaign met a 404 and closed the session, the
  nightly job that can fetch it reports ALREADY_PUBLISHED (`daily_capture.py`, `_land` on a False
  of `_begin`), and nothing is. `ServedIsLanded` names the case.
- *Puts that are refused.* Two puts of the same bytes at once may raise, the second finding a short
  file; a crash inside a write leaves the key short, and a response that does not parse keeps the
  key it was stored under: both refuse that session for ever (`Blocked`). A snapshot index line cut
  short (`commons/fetch.py`, `_append_index` does not look at what `os.write` returns) makes every
  later miss raise.

Some properties say less than one might expect, because the code does. `OneOrderPerScrip` is about
orders that no reissue moved: `carry_over` does not apply `place`'s rule. `SingleExitSurvivesRescale`
is about an exit placed as one order: slices are floored one by one. `InterestOnSettledCash` is
checked without re-runs: a re-run finds nothing to release and resets `_released_ahead`.
`FirstCauseKept` and `ResetTracesTheTrip` are about a process that has the switch to itself: two
that both read an armed switch may trip it in turn, and the second cause stays. `DecisionsChain` is
about runs that do not overlap: `paper_session.py` takes no lock of its own, and an explicit-date
run beside the scheduled one can pass the forward-only test before the other commits.
`ImplementsBook` assumes a sale worth at least its charges, as the constants of the run have it and
as the book says of its own sells ("turnover - charges, positive", `backtest/accounting.py:311`).
Without it the broker does not implement the book: with a flat charge of 9 on a sale worth 2, what
is owed goes to -7, the broker still spends all of its 9 of settled cash on a buy, and the book,
which has taken the 7 off at once, refuses to record it (`InsufficientCashError`).

## 4. What is proved

The proof modules are checked with `tlapm`. Assumptions are the named `ASSUME`s of the modules:
ranges of the constants, finite sets where the code has a list (scrips, vendors, capabilities,
threads), and that an unknown cause or a break's key is not a member of the set it is told apart
from. A theorem that needs more says so in its own statement: `~Concurrent` (no two runs of one book
overlap), `~Reruns` (a session is executed once), `SalesPay` below. Every safety
property of a passing run is the conclusion of a theorem.

### The broker

- `SimBrokerProofs!TypeCorrect`: `TypeOK` is inductive. The work is in the floors, in the shares held,
  which are sums over trade dates, and in the fills, where a settled lot grows or shrinks
  and must stay a count. For every calendar, cycle, price, ratio and stream of calls, no share count
  is ever negative.
- `UnderwayAlways` is the invariant the others rest on. It says where a call of `execute_session`
  stands: between calls the session's due orders are all resolved, while one is under way `due` is
  exactly the due orders not yet resolved, and an order is complete only up to the session executed.
- `ResolvedStays` and `NothingEarly` are facts of a step under that invariant: a resolved order is
  never touched again, and neither shares nor proceeds move before their day. `OneOrderStands` and `NeverSettledLate` are inductive
  with it. The second needs that each session's call goes over all trade dates, in whatever order,
  and that a change of cycle can make a later trade settle no later than an earlier one.
- `SlicesFillAsOne`: slices of one exit get one price and one DP charge. While the loop runs, the
  fills of the session so far agree with the price the whole exit has, which depends on the orders
  still due (`Counted`, with `ExitPrices`); afterwards they agree with each other (`Agreed`).
- `ExitSurvives`: a rescale keeps an exit that sells all that is settled and pending an exit of all
  of it. It is a theorem about floors: the order is floored once, the lots one by one, and the
  remainder goes to the last lot, so both come to the floor of the total (`FloorAdds`).
- `LedgerAddsUp` and `FillLinesAddUp`: what the broker is worth is opening cash less outlay plus what
  it earned (`Reconciled`), the statement's postings add up to it (`Posted`), and a fill's line shows
  the whole of it. `SpendableIsSettled` adds that what is still owed is exactly the unsettled sales
  (`Outstanding`): by the next fill spendable cash is what has settled by then, no more and no less.
  `InterestIsOnSettled` (`~Reruns`): interest accrues on what had settled on that day, even where the
  release for the next morning has been made already (`Bearing`).
- `BooksMoveAlike`: broker and accounting book move alike, step by step, for every market, charge and
  stream of calls (`BooksAgree`). Settlement, release, re-runs and restarts leave the account as it
  is; a fill moves it by its own shares and net amount; a rescale by the book's one floor of the
  position, which equals the broker's floors of settled, pending and remainder (`FloorSum`,
  `RescaledOnce`). It needs no assumption of its own.
- `BookImplemented`: so the broker implements `PortfolioBook`, where the book also accepts every
  fill. A buy must be one it can pay for, and its cash is spendable cash plus what is owed: nothing
  owed may be negative (`NoDebt`), which is where `SalesPay` comes in, a sale is worth its charges.
  It is needed: section 3 has the trace without it.

### The kill switch

- `KillSwitchProofs!SeenHalt`: for any number of processes, a placement while the file says tripped
  is made only by a process that has not read or written the file since its last transition. The
  inductive invariant is `Fresh`: a process whose `read` count is current holds the file's own
  state.
- `HaltAlone`, `FirstCauseAlone`, `ResetTraceAlone`: for a process with the switch to itself. The
  property alone is not inductive; `Alone` adds that at most that process is alive, that its copy is
  the file, and that what it is about to rename follows from the file.

### The daily paper session

- `PaperSessionProofs!DecidedRowsStand`: for any number of overlapping runs, a decided session is
  never rewritten. `Shape` (a row per session, a record per run) makes the updates of `rows` and
  `run` what they look like; only `Commit` writes the ledger, and only where nothing is decided.
- `TypeCorrect`, also for any overlap, from `Typed`: every row is a `Recorded` one. What a run books
  is a fold over the actions in ex-date order, and the invariant of that fold is
  that it stays within the book's type.
- `ChainAlone`: where runs do not overlap, every decided session starts from the latest decided
  before it. `Chained`: at most one run is under way, each decided row's
  `from` is the latest decided before it, and the row a run is about to write has a `from` that is
  still the latest and no later session is decided. It is what a run overlapping another loses.
- The others assume `~Concurrent` too, and share one invariant, `Alone`: `Chained`, with `Fitting`,
  that each row of the ledger, and the one about to be written, fits the rows before it (`Fits`: what
  it filled was placed for it by the session it starts from, what it has seen no earlier one saw,
  nothing earlier was unresolved). The point is that a row is compared with rows that may no longer
  change, so a fact that `Execute` establishes is still true at `Commit`. From it:
  `OrdersFillOnTarget`, `NoStaleOrder`, `ActionsSeenOnce`, `LaterTermsEscalate`,
  `MonthRebalancedFirst` and `DecidedOverNothingUnresolved`. `BreakHoldsTheBook` adds `Halting` (after
  a break every run not yet stopped has seen the switch tripped), `SkipsJournaledOnce` adds
  `Journaled` (no second skip is about to be written over a first), `BreaksAreSlips` adds `Slipped`
  (there are no more broken rows than times the two sides were made to differ: reconciliation
  breaks on nothing the job does itself).
- `DividendsAsEntitled` takes the fold of a session's bookings apart. `PaysFor` holds of the book
  after each of them: its shares are those restored, rescaled for each split noted, and its credits
  those restored and what the dividends noted are due (`EntitledTo`). A split keeps that because
  of the order they are booked in: what is late first, then by ex-date, dividends before splits
  within one, so no dividend noted on time went ex after the split (`BookedBefore`). The count a
  dividend on time finds is then the persisted one, floored by just the splits that went ex
  before it. `Paying` says the same of a row against the row before it, and the chain adds the rows
  up (`CreditsAddUp`). It holds of every calendar because `SharesEntitled` says what the code
  does: a dividend that is itself late is on the persisted count alone, though a split late with it
  may have gone ex before (`PROJECT.json` lists that hazard; no property says it should not).

### The capture

- `HostLeaseProofs!LeaseExcludes`, and `TypeCorrect`: until a live driver's file has been removed,
  whoever has created the file still finds its own (`HoldersOwnIt`), and what a driver is about to
  break was breakable when it read it (`BreaksTheBreakable`). `OneDriver` follows: one file has one
  owner.
- `RawStoreProofs!StoreIsArchive`, and `TypeCorrect`: the initial states map to initial states and
  each step to a step of `Archive` or a stutter, from an invariant that says O_EXCL lets one writer
  at most write a file (`OneWriter`) and that a writer past its claim finds the sidecar whole and
  naming its own document (`Claiming`, `Claimant`, `Storing`).
- `CaptureProofs`: every step of the composition is a step of the lease and one of the store, or
  leaves them alone. `CaptureExcludes` and `CaptureArchives` carry the two theorems above over.
  `PublishedRederives` needs the store's invariant and three more: a driver with work on hand is on
  a session (`OnSession`), what it parsed is what the store has for it (`RowsRead`), and the
  partitions written so far in a transaction were derived from that (`PartsWritten`). Because the
  store never changes its mind, two drivers on one session can only write the same partitions.
- `CaptureProofs!PublishedStand`: the lease keeps two drivers from holding the host
  (`Leasing`), the advisory lock keeps two jobs apart (`OneJob`), an observer remembers which jobs
  had a campaign beside them (`Beside`), and so the row a driver saw open is open still when it
  writes it (`OpenRows`).

### Web research

- `ResearchProofs!AnswersAgree`: the lock of a request makes its holder the only one at work on it
  (`Held`), so that having found nothing stays true until it answers (`First`); a snapshot is in the
  store before its line is in the index (`Written`); and while the index can be read, every answer
  is in it (`Indexed`).
- `SendsArePaidFor`, for any number of threads, processes and vendors: no vendor is sent more than
  was counted for it, and no count passes its cap. `Kept` has four parts: a request makes
  at most its calls (`Called`); each count is within its cap and the total is the sum of the vendors'
  (`Counts`, whatever stale sums were read before a reservation); a vendor's sends and the threads
  about to send to it are together within its count (`Backed`), which is what makes a
  reservation belong to one call; and the sends to come are bounded by the requests open (`Allowed`).

### Sums and folds

The library has no theorem on the community modules' folds, and an induction over data is out of
this prover's reach. `FoldLemmas` proves what `MapThenSumSet` and `MapThenFoldSet` compute without
one: the finite sets that refute a claim, if any, have a smallest, because strict inclusion on the
subsets of a finite set is well-founded (a library theorem that takes no operator), and
taking one element from that one gives a smaller. So a sum unfolds, splits, changes by what one
element changes, and does not depend on the order (`SumUnfolds`, `SumAdd`, `SumPlus`, `SumSplit`,
`SumExcept`), and a fold keeps what each of its steps keeps (`FoldInvariant`). `Repeated` applies a
function once for each member of a set, as splits do to a count: one member more applies it once
more, whatever the order (`RepeatedOnce`).

### Only model-checked

Liveness (`BookGoesOn`, `ServedIsLanded`): TLAPS has no rule for fairness here, and ENABLED is out
of its reach.

## 5. Plan

Done: the broker, its ledger and its abstract book; the switch; one book's daily session; the
capture of a file over the lease and the raw store; web research over its counts and snapshots; and
the theorems above.

What is left to prove is what the theorems of a lone book and a lone process exclude: how much of
`FittingStep` a second run of the same book would leave standing, and what the switch keeps of its
first cause when two processes trip it.

Were the model to grow, the next parts would be the corporate-action applier with the derivation of
terms and two books in one job, staging with its Postgres journal outside the run's transaction,
and the fund-manager job.

## 6. Not modelled

The live broker (a client of an external exchange, dry-run unless confirmed), backtest campaigns,
sweeps, tax and reports (sequential computation over stored data), parsers and feed reconciliation
(data conversion), the analyst's prompts and records, status pages, and operations scripts run
by hand. The orchestrator is a development tool beside the product, and cases are written by one
person at a time; both have a stale read a second actor could meet, which `PROJECT.json` lists as a
hazard. The other sources of the nightly job go through the helpers `Capture` models
(`_with_fetcher`, `_begin`, `_land`, `_fail`), one after the other, and their backfills through the
same lease and store: they would repeat it with another parser.
`PROJECT.json` gives the reason for each. Most of the repository by length is parsing, ranking,
simulation over stored data and reports: it has no state that outlives a call and no order of steps
that another actor could change, and a model of it would be the program again.

Inside the modelled parts, cost basis and realized
gain, limit prices (the fill model never reads them), the seven components of a charge and their
rounding, request spacing and retries within a fetch, the contents of a partition, the rotation of
vendors, and every rendering of an order or a report are left out: no property is about them.
