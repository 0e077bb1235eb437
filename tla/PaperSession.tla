---------------------------- MODULE PaperSession ----------------------------
(***************************************************************************)
(* The daily paper session of one book (backtest/paper_session.py): its    *)
(* session ledger, the run that decides one session, the operator who      *)
(* trips and resets the switch and resolves what was escalated, and the    *)
(* corporate actions the lake learns, on time or late.                     *)
(*                                                                         *)
(* A run reads the switch when it is built, reads the ledger, books,       *)
(* fills, reconciles and decides, and writes its row in one transaction:   *)
(* Start, Execute (or Skip or Stop) and Commit.  Only the trip of a        *)
(* broken reconciliation escapes the transaction.  Time, the operator and  *)
(* the lake move between the steps; a run may die at any of them.          *)
(*                                                                         *)
(* The book holds one security.  A side of the book is its shares and what *)
(* corporate actions credited it; SimBroker has the cash of the fills.     *)
(***************************************************************************)
EXTENDS Integers, FiniteSetsExt, Folds

CONSTANTS
  Runs,          \* the runs that may be under way
  Concurrent,    \* whether two of them may be at once
  LastSession,   \* bound on the trading sessions 1, 2, ...
  Month,         \* the month of each session
  FirstSession,  \* the first the book may decide
  OpensParked,   \* the opening month counts as rebalanced
  Ids,           \* corporate actions by identity
  Terms,         \* the terms one may be known under: the amount of a dividend
  Kind,          \* identity -> "dividend", "rescale" (a split or bonus) or "unmodelled"
  Ratio,         \* the terms of a rescale: <<numerator, denominator>>
  ExDate,        \* identity -> ex-date
  MaxReds, MaxTrips, MaxSlips, MaxFails  \* bounds on what may happen

Sessions == 1..LastSession
Actions == [id : Ids, terms : Terms]

ASSUME SessionsAssumption == LastSession \in Nat \ {0} /\ FirstSession \in Sessions
ASSUME MonthAssumption == Month \in [Sessions -> Nat]
ASSUME IdsAssumption == "RECON" \notin Ids /\ ExDate \in [Ids -> Sessions]
ASSUME TermsAssumption == Terms \subseteq Nat
ASSUME KindAssumption == Kind \in [Ids -> {"dividend", "rescale", "unmodelled"}]
ASSUME RatioAssumption == Ratio \in (Nat \ {0}) \X (Nat \ {0})

VARIABLES
  today,     \* the session owed
  rows,      \* paper_session, by trading date
  resolved,  \* paper_session_resolution
  skips,     \* SKIPPED_DATA_RED entries journaled per session
  switch,    \* the kill-switch file says tripped
  known,     \* the corporate actions in the lake
  run,       \* each run
  broken,    \* a reconciliation broke since the last reset (observer)
  used       \* how often each bounded thing happened

vars == <<today, rows, resolved, skips, switch, known, run, broken, used>>

Empty == [shares |-> 0, credits |-> 0]
NoRow == [outcome |-> "NONE", rebalanced |-> FALSE, pending |-> FALSE, orders |-> {},
          staged |-> {}, fills |-> {}, seen |-> {}, broker |-> Empty, expected |-> Empty,
          from |-> 0]
SkippedRow == [NoRow EXCEPT !.outcome = "SKIPPED_DATA_RED"]
Idle == [phase |-> "idle", session |-> 0, halted |-> FALSE, row |-> NoRow]

Init ==
  /\ today = 1
  /\ rows = [d \in Sessions |-> NoRow]
  /\ resolved = {}
  /\ skips = [d \in Sessions |-> 0]
  /\ switch = FALSE
  /\ known = {}
  /\ run = [r \in Runs |-> Idle]
  /\ broken = FALSE
  /\ used = [what \in {"reds", "trips", "slips", "fails"} |-> 0]

Use(what, bound) == used[what] < bound /\ used' = [used EXCEPT ![what] = @ + 1]

-----------------------------------------------------------------------------
(* The session ledger: what a run reads of it *)

Moved(d) == rows[d].outcome \in {"COMPLETED", "RECON_BREAK"}
MovedBefore(d) == {e \in Sessions : e < d /\ Moved(e)}

\* latest_completed; 0 when there is none.
Latest(d) == Max(MovedBefore(d) \cup {0})

\* _ActionIndex.of(summaries).
Seen(d) == UNION {rows[e].seen : e \in 1..(d - 1)}
Escalated(d) == {s.action : s \in {s \in Seen(d) : s.status = "ESCALATED"}}
BreakKey(d) == [id |-> "RECON", terms |-> d]
Breaks(d) == {BreakKey(e) : e \in {e \in 1..(d - 1) : rows[e].outcome = "RECON_BREAK"}}

\* Mutant: only a break holds the book.
UnresolvedBreaks(d) == Breaks(d) \ resolved
\* Mutant: a resolution never clears anything.
UnresolvedEver(d) == Escalated(d) \cup Breaks(d)
Unresolved(d) == (Escalated(d) \cup Breaks(d)) \ resolved

\* Mutant: due on the first session of the calendar month, as in the backtest.
RebalanceDueByCalendar(d) == d = 1 \/ Month[d - 1] # Month[d]
\* The first session of the month this book decides.
RebalanceDue(d) ==
  /\ ~\E e \in MovedBefore(d) : rows[e].rebalanced /\ Month[e] = Month[d]
  /\ OpensParked => Month[d] # Month[FirstSession]

-----------------------------------------------------------------------------
(* Corporate actions: _sort_actions, _changed_terms, _book_late and the    *)
(* applier.  A book under way is both sides, the staged orders and what    *)
(* it has seen.                                                            *)

SeenAs(a, held, status) == {[action |-> a, held |-> held, status |-> status]}

Known(d) == {a \in known : \E e \in MovedBefore(d) : e < ExDate[a.id] /\ ExDate[a.id] <= d}

\* Mutant: terms are part of the identity, so corrected terms are a new action.
OfIdentityAndTerms(a, d) == {s \in Seen(d) : s.action = a}
OfIdentity(a, d) == {s \in Seen(d) : s.action.id = a.id}

\* Mutant: what was seen is forgotten.
FreshForgotten(d) == Known(d)
Fresh(d) == {a \in Known(d) : OfIdentity(a, d) = {}}
Changed(d) == {a \in Known(d) : OfIdentity(a, d) # {} /\ \A s \in Seen(d) : s.action # a}
Late(d) == {a \in Fresh(d) : ExDate[a.id] <= Latest(d)}

\* Corrections are booked first, then what is late, then what is on time.
Turn(a, d) == IF a \in Changed(d) THEN 1 ELSE IF a \in Late(d) THEN 2 ELSE 3
\* BookActionCalendar sorts by ex-date, and dividends before rescales within one.
KindOrder == [dividend |-> 1, rescale |-> 2, unmodelled |-> 3]
Place(a, d) == <<Turn(a, d), ExDate[a.id], KindOrder[Kind[a.id]], a.terms>>
Before(a, b, d) == \E i \in 1..4 : /\ Place(a, d)[i] < Place(b, d)[i]
                                  /\ \A j \in 1..(i - 1) : Place(a, d)[j] = Place(b, d)[j]
LastOf(actions, d) == CHOOSE a \in actions : \A b \in actions : ~Before(a, b, d)

\* Mutant: what the book holds after its latest session.
EntitledNow(a) == IF MovedBefore(today + 1) = {} THEN 0 ELSE rows[Latest(today + 1)].broker.shares
\* _entitled_entering: the book as the last decided session before the ex-date left it.
Entitled(a) == IF Latest(ExDate[a.id]) = 0 THEN 0 ELSE rows[Latest(ExDate[a.id])].broker.shares

TradedSince(a, d) == \E e \in Latest(ExDate[a.id])..(d - 1) : e > 0 /\ rows[e].orders # {}

Paid(side, amount) == [side EXCEPT !.credits = @ + amount]
Credited(book, amount) ==
  [book EXCEPT !.broker = Paid(@, amount), !.expected = Paid(@, amount)]

\* The broker's _floor_ratio.
FloorRatio == [n \in Int |-> (n * Ratio[1]) \div Ratio[2]]
\* apply_share_rescale: what the lots come to is floored once, each staged order on its own, and
\* an order that comes to nothing is cancelled.
ApplyShareRescale(book) ==
  [book EXCEPT !.broker.shares = FloorRatio[@],
     !.staged = {[o EXCEPT !.quantity = FloorRatio[@]] :
                   o \in {o \in book.staged : FloorRatio[o.quantity] > 0}}]
\* _rescale_book: the accounting book floors its own position and forfeits the fraction.
RescaleBook(book) == [book EXCEPT !.expected.shares = (@ * Ratio[1]) \div Ratio[2]]
Rescaled(book) == RescaleBook(ApplyShareRescale(book))
Noted(book, a, held, status) == [book EXCEPT !.seen = @ \cup SeenAs(a, held, status)]

BookChanged(book, a, d) ==
  LET held == Entitled(a) > 0 \/ \E s \in OfIdentity(a, d) : s.held
  IN  Noted(book, a, held, IF held THEN "ESCALATED" ELSE "BOOKED")

Rescalable(book, a, d) ==
  Kind[a.id] = "rescale" /\ ~TradedSince(a, d) /\ book.broker.shares = Entitled(a)

BookLate(book, a, d) ==
  IF Entitled(a) = 0 THEN Noted(book, a, FALSE, "BOOKED")
  ELSE CASE Kind[a.id] = "dividend" ->
              Noted(Credited(book, a.terms * Entitled(a)), a, TRUE, "BOOKED")
         [] Rescalable(book, a, d) -> Noted(Rescaled(book), a, TRUE, "BOOKED")
         [] OTHER -> Noted(book, a, TRUE, "ESCALATED")

BookOnTime(book, a) ==
  Noted(CASE Kind[a.id] = "dividend" -> Credited(book, a.terms * book.expected.shares)
          [] Kind[a.id] = "rescale" /\ book.broker.shares > 0 -> Rescaled(book)
          [] OTHER -> book,
        a, book.broker.shares > 0, "BOOKED")

BookOne(book, a, d) == CASE a \in Changed(d) -> BookChanged(book, a, d)
                         [] a \in Late(d) -> BookLate(book, a, d)
                         [] OTHER -> BookOnTime(book, a)

\* Each on the book the ones before it left.
Booked(book, d) ==
  MapThenFoldSet(LAMBDA a, b : BookOne(b, a, d), book, LAMBDA a : a,
                 LAMBDA actions : LastOf(actions, d), Changed(d) \cup Fresh(d))

-----------------------------------------------------------------------------
(* Restore, fill, reconcile, decide *)

\* Mutant: an order of a session never decided stays staged.
LapsedKept(staged, d) == staged
\* Mutant: it is carried to this session instead.
LapsedCarried(staged, d) == {[o EXCEPT !.target = Max({@, d})] : o \in staged}
\* _restore_book cancels the orders staged for a session the book did not decide.
Lapsed(staged, d) == {o \in staged : o.target >= d}

\* Mutant: the accounting book always comes from its own last row.
ExpectedOfLast(d) == IF Latest(d) = 0 THEN Empty ELSE rows[Latest(d)].expected
\* _restore_expected: after a break, re-based on the broker.
Expected(d) == IF Latest(d) > 0 /\ rows[Latest(d)].outcome = "RECON_BREAK"
               THEN rows[Latest(d)].broker ELSE ExpectedOfLast(d)

Restored(d) ==
  LET last == Latest(d)
  IN  [broker   |-> IF last = 0 THEN Empty ELSE rows[last].broker,
       expected |-> Expected(d),
       staged   |-> IF last = 0 THEN {} ELSE Lapsed(rows[last].staged, d),
       seen     |-> {}]

Due(book, d) == {o \in book.staged : o.target = d}

FilledShares(shares, o) == IF o.side = "BUY" THEN shares + o.quantity ELSE shares - o.quantity

SharesAfter(shares, fills) == FoldSet(LAMBDA o, n : FilledShares(n, o), shares, fills)

\* StagingCoordinator.execute: each due order fills on both sides or is rejected; a slip is
\* one unit of cash the accounting book was not told of.
Filled(book, fills, slip, d) ==
  [book EXCEPT !.broker = [shares |-> SharesAfter(@.shares, fills), credits |-> @.credits + slip],
               !.expected = [shares |-> SharesAfter(@.shares, fills), credits |-> @.credits],
               !.staged = @ \ Due(book, d)]

NewOrder(d, side, quantity) ==
  [decided |-> d, target |-> d + 1, side |-> side, quantity |-> quantity]

\* MomentumV2Policy.decide: what it may stage, and what it leaves to redeploy.
Decisions(d, rebalance, carried, shares) ==
  {[orders |-> {}, pending |-> FALSE]} \cup
  (IF rebalance \/ carried
   THEN {[orders |-> {NewOrder(d, "BUY", 1)}, pending |-> FALSE]} ELSE {}) \cup
  (IF rebalance /\ shares > 0
   THEN {[orders |-> {NewOrder(d, "SELL", shares)}, pending |-> TRUE]} ELSE {})

\* What the session leaves, whatever it decides.
Left(book, fills, d) ==
  [outcome |-> "NONE", rebalanced |-> FALSE, pending |-> FALSE, orders |-> {},
   staged |-> book.staged, fills |-> fills, seen |-> book.seen, broker |-> book.broker,
   expected |-> book.expected, from |-> Latest(d)]

\* Mutant: the row of a broken session keeps what the policy wanted.
BrokenRowDecided(row, carried, rebalance) ==
  [row EXCEPT !.outcome = "RECON_BREAK", !.rebalanced = rebalance, !.pending = carried]
\* A session that broke stages nothing, is no rebalance and carries what was pending.
BrokenRow(row, carried, rebalance) ==
  [row EXCEPT !.outcome = "RECON_BREAK", !.pending = carried]

DecidedRow(row, decision, rebalance) ==
  [row EXCEPT !.outcome = "COMPLETED", !.rebalanced = rebalance,
              !.pending = decision.pending, !.orders = decision.orders,
              !.staged = @ \cup decision.orders]

Broke(row) == row.broker # row.expected

Outcomes(row, d) ==
  LET rebalance == RebalanceDue(d)
      carried == Latest(d) > 0 /\ rows[Latest(d)].pending
  IN  IF Broke(row) THEN {BrokenRow(row, carried, rebalance)}
      ELSE {DecidedRow(row, decision, rebalance) :
              decision \in Decisions(d, rebalance, carried, row.broker.shares)}

-----------------------------------------------------------------------------
(* One run *)

\* run_paper_session_job, _run_book_session: the owed session or an explicit earlier one.
Start(r, d) ==
  /\ run[r].phase = "idle" /\ d <= today /\ d >= FirstSession
  /\ Concurrent \/ \A q \in Runs : run[q].phase = "idle"
  /\ run' = [run EXCEPT ![r] = [phase |-> "started", session |-> d, halted |-> switch,
                                 row |-> NoRow]]
  /\ UNCHANGED <<today, rows, resolved, skips, switch, known, broken, used>>

\* Mutant: an earlier date is not refused.
RefusedNot(d) == FALSE
\* A paper book decides forward only.
Refused(d) == \E e \in Sessions : e > d /\ Moved(e)

\* ALREADY_DECIDED, or the error of an earlier date.
Stop(r) ==
  /\ run[r].phase = "started"
  /\ Moved(run[r].session) \/ Refused(run[r].session)
  /\ run' = [run EXCEPT ![r] = Idle]
  /\ UNCHANGED <<today, rows, resolved, skips, switch, known, broken, used>>

\* The switch or something unresolved holds the book.
Held(r) == run[r].halted \/ Unresolved(run[r].session) # {}

MayDecide(r) == /\ run[r].phase = "started"
                /\ ~Moved(run[r].session) /\ ~Refused(run[r].session)

\* Mutant: a still-red rerun is journaled again.
StillRedNot(d) == FALSE
StillRed(d) == rows[d].outcome = "SKIPPED_DATA_RED"

\* The row is ready, in a transaction not yet committed.
Write(r, row) == run' = [run EXCEPT ![r] = [@ EXCEPT !.phase = "writing", !.row = row]]

\* _skip: red data, or the book is held.
Skip(r) ==
  /\ MayDecide(r)
  /\ \/ Held(r) /\ used' = used
     \/ Use("reds", MaxReds)
  /\ IF StillRed(run[r].session) THEN run' = [run EXCEPT ![r] = Idle] ELSE Write(r, SkippedRow)
  /\ UNCHANGED <<today, rows, resolved, skips, switch, known, broken>>

\* Mutant: the trip is part of the transaction, and lost with it.
TripsNot(broke) == FALSE
Trips(broke) == broke

Execute(r) ==
  LET d == run[r].session
      ready == Booked(Restored(d), d)
  IN  /\ MayDecide(r) /\ ~Held(r)
      /\ \E fills \in SUBSET Due(ready, d), slip \in 0..1 :
           LET row == Left(Filled(ready, fills, slip, d), fills, d)
           IN  /\ IF slip = 1 THEN Use("slips", MaxSlips) ELSE used' = used
               /\ row.broker.shares >= 0
               /\ \E outcome \in Outcomes(row, d) : Write(r, outcome)
               /\ switch' = (switch \/ Trips(Broke(row)))
               /\ broken' = (broken \/ Broke(row))
      /\ UNCHANGED <<today, rows, resolved, skips, known>>

\* Mutant: the upsert replaces whatever row is there.
RecordableAlways(d) == TRUE
\* PaperSessionStore.record: only a skip may be superseded.
Recordable(d) == ~Moved(d)

\* record and commit: the row and the journal, or neither.
Commit(r) ==
  LET d == run[r].session
  IN  /\ run[r].phase = "writing"
      /\ run' = [run EXCEPT ![r] = Idle]
      /\ IF Recordable(d)
         THEN /\ rows' = [rows EXCEPT ![d] = run[r].row]
              /\ skips' = IF run[r].row = SkippedRow THEN [skips EXCEPT ![d] = @ + 1] ELSE skips
         ELSE UNCHANGED <<rows, skips>>
      /\ UNCHANGED <<today, resolved, switch, known, broken, used>>

\* The run dies, or raises, and its transaction is rolled back.
Fail(r) ==
  /\ run[r].phase # "idle"
  /\ Use("fails", MaxFails)
  /\ run' = [run EXCEPT ![r] = Idle]
  /\ UNCHANGED <<today, rows, resolved, skips, switch, known, broken>>

-----------------------------------------------------------------------------
(* Around the runs *)

Advance ==
  /\ today < LastSession
  /\ today' = today + 1
  /\ UNCHANGED <<rows, resolved, skips, switch, known, run, broken, used>>

\* The lake learns an action, a second one of its identity, or a correction of it.
Learn(a) ==
  /\ a \notin known
  /\ \/ known' = known \cup {a}
     \/ known' = {b \in known : b.id # a.id} \cup {a}
  /\ UNCHANGED <<today, rows, resolved, skips, switch, run, broken, used>>

TripByHand ==
  /\ ~switch /\ Use("trips", MaxTrips)
  /\ switch' = TRUE
  /\ UNCHANGED <<today, rows, resolved, skips, known, run, broken>>

Reset ==
  /\ switch
  /\ switch' = FALSE /\ broken' = FALSE
  /\ UNCHANGED <<today, rows, resolved, skips, known, run, used>>

\* The owner's INSERT INTO paper_session_resolution.
Resolve(key) ==
  /\ resolved' = resolved \cup {key}
  /\ UNCHANGED <<today, rows, skips, switch, known, run, broken, used>>

ToResolve == (Escalated(LastSession + 1) \cup Breaks(LastSession + 1)) \ resolved

RunStep(r) == Stop(r) \/ Skip(r) \/ Execute(r) \/ Commit(r)

Next ==
  \/ \E r \in Runs, d \in Sessions : Start(r, d)
  \/ \E r \in Runs : RunStep(r) \/ Fail(r)
  \/ Advance \/ TripByHand \/ Reset
  \/ \E a \in Actions : Learn(a)
  \/ \E key \in ToResolve : Resolve(key)

Spec == Init /\ [][Next]_vars

\* The scheduler fires the job again and again and a run once started ends; the owner, told
\* of a halt and of every escalation, eventually clears them.
Fairness ==
  /\ SF_vars(\E r \in Runs : Start(r, today))
  /\ \A r \in Runs : []<>(run[r].phase = "idle")
  /\ WF_vars(Advance) /\ WF_vars(Reset)
  /\ WF_vars(\E key \in ToResolve : Resolve(key))

LiveSpec == Spec /\ Fairness

-----------------------------------------------------------------------------
(* Properties *)

\* Every row is one the table's CHECK constraints accept: a skip carries nothing, a broken
\* session stages no order and is no rebalance (PaperSessionRecord.__post_init__).
TypeOK ==
  /\ today \in Sessions /\ switch \in BOOLEAN /\ broken \in BOOLEAN
  /\ known \subseteq Actions
  /\ \A d \in Sessions :
       /\ rows[d].outcome \in {"NONE", "SKIPPED_DATA_RED", "COMPLETED", "RECON_BREAK"}
       /\ skips[d] \in Nat
       /\ rows[d].outcome \in {"NONE", "SKIPPED_DATA_RED"} =>
            [rows[d] EXCEPT !.outcome = "NONE"] = NoRow
       /\ rows[d].outcome = "RECON_BREAK" => rows[d].orders = {} /\ ~rows[d].rebalanced
  /\ \A r \in Runs : run[r].phase \in {"idle", "started", "writing"}

\* A decided session is never rewritten, by a rerun, a retry or an explicit date.
DecidedStands == [][\A d \in Sessions : Moved(d) => rows'[d] = rows[d]]_vars

\* The book decides forward only: each decided session starts from the book the latest
\* decided one before it left, so the ledger is one chain and never forks.
DecisionsChain == \A d \in Sessions : Moved(d) => rows[d].from = Latest(d)

\* An order fills on its target session only, the next after the one that placed it, and only
\* if the book decided that session straight after: otherwise it lapses.
FilledOnTarget ==
  \A d \in Sessions : \A o \in rows[d].fills :
    /\ o.target = d /\ o.decided = rows[d].from
    /\ \E placed \in rows[o.decided].orders : placed.side = o.side /\ placed.target = d

\* No decided session leaves an order staged for a session that has gone by: what red days,
\* halts and missed runs left behind has been cancelled.
NothingStale == \A d \in Sessions : \A o \in rows[d].staged : o.target > d

\* The rebalance of a month is made by the first session of it the book decides cleanly,
\* however many before it were red, halted or broken, and by no other; a book that opens
\* parked makes none in its opening month.
RebalancedFirst ==
  \A d \in Sessions : rows[d].outcome = "COMPLETED" =>
    (rows[d].rebalanced <=>
       /\ \A e \in 1..(d - 1) : Month[e] = Month[d] => rows[e].outcome # "COMPLETED"
       /\ ~(OpensParked /\ Month[d] = Month[FirstSession]))

\* A red date is journaled once however often it is rerun.
SkipJournaledOnce == \A d \in Sessions : skips[d] <= 1

\* No session is decided over an earlier reconciliation break or an escalated corporate
\* action the owner has not resolved.
NothingDecidedOverTheUnresolved ==
  \A d \in Sessions, e \in Sessions : Moved(d) /\ e < d =>
    /\ rows[e].outcome = "RECON_BREAK" => BreakKey(e) \in resolved
    /\ \A s \in rows[e].seen : s.status = "ESCALATED" => s.action \in resolved

\* Once a reconciliation has broken no session completes until the switch is reset by hand,
\* though the run that found the break may have died before it recorded it.
BreakHalts ==
  [][\A d \in Sessions :
       rows'[d] # rows[d] /\ rows'[d].outcome = "COMPLETED" => ~broken]_vars

\* Each corporate action, under each of its terms, is acted on by one session only, on time,
\* late, corrected or escalated.
SeenOnce == \A d \in Sessions, e \in Sessions : d # e =>
  {s.action : s \in rows[d].seen} \cap {s.action : s \in rows[e].seen} = {}

\* An action of which a held name was credited or rescaled under other terms is never booked
\* again: the later terms are escalated.
CorrectionsEscalate ==
  \A d \in Sessions, e \in Sessions : \A s \in rows[d].seen, t \in rows[e].seen :
    e < d /\ s.action.id = t.action.id /\ t.held => s.status = "ESCALATED"

\* What a run books, it books alike on both sides, and a break once resolved is not found
\* again: every break is owed to a posting of its own that reached one side only.
NoBreakOfItsOwn ==
  Cardinality({d \in Sessions : rows[d].outcome = "RECON_BREAK"}) <= used.slips

\* The shares the last session decided before a date left the book with.
HeldEntering(date) == IF MovedBefore(date) = {} THEN 0 ELSE rows[Latest(date)].broker.shares

\* What a session applied of what it saw: the dividends, and the splits that go ex before a date.
Applied(seen, kind) ==
  {s \in seen : s.status = "BOOKED" /\ s.held /\ Kind[s.action.id] = kind}
SplitsBefore(seen, date) == {s \in Applied(seen, "rescale") : ExDate[s.action.id] < date}

\* A dividend that goes ex after the session the book was restored from is on time: the splits
\* before it that the same run booked count for it.
AfterSplits(shares, splits) == FoldSet(LAMBDA s, n : FloorRatio[n], shares, splits)
SharesEntitled(date, seen, from) ==
  IF date > from THEN AfterSplits(HeldEntering(date), SplitsBefore(seen, date))
  ELSE HeldEntering(date)
EntitledTo(seen, from) ==
  LET amount == [s \in Applied(seen, "dividend") |->
                   s.action.terms * SharesEntitled(ExDate[s.action.id], seen, from)]
  IN  MapThenSumSet(LAMBDA s : amount[s], Applied(seen, "dividend"))

\* The book has been credited for each dividend it booked, and for nothing else, on the shares it
\* held entering the ex-date, on time or late, whatever it traded since or had split since.
CreditedAsEntitled ==
  LET due == [e \in Sessions |-> EntitledTo(rows[e].seen, rows[e].from)]
  IN  \A d \in Sessions : Moved(d) /\ used.slips = 0 =>
        rows[d].broker.credits = MapThenSumSet(LAMBDA e : due[e], MovedBefore(d) \cup {d})

\* What is marked booked has been applied, or was not held (ActionStatus.BOOKED: "Applied to the
\* book -- or nothing to apply, because the book did not hold the name"): a session that filled
\* nothing and booked an action on a held name does not leave the book as it found it.
BookedIsApplied ==
  \A d \in Sessions : Moved(d) /\ rows[d].fills = {} /\ used.slips = 0 =>
    \A s \in rows[d].seen : s.status = "BOOKED" /\ s.held =>
      rows[d].broker # rows[rows[d].from].broker

\* A red day, a halt, a lost run, a break or an escalation never stops the book for good: the
\* last session owed is decided.
BookGoesOn == <>[]Moved(LastSession)
=============================================================================
