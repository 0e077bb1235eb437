------------------------- MODULE PaperSessionProofs -------------------------
(***************************************************************************)
(* What holds of the session ledger for every calendar, every stream of    *)
(* corporate actions and every number of runs.                             *)
(***************************************************************************)
EXTENDS PaperSession, FoldLemmas

\* The ledger has a row per session, and every run is for one of them.
Shape ==
  /\ rows = [d \in Sessions |-> rows[d]]
  /\ run = [r \in Runs |-> [phase |-> run[r].phase, session |-> run[r].session,
                            halted |-> run[r].halted, row |-> run[r].row]]
  /\ \A r \in Runs : /\ run[r].phase \in {"idle", "started", "writing"}
                     /\ run[r].phase # "idle" => run[r].session \in Sessions

\* A new book: an empty ledger and no run started.
LEMMA InitShape == Init => Shape
BY DEF Init, Shape, Idle

\* What a step of a run does to the runs: the others are left alone.
LEMMA RunChanged ==
  ASSUME Shape, NEW r \in Runs, NEW new,
         new = [phase |-> new.phase, session |-> new.session,
                halted |-> new.halted, row |-> new.row],
         run' = [run EXCEPT ![r] = new]
  PROVE  /\ run'[r] = new /\ \A q \in Runs : q # r => run'[q] = run[q]
         /\ run' = [q \in Runs |-> [phase |-> run'[q].phase, session |-> run'[q].session,
                                    halted |-> run'[q].halted, row |-> run'[q].row]]
<1>1. run' = [q \in Runs |-> IF q = r THEN new ELSE run[q]]
  BY DEF Shape
<1>2. \A q \in Runs : run[q] = [phase |-> run[q].phase, session |-> run[q].session,
                                halted |-> run[q].halted, row |-> run[q].row]
  BY DEF Shape
<1> QED BY <1>1, <1>2

\* Only Commit writes the ledger, and it writes one undecided row.
LEMMA LedgerChanged ==
  ASSUME [Next]_vars, rows' # rows
  PROVE  \E r \in Runs : Commit(r)
BY DEF Next, RunStep, vars, Start, Stop, Skip, Execute, Fail, Advance, Learn, TripByHand,
       Reset, Resolve, Use, Write

\* A run that has decided holds its outcome and keeps its session and its halt.
LEMMA RowWritten ==
  ASSUME NEW old, NEW row, NEW new,
         old = [phase |-> old.phase, session |-> old.session,
                halted |-> old.halted, row |-> old.row],
         new = [old EXCEPT !.phase = "writing", !.row = row]
  PROVE  new = [phase |-> "writing", session |-> old.session,
                halted |-> old.halted, row |-> row]
OBVIOUS

\* What a commit leaves in the ledger: the run's own row at its own undecided session.
LEMMA CommitLedger ==
  ASSUME Shape, NEW r \in Runs, Commit(r)
  PROVE  /\ run[r].phase = "writing" /\ run[r].session \in Sessions
         /\ \/ rows' = rows
            \/ ~Moved(run[r].session) /\ rows' = [rows EXCEPT ![run[r].session] = run[r].row]
         /\ \A d \in Sessions : rows'[d] = rows[d] \/ (d = run[r].session /\ ~Moved(d)
                                                        /\ rows'[d] = run[r].row)
         /\ rows' = [d \in Sessions |-> rows'[d]]
BY DEF Commit, Recordable, Shape

\* Every step of a run and of its surroundings keeps the shape of the ledger and of the runs.
LEMMA ShapeStep ==
  ASSUME Shape, [Next]_vars
  PROVE  Shape'
<1>1. rows' = [d \in Sessions |-> rows'[d]]
  <2>1. CASE rows' = rows
    BY <2>1 DEF Shape
  <2>2. CASE rows' # rows
    BY <2>2, LedgerChanged, CommitLedger
  <2> QED BY <2>1, <2>2
<1>2. CASE run' = run
  BY <1>1, <1>2 DEF Shape
<1>3. ASSUME NEW r \in Runs, NEW d \in Sessions, Start(r, d) PROVE Shape'
  <2> DEFINE new == [phase |-> "started", session |-> d, halted |-> switch, row |-> NoRow]
  <2>1. run' = [run EXCEPT ![r] = new]
    BY <1>3 DEF Start
  <2> HIDE DEF new
  <2>2. /\ new = [phase |-> new.phase, session |-> new.session,
                  halted |-> new.halted, row |-> new.row]
        /\ new.phase = "started" /\ new.session \in Sessions
    BY DEF new
  <2> QED BY <1>1, <2>1, <2>2, RunChanged DEF Shape
<1>4. ASSUME NEW r \in Runs, run' = [run EXCEPT ![r] = Idle] PROVE Shape'
  <2>1. /\ Idle = [phase |-> Idle.phase, session |-> Idle.session,
                   halted |-> Idle.halted, row |-> Idle.row]
        /\ Idle.phase = "idle"
    BY DEF Idle
  <2> QED BY <1>1, <1>4, <2>1, RunChanged DEF Shape
<1>5. ASSUME NEW r \in Runs, NEW row, run[r].phase = "started", Write(r, row)
      PROVE  Shape'
  <2>1. PICK new : new = [run[r] EXCEPT !.phase = "writing", !.row = row]
    OBVIOUS
  <2>2. run' = [run EXCEPT ![r] = new]
    BY <1>5, <2>1 DEF Write
  <2>3. run[r] = [phase |-> run[r].phase, session |-> run[r].session,
                  halted |-> run[r].halted, row |-> run[r].row]
    BY DEF Shape
  <2>4. new = [phase |-> "writing", session |-> run[r].session,
               halted |-> run[r].halted, row |-> row]
    BY <2>1, <2>3, RowWritten
  <2>5. run[r].session \in Sessions
    BY <1>5 DEF Shape
  <2> QED BY <1>1, <2>2, <2>4, <2>5, RunChanged DEF Shape
<1>6. ASSUME NEW r \in Runs, Skip(r) PROVE Shape'
  <2>1. CASE StillRed(run[r].session)
    BY <1>4, <1>6, <2>1 DEF Skip
  <2>2. CASE ~StillRed(run[r].session)
    <3>1. Write(r, SkippedRow)
      BY <1>6, <2>2 DEF Skip
    <3> QED BY <1>5, <1>6, <3>1 DEF Skip, MayDecide
  <2> QED BY <2>1, <2>2
<1>7. ASSUME NEW r \in Runs, Execute(r) PROVE Shape'
  <2>1. PICK row : Write(r, row)
    BY <1>7 DEF Execute
  <2> QED BY <1>5, <1>7, <2>1 DEF Execute, MayDecide
<1>8. ASSUME NEW r \in Runs, Stop(r) \/ Commit(r) \/ Fail(r) PROVE Shape'
  BY <1>4, <1>8 DEF Stop, Commit, Fail
<1>9. CASE Advance \/ TripByHand \/ Reset \/ (\E a \in Actions : Learn(a))
             \/ (\E key \in ToResolve : Resolve(key)) \/ UNCHANGED vars
  BY <1>2, <1>9 DEF Advance, TripByHand, Reset, Learn, Resolve, vars
<1> QED BY <1>3, <1>6, <1>7, <1>8, <1>9 DEF Next, RunStep

\* The ledger and the runs of paper_session.py keep their shape whatever the runs meet.
THEOREM ShapeAlways == Spec => []Shape
<1>1. Shape /\ [Next]_vars => Shape'
  BY ShapeStep
<1> QED BY <1>1, InitShape, PTL DEF Spec

\* A session once decided is never rewritten, however many runs overlap and whatever dates
\* they were given.
THEOREM DecidedRowsStand == Spec => DecidedStands
<1>1. Shape /\ [Next]_vars => [\A d \in Sessions : Moved(d) => rows'[d] = rows[d]]_vars
  <2> SUFFICES ASSUME Shape, [Next]_vars, NEW d \in Sessions, Moved(d)
               PROVE  rows'[d] = rows[d]
    OBVIOUS
  <2>1. CASE rows' = rows
    BY <2>1
  <2>2. CASE rows' # rows
    <3>1. PICK r \in Runs : Commit(r)
      BY <2>2, LedgerChanged
    <3> QED BY <3>1, CommitLedger
  <2> QED BY <2>1, <2>2
<1> QED BY <1>1, ShapeAlways, PTL DEF Spec, DecidedStands

-----------------------------------------------------------------------------
(* One run at a time, as the scheduler's lock has it *)

\* The run under way is alone; the row it is about to write continues the ledger, in which
\* nothing later is decided.
Chained ==
  /\ \A r, q \in Runs : run[r].phase # "idle" /\ run[q].phase # "idle" => r = q
  /\ \A r \in Runs : run[r].phase = "writing" =>
       /\ ~Refused(run[r].session)
       /\ run[r].row.from = Latest(run[r].session) \/ run[r].row = SkippedRow
  /\ DecisionsChain

\* Every outcome of a run starts from the latest session decided before it.
LEMMA OutcomeFrom ==
  ASSUME NEW d, NEW book, NEW fills, NEW row, row \in Outcomes(Left(book, fills, d), d)
  PROVE  row.from = Latest(d)
<1> DEFINE left == Left(book, fills, d)
           rebalance == RebalanceDue(d)
           carried == Latest(d) > 0 /\ rows[Latest(d)].pending
<1>1. left.from = Latest(d)
  BY DEF Left
<1>2. CASE row = BrokenRow(left, carried, rebalance)
  <2>1. BrokenRow(left, carried, rebalance).from = left.from
    BY DEF BrokenRow, Left
  <2> QED BY <1>1, <1>2, <2>1
<1>3. ASSUME NEW decision, row = DecidedRow(left, decision, rebalance)
      PROVE  row.from = Latest(d)
  <2>1. DecidedRow(left, decision, rebalance).from = left.from
    BY DEF DecidedRow, Left
  <2> QED BY <1>1, <1>3, <2>1
<1> QED BY <1>2, <1>3 DEF Outcomes

\* A run that writes nothing yet leaves the ledger as it was.
LEMMA SameLedger ==
  ASSUME rows' = rows
  PROVE  /\ \A d : Latest(d)' = Latest(d) /\ (Refused(d)' <=> Refused(d))
         /\ DecisionsChain' <=> DecisionsChain
BY DEF Latest, MovedBefore, Moved, Refused, DecisionsChain

\* Appending to the ledger changes nothing before what it appends.
LEMMA AppendLedger ==
  ASSUME Shape, NEW d \in Sessions, NEW row, ~Moved(d), ~Refused(d), DecisionsChain,
         rows' = [rows EXCEPT ![d] = row],
         row.from = Latest(d) \/ row = SkippedRow
  PROVE  DecisionsChain'
<1>1. \A e \in Sessions : rows'[e] = IF e = d THEN row ELSE rows[e]
  BY DEF Shape
<1>2. \A e \in Sessions : e # d => (Moved(e)' <=> Moved(e))
  BY <1>1 DEF Moved
<1>3. ASSUME NEW e \in Sessions, Moved(e)' PROVE e = d \/ e < d
  BY <1>2, <1>3 DEF Refused, Sessions
<1>4. \A e \in Sessions : e <= d => MovedBefore(e)' = MovedBefore(e)
  BY <1>2 DEF MovedBefore, Sessions
<1>5. \A e \in Sessions : e <= d => Latest(e)' = Latest(e)
  BY <1>4 DEF Latest
<1>6. row = SkippedRow => ~Moved(d)'
  BY <1>1 DEF Moved, SkippedRow, NoRow
<1>7. ASSUME NEW e \in Sessions, Moved(e)' PROVE rows'[e].from = Latest(e)'
  <2>1. CASE e = d
    BY <1>1, <1>5, <1>6, <1>7, <2>1 DEF Sessions
  <2>2. CASE e # d
    BY <1>1, <1>2, <1>3, <1>5, <1>7, <2>2 DEF DecisionsChain, Sessions
  <2> QED BY <2>1, <2>2
<1> QED BY <1>7 DEF DecisionsChain

\* A run of which the ledger is told nothing: the others stand, and it writes a row that
\* continues the ledger, if any.
LEMMA RunOnly ==
  ASSUME Shape, Chained, rows' = rows, NEW r \in Runs,
         \A q \in Runs : q # r => run'[q] = run[q],
         run'[r].phase # "idle" => \A q \in Runs : q # r => run[q].phase = "idle",
         run'[r].phase = "writing" =>
           /\ ~Refused(run'[r].session)
           /\ run'[r].row.from = Latest(run'[r].session) \/ run'[r].row = SkippedRow
  PROVE  Chained'
<1>1. DecisionsChain'
  BY SameLedger DEF Chained
<1>2. ASSUME NEW q \in Runs, run'[q].phase = "writing"
      PROVE  (/\ ~Refused(run[q].session)
              /\ run[q].row.from = Latest(run[q].session) \/ run[q].row = SkippedRow)'
  BY <1>2 DEF Chained, Latest, MovedBefore, Moved, Refused
<1>3. \A p, q \in Runs : run'[p].phase # "idle" /\ run'[q].phase # "idle" => p = q
  BY DEF Chained
<1> QED BY <1>1, <1>2, <1>3 DEF Chained

\* One run at a time: a step leaves the ledger a chain, and what the run will write continues it.
LEMMA ChainedStep ==
  ASSUME ~Concurrent, Shape, Chained, [Next]_vars
  PROVE  Chained'
<1>1. CASE rows' = rows /\ run' = run
  BY <1>1, SameLedger DEF Chained
<1>2. ASSUME NEW r \in Runs, run' = [run EXCEPT ![r] = Idle], rows' = rows PROVE Chained'
  <2>1. run'[r].phase = "idle" /\ \A q \in Runs : q # r => run'[q] = run[q]
    BY <1>2 DEF Shape, Idle
  <2> QED BY <1>2, <2>1, RunOnly
<1>3. ASSUME NEW r \in Runs, NEW row, run[r].phase = "started", Write(r, row), rows' = rows,
             ~Refused(run[r].session),
             row.from = Latest(run[r].session) \/ row = SkippedRow
      PROVE  Chained'
  <2>1. PICK new : new = [run[r] EXCEPT !.phase = "writing", !.row = row]
    OBVIOUS
  <2>2. new = [phase |-> "writing", session |-> run[r].session,
               halted |-> run[r].halted, row |-> row]
    BY <2>1, RowWritten DEF Shape
  <2>3. run'[r] = new /\ \A q \in Runs : q # r => run'[q] = run[q]
    BY <1>3, <2>1 DEF Write, Shape
  <2>4. \A q \in Runs : q # r => run[q].phase = "idle"
    BY <1>3 DEF Chained
  <2>5. run'[r].session = run[r].session /\ run'[r].row = row
    BY <2>2, <2>3
  <2> QED BY <1>3, <2>3, <2>4, <2>5, RunOnly
<1>4. ASSUME NEW r \in Runs, NEW d \in Sessions, Start(r, d) PROVE Chained'
  <2>1. /\ run'[r].phase = "started" /\ \A q \in Runs : q # r => run'[q] = run[q]
        /\ \A q \in Runs : run[q].phase = "idle"
        /\ rows' = rows
    BY <1>4 DEF Start, Shape
  <2> QED BY <2>1, RunOnly
<1>5. ASSUME NEW r \in Runs, Skip(r) PROVE Chained'
  BY <1>2, <1>3, <1>5 DEF Skip, MayDecide
<1>6. ASSUME NEW r \in Runs, Execute(r) PROVE Chained'
  <2>1. /\ run[r].phase = "started" /\ ~Refused(run[r].session) /\ rows' = rows
        /\ \E book, fills : \E row \in Outcomes(Left(book, fills, run[r].session),
                                                 run[r].session) : Write(r, row)
    BY <1>6 DEF Execute, MayDecide
  <2>2. PICK row : Write(r, row) /\ row.from = Latest(run[r].session)
    BY <2>1, OutcomeFrom
  <2> QED BY <1>3, <2>1, <2>2
<1>7. ASSUME NEW r \in Runs, Commit(r) PROVE Chained'
  <2>1. CASE rows' = rows
    BY <1>2, <1>7, <2>1 DEF Commit
  <2>2. CASE rows' # rows
    <3>1. /\ run[r].phase = "writing" /\ run[r].session \in Sessions /\ ~Moved(run[r].session)
          /\ rows' = [rows EXCEPT ![run[r].session] = run[r].row]
          /\ \A d \in Sessions : rows'[d] = rows[d] \/ (d = run[r].session /\ rows'[d] = run[r].row)
      BY <1>7, <2>2, CommitLedger
    <3>2. \A q \in Runs : run'[q].phase = "idle"
      BY <1>7, <3>1 DEF Commit, Chained, Shape, Idle
    <3>3. DecisionsChain'
      BY <3>1, AppendLedger DEF Chained
    <3> QED BY <3>2, <3>3 DEF Chained
  <2> QED BY <2>1, <2>2
<1>8. ASSUME NEW r \in Runs, Stop(r) \/ Fail(r) PROVE Chained'
  BY <1>2, <1>8 DEF Stop, Fail
<1>9. CASE Advance \/ TripByHand \/ Reset \/ (\E a \in Actions : Learn(a))
             \/ (\E key \in ToResolve : Resolve(key)) \/ UNCHANGED vars
  BY <1>1, <1>9 DEF Advance, TripByHand, Reset, Learn, Resolve, vars
<1> QED BY <1>4, <1>5, <1>6, <1>7, <1>8, <1>9 DEF Next, RunStep

\* Where the scheduler's lock keeps runs apart, the ledger of a book is one chain: each
\* decided session starts from the latest decided before it, whatever dates, crashes,
\* red days, halts and corrections come between.
THEOREM ChainAlone ==
  ASSUME ~Concurrent
  PROVE  Spec => []DecisionsChain
<1>1. Init => Chained
  BY DEF Init, Chained, Idle, DecisionsChain, Moved, NoRow
<1>2. Shape /\ Chained /\ [Next]_vars => Chained'
  BY ChainedStep
<1>3. Chained => DecisionsChain
  BY DEF Chained
<1> QED BY <1>1, <1>2, <1>3, ShapeAlways, PTL DEF Spec

-----------------------------------------------------------------------------
(* One session, from the ledger before it to the row it writes *)

\* The four keys of an action's place are integers.
LEMMA PlaceIs ==
  ASSUME NEW d, NEW a \in Actions
  PROVE  /\ Place(a, d) = <<Turn(a, d), ExDate[a.id], KindOrder[Kind[a.id]], a.terms>>
         /\ Turn(a, d) \in Int /\ ExDate[a.id] \in Int /\ KindOrder[Kind[a.id]] \in Int
         /\ a.terms \in Int
<1>1. a.id \in Ids /\ a.terms \in Terms
  BY DEF Actions
<1>2. ExDate[a.id] \in Int
  BY <1>1, IdsAssumption DEF Sessions
<1>3. a.terms \in Int
  <2>1. \A t \in Terms : t \in Int
    BY TermsAssumption
  <2> QED BY <1>1, <2>1
<1>4. KindOrder[Kind[a.id]] \in Int
  BY <1>1, KindAssumption DEF KindOrder
<1>5. Turn(a, d) \in Int
  BY DEF Turn
<1> QED BY <1>2, <1>3, <1>4, <1>5 DEF Place

\* Of a finite collection of actions one comes last.
LEMMA LastExists ==
  ASSUME NEW d, NEW S, IsFiniteSet(S), S # {}, S \subseteq Actions
  PROVE  LastOf(S, d) \in S /\ \A b \in S : ~Before(LastOf(S, d), b, d)
<1> DEFINE R == {p \in Actions \X Actions : Before(p[1], p[2], d)}
<1>1. ASSUME NEW a \in Actions PROVE Place(a, d) \in [1..4 -> Int]
  BY PlaceIs
<1>2. ASSUME NEW a \in Actions, NEW b \in Actions, NEW e \in Actions,
             Before(a, b, d), Before(b, e, d)
      PROVE  Before(a, e, d)
  <2>1. PICK i \in 1..4 : /\ Place(a, d)[i] < Place(b, d)[i]
                          /\ \A j \in 1..(i - 1) : Place(a, d)[j] = Place(b, d)[j]
    BY <1>2 DEF Before
  <2>2. PICK k \in 1..4 : /\ Place(b, d)[k] < Place(e, d)[k]
                          /\ \A j \in 1..(k - 1) : Place(b, d)[j] = Place(e, d)[j]
    BY <1>2 DEF Before
  <2>3. Place(a, d) \in [1..4 -> Int] /\ Place(b, d) \in [1..4 -> Int]
        /\ Place(e, d) \in [1..4 -> Int]
    BY <1>1
  <2>4. PICK m \in 1..4 : m = IF i < k THEN i ELSE k
    OBVIOUS
  <2>5. /\ Place(a, d)[m] < Place(e, d)[m]
        /\ \A j \in 1..(m - 1) : Place(a, d)[j] = Place(e, d)[j]
    BY <2>1, <2>2, <2>3, <2>4
  <2> QED BY <2>5 DEF Before
<1>3. ASSUME NEW a \in Actions PROVE ~Before(a, a, d)
  BY <1>1 DEF Before
<1>4. PICK a \in S : \A b \in S : <<a, b>> \notin R
  <2>1. \A a \in S : <<a, a>> \notin R
    BY <1>3
  <2>2. \A a, b, e \in S : <<a, b>> \in R /\ <<b, e>> \in R => <<a, e>> \in R
    BY <1>2
  <2> HIDE DEF R
  <2> QED BY <2>1, <2>2, LastInOrder
<1>5. \A b \in S : ~Before(a, b, d)
  BY <1>4
<1> QED BY <1>5 DEF LastOf

\* it books the actions of each subset of S onto a book: one of them, before none of the others,
\* onto what the others made of it.
Booking(it, book, S, d) ==
  /\ it[{}] = book /\ Booked(book, d) = it[S]
  /\ \A s \in SUBSET S : s # {} =>
       /\ LastOf(s, d) \in s /\ \A b \in s : ~Before(LastOf(s, d), b, d)
       /\ it[s] = BookOne(it[s \ {LastOf(s, d)}], LastOf(s, d), d)

\* The corporate actions of a session are booked so, one onto the other.
LEMMA BookedUnfolds ==
  ASSUME NEW d, NEW A, NEW book \in A, IsFiniteSet(known), known \subseteq Actions,
         NEW S, S = Changed(d) \cup Fresh(d),
         \A a \in S, b \in A : BookOne(b, a, d) \in A
  PROVE  /\ IsFiniteSet(S) /\ S \subseteq Actions
         /\ \E it \in [SUBSET S -> A] : Booking(it, book, S, d)
<1> DEFINE iter == CHOOSE it : it = [s \in SUBSET S |->
                     IF s = {} THEN book
                     ELSE LET x == LastOf(s, d) IN BookOne(it[s \ {x}], x, d)]
           c == [s \in SUBSET S |-> LastOf(s, d)]
           G == [p \in S \X A |-> BookOne(p[2], p[1], d)]
<1>1. IsFiniteSet(S) /\ S \subseteq Actions
  <2>1. S \in SUBSET known
    BY DEF Changed, Fresh, Known
  <2> QED BY <2>1, FS_Subset
<1>2. Booked(book, d) = iter[S]
  BY DEF Booked, MapThenFoldSet
<1>3. \A s \in SUBSET S : s # {} =>
        LastOf(s, d) \in s /\ \A b \in s : ~Before(LastOf(s, d), b, d)
  BY <1>1, FS_Subset, LastExists
<1>4. PICK f \in [SUBSET S -> A] :
        f = [s \in SUBSET S |-> IF s = {} THEN book
               ELSE LET x == LastOf(s, d) IN BookOne(f[s \ {x}], x, d)]
  <2>1. G \in [S \X A -> A]
    OBVIOUS
  <2>2. \A s \in SUBSET S : s # {} => c[s] \in s
    BY <1>3
  <2>3. PICK f \in [SUBSET S -> A] : Folding(f, S, book, c, G)
    <3> HIDE DEF G, c, iter
    <3> QED BY <1>1, <2>1, <2>2, FoldExists
  <2>4. \A s \in SUBSET S : f[s] = IF s = {} THEN book
               ELSE LET x == LastOf(s, d) IN BookOne(f[s \ {x}], x, d)
    <3> SUFFICES ASSUME NEW s \in SUBSET S, s # {}
                 PROVE  f[s] = BookOne(f[s \ {LastOf(s, d)}], LastOf(s, d), d)
      BY <2>3 DEF Folding
    <3>1. LastOf(s, d) \in S /\ s \ {LastOf(s, d)} \in SUBSET S
      BY <1>3
    <3>2. f[s \ {LastOf(s, d)}] \in A
      BY <2>3, <3>1
    <3> QED BY <2>3, <3>1, <3>2 DEF Folding
  <2>5. f = [s \in SUBSET S |-> IF s = {} THEN book
               ELSE LET x == LastOf(s, d) IN BookOne(f[s \ {x}], x, d)]
    BY <2>3, <2>4
  <2> QED BY <2>5
<1>5. iter = [s \in SUBSET S |-> IF s = {} THEN book
               ELSE LET x == LastOf(s, d) IN BookOne(iter[s \ {x}], x, d)]
  BY <1>4
<1>6. iter[{}] = book
  BY <1>5
<1>7. ASSUME NEW s \in SUBSET S, s # {}
      PROVE  iter[s] = BookOne(iter[s \ {LastOf(s, d)}], LastOf(s, d), d)
  <2> HIDE DEF iter
  <2> QED BY <1>5, <1>7
<1>8. \A s \in SUBSET S : iter[s] \in A
  <2>1. ASSUME NEW s \in SUBSET S, s # {}
        PROVE  c[s] \in s /\ (iter[s \ {c[s]}] \in A => iter[s] \in A)
    <3>1. c[s] = LastOf(s, d) /\ c[s] \in s /\ c[s] \in S
      BY <1>3, <2>1
    <3>2. iter[s] = BookOne(iter[s \ {c[s]}], c[s], d)
      <4> HIDE DEF iter, c
      <4> QED BY <1>7, <2>1, <3>1
    <3> HIDE DEF iter, c
    <3> QED BY <3>1, <3>2
  <2>2. iter[{}] \in A
    <3> HIDE DEF iter
    <3> QED BY <1>6
  <2> HIDE DEF iter, c
  <2> QED BY <1>1, <2>1, <2>2, FoldInvariant
<1>9. iter \in [SUBSET S -> A]
  <2> HIDE DEF iter
  <2>1. iter = [s \in SUBSET S |-> iter[s]]
    BY <1>5
  <2> QED BY <1>8, <2>1
<1> HIDE DEF iter
<1> QED BY <1>1, <1>2, <1>3, <1>6, <1>7, <1>9 DEF Booking

\* A fold of corporate actions onto a book leaves it in any set each of them leaves it in.
LEMMA BookedIn ==
  ASSUME NEW d, NEW A, NEW book \in A, IsFiniteSet(known), known \subseteq Actions,
         \A a \in Changed(d) \cup Fresh(d), b \in A : BookOne(b, a, d) \in A
  PROVE  Booked(book, d) \in A
<1>1. PICK S : S = Changed(d) \cup Fresh(d)
  OBVIOUS
<1>2. \A a \in S, b \in A : BookOne(b, a, d) \in A
  BY <1>1
<1>3. PICK it \in [SUBSET S -> A] : Booking(it, book, S, d)
  BY <1>1, <1>2, BookedUnfolds
<1> QED BY <1>3 DEF Booking

\* What the ledger's rows and the books under way are made of.
Orders == [decided : Sessions, target : Nat, side : {"BUY", "SELL"}, quantity : Int]
Sides == [shares : Int, credits : Int]
Sightings == [action : Actions, held : BOOLEAN, status : {"BOOKED", "ESCALATED"}]
Books == [broker : Sides, expected : Sides, staged : SUBSET Orders, seen : SUBSET Sightings]
Rows == [outcome : {"NONE", "SKIPPED_DATA_RED", "COMPLETED", "RECON_BREAK"},
         rebalanced : BOOLEAN, pending : BOOLEAN, orders : SUBSET Orders,
         staged : SUBSET Orders, fills : SUBSET Orders, seen : SUBSET Sightings,
         broker : Sides, expected : Sides, from : Nat]

\* A row a session may leave: a skip carries nothing, a break stages nothing and is no rebalance.
Recorded(row) ==
  /\ row \in Rows /\ IsFiniteSet(row.staged)
  /\ row.outcome = "NONE" => row = NoRow
  /\ row.outcome = "SKIPPED_DATA_RED" => row = SkippedRow
  /\ row.outcome = "RECON_BREAK" => row.orders = {} /\ ~row.rebalanced

Typed ==
  /\ today \in Sessions /\ switch \in BOOLEAN /\ broken \in BOOLEAN
  /\ known \subseteq Actions /\ IsFiniteSet(known)
  /\ skips \in [Sessions -> Nat] /\ used \in [{"reds", "trips", "slips", "fails"} -> Nat]
  /\ \A d \in Sessions : Recorded(rows[d])
  /\ \A r \in Runs : run[r].phase = "writing" =>
       Recorded(run[r].row) /\ run[r].row.outcome # "NONE"

\* What the row of a session owes to the ledger before it: the rows of earlier sessions alone.
Fits(row, d) ==
  /\ row.outcome \in {"COMPLETED", "RECON_BREAK"} /\ row.from = Latest(d)
  /\ row.outcome = "COMPLETED" =>
       row.broker = row.expected /\ (row.rebalanced <=> RebalanceDue(d))
  /\ row.staged \subseteq row.orders
  /\ \A o \in row.orders : o.decided = d /\ o.target = d + 1
  /\ \A o \in row.fills : /\ o.target = d /\ o.decided = Latest(d)
                          /\ \E placed \in rows[Latest(d)].orders :
                               placed.side = o.side /\ placed.target = d
  /\ \A s \in row.seen : \A t \in Seen(d) :
       /\ s.action # t.action
       /\ s.action.id = t.action.id /\ t.held => s.status = "ESCALATED"
  /\ Unresolved(d) = {}

\* A decided row of the ledger, or the one a run is about to decide it by.
Entry(d, row) ==
  \/ Moved(d) /\ rows[d] = row
  \/ \E r \in Runs : /\ run[r].phase = "writing" /\ run[r].session = d /\ run[r].row = row
                     /\ row # SkippedRow

Fitting == \A d \in Sessions, row \in Rows : Entry(d, row) => Fits(row, d)

\* A break holds everything that might complete: the switch, the runs started since and, but for
\* one that had decided before, the run under way.
Halting ==
  /\ broken => switch
  /\ \A r \in Runs : broken /\ run[r].phase = "started" => run[r].halted
  /\ \A r \in Runs : run[r].phase = "writing" /\ run[r].row.outcome = "COMPLETED" => ~broken

\* A session is journaled as red once; its row says so since.
Journaled ==
  /\ \A d \in Sessions : skips[d] <= 1 /\ (skips[d] = 1 => rows[d].outcome # "NONE")
  /\ \A r \in Runs : run[r].phase = "writing" /\ run[r].row = SkippedRow =>
       rows[run[r].session].outcome # "SKIPPED_DATA_RED"

\* Each break recorded, and the one a run is about to record, was a slip.
BrokenRows == {d \in Sessions : rows[d].outcome = "RECON_BREAK"}
Slipped ==
  /\ Cardinality(BrokenRows) <= used["slips"]
  /\ \A r \in Runs : run[r].phase = "writing" /\ run[r].row.outcome = "RECON_BREAK" =>
       Cardinality(BrokenRows) + 1 <= used["slips"]

\* What a book becomes as corporate actions are booked onto it: both sides alike, the same orders
\* staged for the same sessions, and nothing noted that was seen before unless it is escalated.
From(book, d) ==
  {b \in Books :
     /\ IsFiniteSet(b.staged)
     /\ book.broker = book.expected => b.broker = b.expected
     /\ \A o \in b.staged : \E p \in book.staged :
          o.decided = p.decided /\ o.target = p.target /\ o.side = p.side
     /\ \A s \in b.seen : /\ s.action \in Changed(d) \cup Fresh(d)
                          /\ \A t \in OfIdentity(s.action, d) : t.held => s.status = "ESCALATED"}

Ledger == \A d \in Sessions : Recorded(rows[d])

\* latest_completed is a decided session before this one, and none is later; or there is none.
LEMMA LatestIs ==
  ASSUME NEW d
  PROVE  /\ Latest(d) = 0 \/ Latest(d) \in MovedBefore(d)
         /\ Latest(d) \in Nat /\ \A e \in MovedBefore(d) : e <= Latest(d)
<1> DEFINE S == MovedBefore(d) \cup {0}
<1>1. S \subseteq 0..LastSession /\ 0..LastSession \subseteq Nat /\ LastSession \in Int
  BY SessionsAssumption DEF MovedBefore, Sessions
<1>2. IsFiniteSet(S)
  <2>1. IsFiniteSet(0..LastSession)
    BY <1>1, FS_Interval
  <2>2. S \in SUBSET (0..LastSession)
    BY <1>1
  <2> HIDE DEF S
  <2> QED BY <2>1, <2>2, FS_Subset
<1>3. S \subseteq Int /\ S # {}
  BY <1>1
<1>4. Max(S) \in S /\ \A n \in S : n <= Max(S)
  <2> HIDE DEF S
  <2> QED BY <1>2, <1>3, MaxIs
<1>5. Latest(d) = Max(S)
  BY DEF Latest
<1> QED BY <1>1, <1>4, <1>5

\* What was held entering an ex-date is a count.
LEMMA EntitledType ==
  ASSUME Ledger, NEW a
  PROVE  Entitled(a) \in Int
<1> DEFINE last == Latest(ExDate[a.id])
<1>1. last = 0 \/ last \in Sessions
  BY LatestIs DEF MovedBefore
<1>2. CASE last = 0
  BY <1>2 DEF Entitled
<1>3. CASE last # 0
  <2>1. rows[last] \in Rows
    BY <1>1, <1>3 DEF Ledger, Recorded
  <2>2. rows[last].broker \in Sides
    BY <2>1 DEF Rows
  <2>3. rows[last].broker.shares \in Int
    BY <2>2 DEF Sides
  <2> QED BY <1>3, <2>3 DEF Entitled
<1> QED BY <1>2, <1>3

\* A book is its two sides, its orders and its sightings, and a side two counts.
LEMMA BookIs ==
  ASSUME NEW b \in Books
  PROVE  /\ b = [broker |-> b.broker, expected |-> b.expected,
                 staged |-> b.staged, seen |-> b.seen]
         /\ b.broker = [shares |-> b.broker.shares, credits |-> b.broker.credits]
         /\ b.expected = [shares |-> b.expected.shares, credits |-> b.expected.credits]
         /\ b.broker.shares \in Int /\ b.broker.credits \in Int
         /\ b.expected.shares \in Int /\ b.expected.credits \in Int
<1>1. b.broker \in Sides /\ b.expected \in Sides
  BY DEF Books
<1>2. b = [broker |-> b.broker, expected |-> b.expected, staged |-> b.staged, seen |-> b.seen]
  BY DEF Books
<1> QED BY <1>1, <1>2 DEF Sides

\* The three ways a book changes, field by field.
LEMMA NotedIs ==
  ASSUME NEW b, NEW a, NEW held, NEW status,
         b = [broker |-> b.broker, expected |-> b.expected, staged |-> b.staged, seen |-> b.seen]
  PROVE  Noted(b, a, held, status) =
           [broker |-> b.broker, expected |-> b.expected, staged |-> b.staged,
            seen |-> b.seen \cup {[action |-> a, held |-> held, status |-> status]}]
BY DEF Noted, SeenAs

\* What a credit makes of a book, field by field.
LEMMA CreditedIs ==
  ASSUME NEW b, NEW amount,
         b = [broker |-> b.broker, expected |-> b.expected, staged |-> b.staged, seen |-> b.seen],
         b.broker = [shares |-> b.broker.shares, credits |-> b.broker.credits],
         b.expected = [shares |-> b.expected.shares, credits |-> b.expected.credits]
  PROVE  Credited(b, amount) =
           [broker |-> [shares |-> b.broker.shares, credits |-> b.broker.credits + amount],
            expected |-> [shares |-> b.expected.shares, credits |-> b.expected.credits + amount],
            staged |-> b.staged, seen |-> b.seen]
<1>1. Credited(b, amount) =
        [broker |-> Paid(b.broker, amount), expected |-> Paid(b.expected, amount),
         staged |-> b.staged, seen |-> b.seen]
  <2>1. PICK x, y : x = Paid(b.broker, amount) /\ y = Paid(b.expected, amount)
    OBVIOUS
  <2>2. Credited(b, amount) = [b EXCEPT !.broker = x, !.expected = y]
    BY <2>1 DEF Credited
  <2> QED BY <2>1, <2>2
<1>2. \A x, y : Paid([shares |-> x, credits |-> y], amount) =
                  [shares |-> x, credits |-> y + amount]
  BY DEF Paid
<1> QED BY <1>1, <1>2

\* A count rescaled is a count, by the one floor and by the other, and none below none.
LEMMA FloorRatioIs ==
  ASSUME NEW n \in Int
  PROVE  /\ FloorRatio[n] \in Int /\ FloorRatio[n] = (n * Ratio[1]) \div Ratio[2]
         /\ n \in Nat => FloorRatio[n] \in Nat
<1>1. Ratio[1] \in Nat /\ Ratio[2] \in Nat \ {0}
  BY RatioAssumption
<1>2. \A k \in Int, m \in Nat \ {0} : k \div m \in Int /\ (k \in Nat => k \div m \in Nat)
  OBVIOUS
<1>3. n * Ratio[1] \in Int /\ (n \in Nat => n * Ratio[1] \in Nat)
  BY <1>1
<1>4. FloorRatio[n] = (n * Ratio[1]) \div Ratio[2]
  BY DEF FloorRatio
<1> QED BY <1>1, <1>2, <1>3, <1>4

\* The staged orders of a book rescaled.
Restaged(b) == {[o EXCEPT !.quantity = FloorRatio[@]] :
                  o \in {o \in b.staged : FloorRatio[o.quantity] > 0}}

\* And a rescale.
LEMMA RescaledIs ==
  ASSUME NEW b \in Books
  PROVE  Rescaled(b) =
           [broker |-> [shares |-> FloorRatio[b.broker.shares], credits |-> b.broker.credits],
            expected |-> [shares |-> FloorRatio[b.expected.shares],
                          credits |-> b.expected.credits],
            staged |-> Restaged(b), seen |-> b.seen]
<1>1. PICK m : m = ApplyShareRescale(b)
  OBVIOUS
<1>2. m = [b EXCEPT !.broker.shares = FloorRatio[@], !.staged = Restaged(b)]
  BY <1>1 DEF ApplyShareRescale, Restaged
<1>3. /\ b = [broker |-> b.broker, expected |-> b.expected, staged |-> b.staged, seen |-> b.seen]
      /\ b.broker = [shares |-> b.broker.shares, credits |-> b.broker.credits]
      /\ b.expected = [shares |-> b.expected.shares, credits |-> b.expected.credits]
      /\ b.expected.shares \in Int
  BY BookIs
<1>4. m = [broker |-> [shares |-> FloorRatio[b.broker.shares], credits |-> b.broker.credits],
           expected |-> b.expected, staged |-> Restaged(b), seen |-> b.seen]
  BY <1>2, <1>3
<1>5. Rescaled(b) = [m EXCEPT !.expected.shares = (@ * Ratio[1]) \div Ratio[2]]
  BY <1>1 DEF Rescaled, RescaleBook
<1>6. (b.expected.shares * Ratio[1]) \div Ratio[2] = FloorRatio[b.expected.shares]
  BY <1>3, FloorRatioIs
<1> QED BY <1>3, <1>4, <1>5, <1>6

\* Noting an action.
LEMMA NotedFrom ==
  ASSUME NEW d, NEW book, NEW b \in From(book, d), NEW a \in Changed(d) \cup Fresh(d),
         a \in Actions, NEW held \in BOOLEAN, NEW status \in {"BOOKED", "ESCALATED"},
         \A t \in OfIdentity(a, d) : t.held => status = "ESCALATED"
  PROVE  Noted(b, a, held, status) \in From(book, d)
<1> DEFINE s == [action |-> a, held |-> held, status |-> status]
<1>1. b \in Books
  BY DEF From
<1>2. Noted(b, a, held, status) = [broker |-> b.broker, expected |-> b.expected,
                                   staged |-> b.staged, seen |-> b.seen \cup {s}]
  <2>1. b = [broker |-> b.broker, expected |-> b.expected,
             staged |-> b.staged, seen |-> b.seen]
    BY <1>1, BookIs
  <2> QED BY <2>1, NotedIs
<1>3. s \in Sightings
  BY DEF Sightings
<1>4. Noted(b, a, held, status) \in Books
  BY <1>1, <1>2, <1>3 DEF Books
<1> QED BY <1>2, <1>4 DEF From

\* Crediting both sides.
LEMMA CreditedFrom ==
  ASSUME NEW d, NEW book, NEW b \in From(book, d), NEW amount \in Int
  PROVE  Credited(b, amount) \in From(book, d)
<1>1. b \in Books /\ b.broker \in Sides /\ b.expected \in Sides
  BY DEF From, Books
<1>2. Credited(b, amount) =
        [broker |-> [shares |-> b.broker.shares, credits |-> b.broker.credits + amount],
         expected |-> [shares |-> b.expected.shares, credits |-> b.expected.credits + amount],
         staged |-> b.staged, seen |-> b.seen]
  BY <1>1, BookIs, CreditedIs
<1>3. Credited(b, amount) \in Books
  BY <1>1, <1>2 DEF Books, Sides
<1> QED BY <1>2, <1>3 DEF From

\* Rescaling both sides and the staged orders.
LEMMA RescaledFrom ==
  ASSUME NEW d, NEW book, NEW b \in From(book, d)
  PROVE  Rescaled(b) \in From(book, d)
<1> DEFINE some == {o \in b.staged : FloorRatio[o.quantity] > 0}
           rescale == [o \in some |-> [o EXCEPT !.quantity = FloorRatio[@]]]
<1>1. b \in Books /\ b.broker \in Sides /\ b.expected \in Sides /\ b.staged \subseteq Orders
  BY DEF From, Books
<1>2. Rescaled(b) =
        [broker |-> [shares |-> FloorRatio[b.broker.shares], credits |-> b.broker.credits],
         expected |-> [shares |-> FloorRatio[b.expected.shares], credits |-> b.expected.credits],
         staged |-> Restaged(b), seen |-> b.seen]
  BY <1>1, RescaledIs
<1>3. \A o \in Orders : /\ [o EXCEPT !.quantity = FloorRatio[@]] \in Orders
                        /\ [o EXCEPT !.quantity = FloorRatio[@]].decided = o.decided
                        /\ [o EXCEPT !.quantity = FloorRatio[@]].target = o.target
                        /\ [o EXCEPT !.quantity = FloorRatio[@]].side = o.side
  <2> TAKE o \in Orders
  <2>1. FloorRatio[o.quantity] \in Int
    BY FloorRatioIs DEF Orders
  <2> QED BY <2>1 DEF Orders
<1>4. Rescaled(b) \in Books
  <2>1. Restaged(b) \subseteq Orders
    BY <1>1, <1>3 DEF Restaged
  <2>2. FloorRatio[b.broker.shares] \in Int /\ FloorRatio[b.expected.shares] \in Int
    BY <1>1, FloorRatioIs DEF Sides
  <2> QED BY <1>1, <1>2, <2>1, <2>2 DEF Books, Sides
<1>5. IsFiniteSet(Restaged(b))
  <2>1. rescale \in Surjection(some, Restaged(b))
    BY DEF Surjection, Restaged
  <2>2. IsFiniteSet(some)
    <3>1. IsFiniteSet(b.staged) /\ some \in SUBSET b.staged
      BY DEF From
    <3> HIDE DEF some
    <3> QED BY <3>1, FS_Subset
  <2> HIDE DEF some, rescale
  <2> QED BY <2>1, <2>2, FS_Surjection
<1>6. ASSUME NEW o \in Restaged(b)
      PROVE  \E p \in book.staged :
               o.decided = p.decided /\ o.target = p.target /\ o.side = p.side
  <2>1. PICK q \in b.staged : o = [q EXCEPT !.quantity = FloorRatio[@]]
    BY DEF Restaged
  <2>2. o.decided = q.decided /\ o.target = q.target /\ o.side = q.side
    BY <1>1, <1>3, <2>1
  <2> QED BY <2>2 DEF From
<1>7. b.broker = b.expected => Rescaled(b).broker = Rescaled(b).expected
  BY <1>2
<1>8. Rescaled(b).staged = Restaged(b) /\ Rescaled(b).seen = b.seen
  BY <1>2
<1> QED BY <1>4, <1>5, <1>6, <1>7, <1>8 DEF From

\* One corporate action, corrected, late or on time.
LEMMA BookOneFrom ==
  ASSUME Ledger, NEW d, NEW book, NEW b \in From(book, d), NEW a \in Changed(d) \cup Fresh(d),
         a \in Actions
  PROVE  BookOne(b, a, d) \in From(book, d)
<1>1. /\ a.id \in Ids /\ a.terms \in Int /\ Entitled(a) \in Int
      /\ b.broker.shares \in Int /\ b.expected.shares \in Int
  <2>1. b.broker \in Sides /\ b.expected \in Sides
    BY DEF From, Books
  <2>2. b.broker.shares \in Int /\ b.expected.shares \in Int
    BY <2>1 DEF Sides
  <2>3. a.id \in Ids /\ a.terms \in Terms
    BY DEF Actions
  <2>4. \A t \in Terms : t \in Int
    BY TermsAssumption
  <2> QED BY <2>2, <2>3, <2>4, EntitledType
<1>2. CASE a \in Changed(d)
  <2> DEFINE held == Entitled(a) > 0 \/ \E s \in OfIdentity(a, d) : s.held
  <2>1. BookOne(b, a, d) = Noted(b, a, held, IF held THEN "ESCALATED" ELSE "BOOKED")
    <3>1. BookOne(b, a, d) = BookChanged(b, a, d)
      BY <1>2 DEF BookOne, Late, Fresh, Changed
    <3> QED BY <3>1 DEF BookChanged
  <2>2. \A t \in OfIdentity(a, d) : t.held => held
    OBVIOUS
  <2>3. held \in BOOLEAN
    OBVIOUS
  <2> HIDE DEF held
  <2>4. CASE held
    BY <2>1, <2>3, <2>4, NotedFrom
  <2>5. CASE ~held
    BY <2>1, <2>2, <2>3, <2>5, NotedFrom
  <2> QED BY <2>4, <2>5
<1>3. CASE a \notin Changed(d)
  <2>1. OfIdentity(a, d) = {}
    BY <1>3 DEF Fresh
  <2>2. \A c \in From(book, d), held \in BOOLEAN, status \in {"BOOKED", "ESCALATED"} :
          Noted(c, a, held, status) \in From(book, d)
    BY <2>1, NotedFrom
  <2>3. CASE a \in Late(d)
    <3>1. BookOne(b, a, d) = BookLate(b, a, d)
      BY <1>3, <2>3 DEF BookOne
    <3>2. CASE Entitled(a) = 0
      BY <2>2, <3>1, <3>2 DEF BookLate
    <3>3. CASE Entitled(a) # 0 /\ Kind[a.id] = "dividend"
      <4>1. a.terms * Entitled(a) \in Int
        BY <1>1
      <4>2. Credited(b, a.terms * Entitled(a)) \in From(book, d)
        BY <4>1, CreditedFrom
      <4>3. BookOne(b, a, d) =
              Noted(Credited(b, a.terms * Entitled(a)), a, TRUE, "BOOKED")
        BY <3>1, <3>3 DEF BookLate, Rescalable
      <4> QED BY <2>2, <4>2, <4>3
    <3>4. CASE Entitled(a) # 0 /\ Kind[a.id] # "dividend" /\ Rescalable(b, a, d)
      BY <2>2, <3>1, <3>4, RescaledFrom DEF BookLate
    <3>5. CASE Entitled(a) # 0 /\ Kind[a.id] # "dividend" /\ ~Rescalable(b, a, d)
      BY <2>2, <3>1, <3>5 DEF BookLate
    <3> QED BY <3>2, <3>3, <3>4, <3>5
  <2>4. CASE a \notin Late(d)
    <3>1. BookOne(b, a, d) = BookOnTime(b, a)
      BY <1>3, <2>4 DEF BookOne
    <3>2. (b.broker.shares > 0) \in BOOLEAN
      BY <1>1
    <3>3. CASE Kind[a.id] = "dividend"
      <4>1. a.terms * b.expected.shares \in Int
        BY <1>1
      <4>2. Credited(b, a.terms * b.expected.shares) \in From(book, d)
        BY <4>1, CreditedFrom
      <4>3. BookOne(b, a, d) = Noted(Credited(b, a.terms * b.expected.shares), a,
                                     b.broker.shares > 0, "BOOKED")
        BY <3>1, <3>3 DEF BookOnTime
      <4> QED BY <2>2, <3>2, <4>2, <4>3
    <3>4. CASE Kind[a.id] # "dividend" /\ Kind[a.id] = "rescale" /\ b.broker.shares > 0
      <4>1. BookOne(b, a, d) = Noted(Rescaled(b), a, b.broker.shares > 0, "BOOKED")
        BY <3>1, <3>4 DEF BookOnTime
      <4> QED BY <2>2, <3>2, <4>1, RescaledFrom
    <3>5. CASE Kind[a.id] # "dividend" /\ ~(Kind[a.id] = "rescale" /\ b.broker.shares > 0)
      <4>1. BookOne(b, a, d) = Noted(b, a, b.broker.shares > 0, "BOOKED")
        BY <3>1, <3>5 DEF BookOnTime
      <4> QED BY <2>2, <3>2, <4>1
    <3> QED BY <3>3, <3>4, <3>5
  <2> QED BY <2>3, <2>4
<1> QED BY <1>2, <1>3

\* All the corporate actions of a session.
LEMMA BookedFrom ==
  ASSUME Ledger, IsFiniteSet(known), known \subseteq Actions, NEW d, NEW book \in Books,
         IsFiniteSet(book.staged), book.seen = {}
  PROVE  Booked(book, d) \in From(book, d)
<1>1. book \in From(book, d)
  BY DEF From
<1>2. \A a \in Changed(d) \cup Fresh(d) : a \in Actions
  BY DEF Changed, Fresh, Known
<1>3. \A a \in Changed(d) \cup Fresh(d), b \in From(book, d) : BookOne(b, a, d) \in From(book, d)
  BY <1>2, BookOneFrom
<1> QED BY <1>1, <1>3, BookedIn

-----------------------------------------------------------------------------
(* Fills *)

\* Whatever fills, a count of shares stays a count.
LEMMA SharesAfterType ==
  ASSUME NEW fills \in SUBSET Orders, IsFiniteSet(fills), NEW shares \in Int
  PROVE  SharesAfter(shares, fills) \in Int
<1> DEFINE One(s) == CHOOSE o \in s : TRUE
           iter == CHOOSE it : it = [s \in SUBSET fills |->
                     IF s = {} THEN shares ELSE FilledShares(it[s \ {One(s)}], One(s))]
           c == [s \in SUBSET fills |-> One(s)]
           G == [p \in fills \X Int |-> FilledShares(p[2], p[1])]
<1>1. SharesAfter(shares, fills) = iter[fills]
  BY DEF SharesAfter, FoldSet, MapThenFoldSet
<1>2. \A s \in SUBSET fills : s # {} => One(s) \in s
  OBVIOUS
<1>3. \A o \in fills, n \in Int : FilledShares(n, o) \in Int
  <2>1. \A o \in fills : o.quantity \in Int
    BY DEF Orders
  <2> QED BY <2>1 DEF FilledShares
<1> HIDE DEF One
<1>4. \E it : it = [s \in SUBSET fills |->
                      IF s = {} THEN shares ELSE FilledShares(it[s \ {One(s)}], One(s))]
  <2>1. G \in [fills \X Int -> Int]
    BY <1>3
  <2>2. \A s \in SUBSET fills : s # {} => c[s] \in s
    BY <1>2
  <2>3. PICK f \in [SUBSET fills -> Int] : Folding(f, fills, shares, c, G)
    <3> HIDE DEF G, c, iter
    <3> QED BY <2>1, <2>2, FoldExists
  <2>4. ASSUME NEW s \in SUBSET fills, s # {}
        PROVE  f[s] = FilledShares(f[s \ {One(s)}], One(s))
    <3>1. One(s) \in fills /\ f[s \ {One(s)}] \in Int /\ f[s] = G[<<One(s), f[s \ {One(s)}]>>]
      BY <1>2, <2>3, <2>4 DEF Folding
    <3> QED BY <3>1
  <2>5. f = [s \in SUBSET fills |->
               IF s = {} THEN shares ELSE FilledShares(f[s \ {One(s)}], One(s))]
    BY <2>3, <2>4 DEF Folding
  <2> QED BY <2>5
<1>5. iter = [s \in SUBSET fills |->
                IF s = {} THEN shares ELSE FilledShares(iter[s \ {One(s)}], One(s))]
  BY <1>4
<1> HIDE DEF iter
<1>6. iter[{}] \in Int
  BY <1>5
<1>7. ASSUME NEW s \in SUBSET fills, s # {}, iter[s \ {c[s]}] \in Int PROVE iter[s] \in Int
  <2>1. One(s) \in fills /\ c[s] = One(s)
    BY <1>2, <1>7
  <2>2. iter[s] = FilledShares(iter[s \ {One(s)}], One(s))
    BY <1>5, <1>7
  <2> QED BY <1>3, <1>7, <2>1, <2>2
<1>8. \A s \in SUBSET fills : iter[s] \in Int
  <2>1. \A s \in SUBSET fills : s # {} => c[s] \in s
    BY <1>2
  <2> HIDE DEF c
  <2> QED BY <1>6, <1>7, <2>1, FoldInvariant
<1> QED BY <1>1, <1>8

-----------------------------------------------------------------------------
(* The row of a session *)

\* Where the latest decided session left the book, this one takes it up, without the orders
\* staged for a session that has gone by.
LEMMA RestoredIs ==
  ASSUME Ledger, NEW d
  PROVE  /\ Restored(d) \in Books /\ IsFiniteSet(Restored(d).staged)
         /\ Restored(d).seen = {}
         /\ \A o \in Restored(d).staged :
              Latest(d) \in Sessions /\ o \in rows[Latest(d)].staged /\ o.target >= d
         /\ Restored(d).expected = Expected(d)
         /\ Restored(d).broker = IF Latest(d) = 0 THEN Empty ELSE rows[Latest(d)].broker
<1> DEFINE last == Latest(d)
           staged == IF last = 0 THEN {} ELSE Lapsed(rows[last].staged, d)
<1>1. Restored(d) = [broker |-> IF last = 0 THEN Empty ELSE rows[last].broker,
                     expected |-> Expected(d), staged |-> staged, seen |-> {}]
  BY DEF Restored
<1>2. CASE last = 0
  <2>1. Empty \in Sides
    BY DEF Empty, Sides
  <2>2. Expected(d) = Empty
    BY <1>2 DEF Expected, ExpectedOfLast
  <2>3. staged = {} /\ IsFiniteSet(staged)
    BY <1>2, FS_EmptySet
  <2> QED BY <1>1, <1>2, <2>1, <2>2, <2>3 DEF Books
<1>3. CASE last # 0
  <2>1. last \in Sessions
    BY <1>3, LatestIs DEF MovedBefore
  <2>2. rows[last] \in Rows /\ IsFiniteSet(rows[last].staged)
    BY <2>1 DEF Ledger, Recorded
  <2>3. /\ rows[last].broker \in Sides /\ rows[last].expected \in Sides
        /\ rows[last].staged \subseteq Orders
    BY <2>2 DEF Rows
  <2>4. Expected(d) \in Sides
    BY <1>3, <2>3 DEF Expected, ExpectedOfLast
  <2>5. staged \subseteq rows[last].staged /\ \A o \in staged : o.target >= d
    BY <1>3 DEF Lapsed
  <2>6. IsFiniteSet(staged)
    BY <2>2, <2>5, FS_Subset
  <2> HIDE DEF staged
  <2> QED BY <1>1, <1>3, <2>1, <2>3, <2>4, <2>5, <2>6 DEF Books
<1> QED BY <1>2, <1>3

\* A policy stages at most one order, for the next session.
LEMMA DecisionIs ==
  ASSUME NEW d \in Sessions, NEW rebalance, NEW carried, NEW shares \in Int,
         NEW decision \in Decisions(d, rebalance, carried, shares)
  PROVE  /\ decision.orders \subseteq Orders /\ IsFiniteSet(decision.orders)
         /\ decision.pending \in BOOLEAN
         /\ \A o \in decision.orders : o.decided = d /\ o.target = d + 1
<1>1. \A side \in {"BUY", "SELL"}, quantity \in Int :
        /\ NewOrder(d, side, quantity) \in Orders
        /\ NewOrder(d, side, quantity).decided = d /\ NewOrder(d, side, quantity).target = d + 1
  BY DEF NewOrder, Orders, Sessions
<1>2. \/ decision = [orders |-> {}, pending |-> FALSE]
      \/ decision = [orders |-> {NewOrder(d, "BUY", 1)}, pending |-> FALSE]
      \/ decision = [orders |-> {NewOrder(d, "SELL", shares)}, pending |-> TRUE]
  BY DEF Decisions
<1>3. /\ decision.pending \in BOOLEAN
      /\ \/ decision.orders = {}
         \/ decision.orders = {NewOrder(d, "BUY", 1)}
         \/ decision.orders = {NewOrder(d, "SELL", shares)}
  <2>1. \A orders, pending : decision = [orders |-> orders, pending |-> pending] =>
          decision.orders = orders /\ decision.pending = pending
    OBVIOUS
  <2>2. CASE decision = [orders |-> {}, pending |-> FALSE]
    BY <2>1, <2>2
  <2>3. CASE decision = [orders |-> {NewOrder(d, "BUY", 1)}, pending |-> FALSE]
    BY <2>1, <2>3
  <2>4. CASE decision = [orders |-> {NewOrder(d, "SELL", shares)}, pending |-> TRUE]
    BY <2>1, <2>4
  <2> QED BY <1>2, <2>2, <2>3, <2>4
<1>4. /\ NewOrder(d, "BUY", 1) \in Orders /\ NewOrder(d, "BUY", 1).decided = d
      /\ NewOrder(d, "BUY", 1).target = d + 1
      /\ NewOrder(d, "SELL", shares) \in Orders /\ NewOrder(d, "SELL", shares).decided = d
      /\ NewOrder(d, "SELL", shares).target = d + 1
  BY <1>1
<1>5. IsFiniteSet(decision.orders)
  <2>1. \A x : IsFiniteSet({x})
    BY FS_Singleton
  <2>2. IsFiniteSet({})
    BY FS_EmptySet
  <2> QED BY <1>3, <2>1, <2>2
<1>6. decision.orders \subseteq Orders /\ \A o \in decision.orders :
        o.decided = d /\ o.target = d + 1
  BY <1>3, <1>4
<1> QED BY <1>3, <1>5, <1>6

\* What a session leaves before it decides.
LEMMA LeftIs ==
  ASSUME NEW d, NEW ready \in Books, NEW fills, NEW slip
  PROVE  Left(Filled(ready, fills, slip, d), fills, d) =
           [outcome |-> "NONE", rebalanced |-> FALSE, pending |-> FALSE, orders |-> {},
            staged |-> ready.staged \ Due(ready, d), fills |-> fills, seen |-> ready.seen,
            broker |-> [shares |-> SharesAfter(ready.broker.shares, fills),
                        credits |-> ready.broker.credits + slip],
            expected |-> [shares |-> SharesAfter(ready.expected.shares, fills),
                          credits |-> ready.expected.credits],
            from |-> Latest(d)]
<1>1. PICK broker, expected, staged :
        /\ broker = [shares |-> SharesAfter(ready.broker.shares, fills),
                     credits |-> ready.broker.credits + slip]
        /\ expected = [shares |-> SharesAfter(ready.expected.shares, fills),
                       credits |-> ready.expected.credits]
        /\ staged = ready.staged \ Due(ready, d)
  OBVIOUS
<1>2. Filled(ready, fills, slip, d) =
        [ready EXCEPT !.broker = broker, !.expected = expected, !.staged = staged]
  BY <1>1 DEF Filled
<1>3. ready = [broker |-> ready.broker, expected |-> ready.expected,
               staged |-> ready.staged, seen |-> ready.seen]
  BY BookIs
<1>4. Filled(ready, fills, slip, d) =
        [broker |-> broker, expected |-> expected, staged |-> staged, seen |-> ready.seen]
  BY <1>2, <1>3
<1> QED BY <1>1, <1>4 DEF Left

\* What it makes of a broken reconciliation, and of a decision.
LEMMA BrokenRowIs ==
  ASSUME NEW row \in Rows, NEW carried, NEW rebalance
  PROVE  BrokenRow(row, carried, rebalance) =
           [outcome |-> "RECON_BREAK", rebalanced |-> row.rebalanced, pending |-> carried,
            orders |-> row.orders, staged |-> row.staged, fills |-> row.fills,
            seen |-> row.seen, broker |-> row.broker, expected |-> row.expected,
            from |-> row.from]
<1>1. BrokenRow(row, carried, rebalance) =
        [row EXCEPT !.outcome = "RECON_BREAK", !.pending = carried]
  BY DEF BrokenRow
<1>2. row = [outcome |-> row.outcome, rebalanced |-> row.rebalanced, pending |-> row.pending,
             orders |-> row.orders, staged |-> row.staged, fills |-> row.fills,
             seen |-> row.seen, broker |-> row.broker, expected |-> row.expected,
             from |-> row.from]
  BY DEF Rows
<1> QED BY <1>1, <1>2

\* The row of a session decided, field by field.
LEMMA DecidedRowIs ==
  ASSUME NEW row \in Rows, NEW decision, NEW rebalance
  PROVE  DecidedRow(row, decision, rebalance) =
           [outcome |-> "COMPLETED", rebalanced |-> rebalance, pending |-> decision.pending,
            orders |-> decision.orders, staged |-> row.staged \cup decision.orders,
            fills |-> row.fills, seen |-> row.seen, broker |-> row.broker,
            expected |-> row.expected, from |-> row.from]
<1>1. PICK staged, pending, orders :
        /\ staged = row.staged \cup decision.orders
        /\ pending = decision.pending /\ orders = decision.orders
  OBVIOUS
<1>2. DecidedRow(row, decision, rebalance) =
        [row EXCEPT !.outcome = "COMPLETED", !.rebalanced = rebalance, !.pending = pending,
                    !.orders = orders, !.staged = staged]
  BY <1>1 DEF DecidedRow
<1>3. DecidedRow(row, decision, rebalance) =
        [outcome |-> "COMPLETED", rebalanced |-> rebalance, pending |-> pending,
         orders |-> orders, staged |-> staged, fills |-> row.fills, seen |-> row.seen,
         broker |-> row.broker, expected |-> row.expected, from |-> row.from]
  BY <1>2 DEF Rows
<1> QED BY <1>1, <1>3

\* What a run may write of a session it has executed.
LEMMA OutcomeIs ==
  ASSUME Ledger, NEW d \in Sessions, NEW ready \in From(Restored(d), d),
         NEW fills \in SUBSET Due(ready, d), NEW slip \in 0..1, NEW left,
         left = Left(Filled(ready, fills, slip, d), fills, d), NEW row \in Outcomes(left, d)
  PROVE  /\ Recorded(row) /\ row.outcome \in {"COMPLETED", "RECON_BREAK"}
         /\ row.from = Latest(d) /\ row.seen = ready.seen /\ row.fills = fills
         /\ row.broker = left.broker /\ left.broker.credits = ready.broker.credits + slip
         /\ row.outcome = "COMPLETED" =>
              ~Broke(left) /\ row.broker = row.expected /\ (row.rebalanced <=> RebalanceDue(d))
         /\ row.outcome = "RECON_BREAK" => Broke(left)
         /\ row.staged \subseteq (ready.staged \ Due(ready, d)) \cup row.orders
         /\ \A o \in row.orders : o.decided = d /\ o.target = d + 1
         /\ ready.broker = ready.expected /\ slip = 0 => ~Broke(left)
<1> DEFINE rebalance == RebalanceDue(d)
           carried == Latest(d) > 0 /\ rows[Latest(d)].pending
           broker == [shares |-> SharesAfter(ready.broker.shares, fills),
                      credits |-> ready.broker.credits + slip]
           expected == [shares |-> SharesAfter(ready.expected.shares, fills),
                        credits |-> ready.expected.credits]
           staged == ready.staged \ Due(ready, d)
<1>1. /\ ready \in Books /\ IsFiniteSet(ready.staged) /\ ready.staged \subseteq Orders
      /\ ready.seen \subseteq Sightings
      /\ ready.broker.shares \in Int /\ ready.broker.credits \in Int
      /\ ready.expected.shares \in Int /\ ready.expected.credits \in Int
  <2>1. ready \in Books /\ IsFiniteSet(ready.staged)
    BY DEF From
  <2> QED BY <2>1, BookIs DEF Books
<1>2. fills \in SUBSET Orders /\ IsFiniteSet(fills)
  <2>1. fills \in SUBSET ready.staged
    BY DEF Due
  <2> QED BY <1>1, <2>1, FS_Subset
<1>3. staged \subseteq Orders /\ IsFiniteSet(staged)
  <2>1. staged \in SUBSET ready.staged
    OBVIOUS
  <2> QED BY <1>1, <2>1, FS_Subset
<1>4. broker \in Sides /\ expected \in Sides
  <2>1. SharesAfter(ready.broker.shares, fills) \in Int
    BY <1>1, <1>2, SharesAfterType
  <2>2. SharesAfter(ready.expected.shares, fills) \in Int
    BY <1>1, <1>2, SharesAfterType
  <2>3. ready.broker.credits + slip \in Int
    BY <1>1
  <2> QED BY <1>1, <2>1, <2>2, <2>3 DEF Sides
<1>5. left = [outcome |-> "NONE", rebalanced |-> FALSE, pending |-> FALSE, orders |-> {},
              staged |-> staged, fills |-> fills, seen |-> ready.seen,
              broker |-> broker, expected |-> expected, from |-> Latest(d)]
  BY <1>1, LeftIs
<1>6. ready.broker = ready.expected /\ slip = 0 => broker = expected
  BY <1>1
<1> HIDE DEF broker, expected, staged
<1>7. left \in Rows
  BY <1>1, <1>2, <1>3, <1>4, <1>5, LatestIs DEF Rows
<1>8. ready.broker = ready.expected /\ slip = 0 => ~Broke(left)
  BY <1>5, <1>6 DEF Broke
<1>9. left.broker = broker /\ left.broker.credits = ready.broker.credits + slip
  BY <1>5 DEF broker
<1>10. CASE Broke(left)
  <2>1. row = BrokenRow(left, carried, rebalance)
    BY <1>10 DEF Outcomes
  <2>2. carried \in BOOLEAN
    OBVIOUS
  <2> HIDE DEF carried, rebalance
  <2>3. row = [outcome |-> "RECON_BREAK", rebalanced |-> FALSE, pending |-> carried,
               orders |-> {}, staged |-> staged, fills |-> fills, seen |-> ready.seen,
               broker |-> broker, expected |-> expected, from |-> Latest(d)]
    <3>1. row = [outcome |-> "RECON_BREAK", rebalanced |-> left.rebalanced, pending |-> carried,
                 orders |-> left.orders, staged |-> left.staged, fills |-> left.fills,
                 seen |-> left.seen, broker |-> left.broker, expected |-> left.expected,
                 from |-> left.from]
      BY <1>7, <2>1, BrokenRowIs
    <3>2. /\ left.rebalanced = FALSE /\ left.orders = {} /\ left.staged = staged
          /\ left.fills = fills /\ left.seen = ready.seen /\ left.broker = broker
          /\ left.expected = expected /\ left.from = Latest(d)
      BY <1>5
    <3> QED BY <3>1, <3>2
  <2>4. row \in Rows
    BY <1>1, <1>2, <1>3, <1>4, <2>2, <2>3, LatestIs DEF Rows
  <2>5. Recorded(row)
    BY <1>3, <2>3, <2>4 DEF Recorded
  <2> QED BY <1>8, <1>9, <1>10, <2>3, <2>5 DEF staged
<1>11. CASE ~Broke(left)
  <2>1. PICK decision \in Decisions(d, rebalance, carried, left.broker.shares) :
               row = DecidedRow(left, decision, rebalance)
    BY <1>11 DEF Outcomes
  <2>2. left.broker.shares \in Int
    BY <1>4, <1>5 DEF Sides
  <2>3. rebalance \in BOOLEAN /\ (rebalance <=> RebalanceDue(d))
    BY DEF RebalanceDue
  <2> HIDE DEF carried, rebalance
  <2>4. /\ decision.orders \subseteq Orders /\ IsFiniteSet(decision.orders)
        /\ decision.pending \in BOOLEAN
        /\ \A o \in decision.orders : o.decided = d /\ o.target = d + 1
    BY <2>2, DecisionIs
  <2>5. row = [outcome |-> "COMPLETED", rebalanced |-> rebalance, pending |-> decision.pending,
               orders |-> decision.orders, staged |-> staged \cup decision.orders,
               fills |-> fills, seen |-> ready.seen, broker |-> broker,
               expected |-> expected, from |-> Latest(d)]
    <3>1. row = [outcome |-> "COMPLETED", rebalanced |-> rebalance, pending |-> decision.pending,
                 orders |-> decision.orders, staged |-> left.staged \cup decision.orders,
                 fills |-> left.fills, seen |-> left.seen, broker |-> left.broker,
                 expected |-> left.expected, from |-> left.from]
      BY <1>7, <2>1, DecidedRowIs
    <3>2. /\ left.staged = staged /\ left.fills = fills /\ left.seen = ready.seen
          /\ left.broker = broker /\ left.expected = expected /\ left.from = Latest(d)
      BY <1>5
    <3> QED BY <3>1, <3>2
  <2>6. row \in Rows
    BY <1>1, <1>2, <1>3, <1>4, <2>3, <2>4, <2>5, LatestIs DEF Rows
  <2>7. IsFiniteSet(staged \cup decision.orders)
    BY <1>3, <2>4, FS_Union
  <2>8. Recorded(row)
    BY <2>5, <2>6, <2>7 DEF Recorded
  <2>9. row.broker = row.expected
    BY <1>5, <1>11, <2>5 DEF Broke
  <2>10. row.outcome = "COMPLETED" /\ (row.rebalanced <=> RebalanceDue(d))
    BY <2>3, <2>5
  <2>11. /\ row.from = Latest(d) /\ row.seen = ready.seen /\ row.fills = fills
         /\ row.staged = staged \cup row.orders /\ row.orders = decision.orders
         /\ row.broker = broker
    BY <2>5
  <2> QED BY <1>8, <1>9, <1>11, <2>4, <2>8, <2>9, <2>10, <2>11 DEF staged
<1> QED BY <1>10, <1>11

\* What a run does that executes: it writes a row made of what was booked and of what filled, and
\* trips the switch if the two sides differ.
Executed(r, row) ==
  LET d == run[r].session
      ready == Booked(Restored(d), d)
  IN  /\ d \in Sessions /\ MayDecide(r) /\ ~Held(r)
      /\ Write(r, row) /\ UNCHANGED <<today, rows, resolved, skips, known>>
      /\ ready \in From(Restored(d), d)
      /\ Recorded(row) /\ row.outcome \in {"COMPLETED", "RECON_BREAK"}
      /\ row.from = Latest(d) /\ row.seen = ready.seen /\ row.fills \subseteq Due(ready, d)
      /\ row.outcome = "COMPLETED" =>
           row.broker = row.expected /\ (row.rebalanced <=> RebalanceDue(d))
      /\ row.staged \subseteq (ready.staged \ Due(ready, d)) \cup row.orders
      /\ \A o \in row.orders : o.decided = d /\ o.target = d + 1
      /\ row.broker.shares >= 0
      /\ \/ /\ used' = used /\ row.broker.credits = ready.broker.credits
            /\ ready.broker = ready.expected => row.outcome = "COMPLETED"
         \/ used' = [used EXCEPT !["slips"] = @ + 1]
      /\ switch' \in BOOLEAN /\ broken' \in BOOLEAN
      /\ row.outcome = "RECON_BREAK" => switch' /\ broken'
      /\ row.outcome = "COMPLETED" => (switch' <=> switch) /\ (broken' <=> broken)

\* What a run does when it executes: a row of the session as Executed says.
LEMMA ExecuteIs ==
  ASSUME Shape, Ledger, IsFiniteSet(known), known \subseteq Actions, NEW r \in Runs, Execute(r)
  PROVE  \E row : Executed(r, row)
<1> DEFINE d == run[r].session
           ready == Booked(Restored(d), d)
<1>1. d \in Sessions /\ MayDecide(r) /\ ~Held(r)
      /\ UNCHANGED <<today, rows, resolved, skips, known>>
  BY DEF Execute, MayDecide, Shape
<1>2. ready \in From(Restored(d), d)
  BY RestoredIs, BookedFrom
<1>3. PICK fills \in SUBSET Due(ready, d), slip \in 0..1 :
        LET left == Left(Filled(ready, fills, slip, d), fills, d)
        IN  /\ IF slip = 1 THEN Use("slips", MaxSlips) ELSE used' = used
            /\ left.broker.shares >= 0
            /\ \E outcome \in Outcomes(left, d) : Write(r, outcome)
            /\ switch' = (switch \/ Trips(Broke(left)))
            /\ broken' = (broken \/ Broke(left))
  BY DEF Execute
<1> DEFINE left == Left(Filled(ready, fills, slip, d), fills, d)
<1>4. PICK row \in Outcomes(left, d) : Write(r, row)
  BY <1>3
<1>5. /\ Recorded(row) /\ row.outcome \in {"COMPLETED", "RECON_BREAK"}
      /\ row.from = Latest(d) /\ row.seen = ready.seen /\ row.fills = fills
      /\ row.broker = left.broker /\ left.broker.credits = ready.broker.credits + slip
      /\ row.outcome = "COMPLETED" =>
           ~Broke(left) /\ row.broker = row.expected /\ (row.rebalanced <=> RebalanceDue(d))
      /\ row.outcome = "RECON_BREAK" => Broke(left)
      /\ row.staged \subseteq (ready.staged \ Due(ready, d)) \cup row.orders
      /\ \A o \in row.orders : o.decided = d /\ o.target = d + 1
      /\ ready.broker = ready.expected /\ slip = 0 => ~Broke(left)
  BY <1>1, <1>2, OutcomeIs
<1>6. \/ /\ used' = used /\ row.broker.credits = ready.broker.credits
         /\ ready.broker = ready.expected => row.outcome = "COMPLETED"
      \/ used' = [used EXCEPT !["slips"] = @ + 1]
  <2>1. CASE slip = 0
    <3>1. ready.broker.credits \in Int
      <4>1. ready \in Books
        BY <1>2 DEF From
      <4> QED BY <4>1, BookIs
    <3>2. row.broker.credits = ready.broker.credits
      <4> HIDE DEF ready, left
      <4> QED BY <1>5, <2>1, <3>1
    <3>3. used' = used
      BY <1>3, <2>1
    <3>4. ready.broker = ready.expected => row.outcome = "COMPLETED"
      <4> HIDE DEF ready, left
      <4> QED BY <1>5, <2>1
    <3> QED BY <3>2, <3>3, <3>4
  <2>2. CASE slip = 1
    BY <1>3, <2>2 DEF Use
  <2> QED BY <2>1, <2>2
<1>7. /\ switch' \in BOOLEAN /\ broken' \in BOOLEAN
      /\ row.outcome = "RECON_BREAK" => switch' /\ broken'
      /\ row.outcome = "COMPLETED" => (switch' <=> switch) /\ (broken' <=> broken)
  <2>1. switch' = (switch \/ Broke(left)) /\ broken' = (broken \/ Broke(left))
    BY <1>3 DEF Trips
  <2>2. row.outcome = "RECON_BREAK" => Broke(left)
    BY <1>5
  <2>3. row.outcome = "COMPLETED" => ~Broke(left)
    BY <1>5
  <2> HIDE DEF left
  <2> QED BY <2>1, <2>2, <2>3
<1>8. row.broker.shares >= 0
  BY <1>3, <1>5
<1> QED BY <1>1, <1>2, <1>4, <1>5, <1>6, <1>7, <1>8 DEF Executed

-----------------------------------------------------------------------------
(* What a step makes of the runs *)

\* A run that writes holds its row, and keeps its session and its halt.
LEMMA WriteIs ==
  ASSUME Shape, NEW r \in Runs, NEW row, Write(r, row)
  PROVE  /\ run'[r].phase = "writing" /\ run'[r].session = run[r].session
         /\ run'[r].halted = run[r].halted /\ run'[r].row = row
         /\ \A q \in Runs : q # r => run'[q] = run[q]
<1>1. PICK old : old = run[r]
  OBVIOUS
<1>2. PICK new : new = [old EXCEPT !.phase = "writing", !.row = row]
  OBVIOUS
<1>3. old = [phase |-> old.phase, session |-> old.session,
             halted |-> old.halted, row |-> old.row]
  BY <1>1 DEF Shape
<1>4. new = [phase |-> "writing", session |-> old.session,
             halted |-> old.halted, row |-> row]
  BY <1>2, <1>3
<1>5. run'[r] = new /\ \A q \in Runs : q # r => run'[q] = run[q]
  BY <1>1, <1>2 DEF Write, Shape
<1> QED BY <1>1, <1>4, <1>5

\* A run that ends.
LEMMA IdleIs ==
  ASSUME Shape, NEW r \in Runs, run' = [run EXCEPT ![r] = Idle]
  PROVE  run'[r].phase = "idle" /\ \A q \in Runs : q # r => run'[q] = run[q]
BY DEF Shape, Idle

\* A run that starts.
LEMMA StartIs ==
  ASSUME Shape, NEW r \in Runs, NEW d \in Sessions, Start(r, d)
  PROVE  /\ run'[r].phase = "started" /\ run'[r].session = d /\ run'[r].halted = switch
         /\ \A q \in Runs : q # r => run'[q] = run[q]
         /\ UNCHANGED <<today, rows, resolved, skips, switch, known, broken, used>>
BY DEF Start, Shape

\* A run that skips ends there, or writes a skipped row over one that is none.
LEMMA SkipIs ==
  ASSUME NEW r \in Runs, Skip(r)
  PROVE  /\ MayDecide(r) /\ UNCHANGED <<today, rows, resolved, skips, switch, known, broken>>
         /\ used' = used \/ used' = [used EXCEPT !["reds"] = @ + 1]
         /\ \/ run' = [run EXCEPT ![r] = Idle]
            \/ Write(r, SkippedRow) /\ ~StillRed(run[r].session)
BY DEF Skip, Use

\* Whatever is not a run's own step leaves the runs and the ledger alone.
Around ==
  Advance \/ TripByHand \/ Reset \/ (\E a \in Actions : Learn(a))
    \/ (\E key \in ToResolve : Resolve(key)) \/ UNCHANGED vars

\* What happens around the runs leaves the ledger and the runs alone.
LEMMA AroundIs ==
  ASSUME Around
  PROVE  UNCHANGED <<rows, skips, run>>
BY DEF Around, Advance, TripByHand, Reset, Learn, Resolve, vars

\* A step is one of these.
LEMMA StepIs ==
  ASSUME [Next]_vars
  PROVE  \/ \E r \in Runs, d \in Sessions : Start(r, d)
         \/ \E r \in Runs : Skip(r) \/ Execute(r) \/ Commit(r) \/ Stop(r) \/ Fail(r)
         \/ Around
BY DEF Next, RunStep, Around

-----------------------------------------------------------------------------
(* Rows of the ledger, whatever runs overlap *)

\* The skipped row and the empty one are rows the table accepts.
LEMMA EmptyRows ==
  /\ Recorded(NoRow) /\ NoRow.outcome = "NONE"
  /\ Recorded(SkippedRow) /\ SkippedRow.outcome = "SKIPPED_DATA_RED"
  /\ [NoRow EXCEPT !.outcome = "NONE"] = NoRow
  /\ [SkippedRow EXCEPT !.outcome = "NONE"] = NoRow
<1>1. Empty \in Sides
  BY DEF Empty, Sides
<1>2. NoRow \in Rows /\ IsFiniteSet(NoRow.staged) /\ NoRow.outcome = "NONE"
  BY <1>1, FS_EmptySet DEF NoRow, Rows
<1>3. \A row \in Rows, outcome \in {"NONE", "SKIPPED_DATA_RED"} :
        [row EXCEPT !.outcome = outcome] =
          [outcome |-> outcome, rebalanced |-> row.rebalanced, pending |-> row.pending,
           orders |-> row.orders, staged |-> row.staged, fills |-> row.fills,
           seen |-> row.seen, broker |-> row.broker, expected |-> row.expected,
           from |-> row.from]
  BY DEF Rows
<1>4. SkippedRow = [outcome |-> "SKIPPED_DATA_RED", rebalanced |-> FALSE, pending |-> FALSE,
                    orders |-> {}, staged |-> {}, fills |-> {}, seen |-> {},
                    broker |-> Empty, expected |-> Empty, from |-> 0]
  <2>1. SkippedRow =
          [outcome |-> "SKIPPED_DATA_RED", rebalanced |-> NoRow.rebalanced,
           pending |-> NoRow.pending, orders |-> NoRow.orders, staged |-> NoRow.staged,
           fills |-> NoRow.fills, seen |-> NoRow.seen, broker |-> NoRow.broker,
           expected |-> NoRow.expected, from |-> NoRow.from]
    BY <1>2, <1>3 DEF SkippedRow
  <2> QED BY <2>1 DEF NoRow
<1>5. SkippedRow \in Rows /\ IsFiniteSet(SkippedRow.staged)
      /\ SkippedRow.outcome = "SKIPPED_DATA_RED"
  BY <1>1, <1>4, FS_EmptySet DEF Rows
<1>6. [NoRow EXCEPT !.outcome = "NONE"] = NoRow
  <2>1. [NoRow EXCEPT !.outcome = "NONE"] =
          [outcome |-> "NONE", rebalanced |-> NoRow.rebalanced,
           pending |-> NoRow.pending, orders |-> NoRow.orders, staged |-> NoRow.staged,
           fills |-> NoRow.fills, seen |-> NoRow.seen, broker |-> NoRow.broker,
           expected |-> NoRow.expected, from |-> NoRow.from]
    BY <1>2, <1>3
  <2> QED BY <2>1 DEF NoRow
<1>7. [SkippedRow EXCEPT !.outcome = "NONE"] = NoRow
  <2>1. [SkippedRow EXCEPT !.outcome = "NONE"] =
          [outcome |-> "NONE", rebalanced |-> SkippedRow.rebalanced,
           pending |-> SkippedRow.pending, orders |-> SkippedRow.orders,
           staged |-> SkippedRow.staged, fills |-> SkippedRow.fills, seen |-> SkippedRow.seen,
           broker |-> SkippedRow.broker, expected |-> SkippedRow.expected,
           from |-> SkippedRow.from]
    BY <1>3, <1>5
  <2> QED BY <1>4, <2>1 DEF NoRow
<1> QED BY <1>2, <1>5, <1>6, <1>7 DEF Recorded

\* A new ledger is well typed.
LEMMA InitTyped == Init => Typed
<1> SUFFICES ASSUME Init PROVE Typed
  OBVIOUS
<1>1. today \in Sessions
  BY SessionsAssumption DEF Init, Sessions
<1>2. known \subseteq Actions /\ IsFiniteSet(known)
  BY FS_EmptySet DEF Init
<1>3. \A d \in Sessions : Recorded(rows[d])
  BY EmptyRows DEF Init
<1> QED BY <1>1, <1>2, <1>3 DEF Init, Typed, Idle

\* What a run will write, and what it has written, is a row the table accepts.
LEMMA TypedStep ==
  ASSUME Shape, Typed, [Next]_vars
  PROVE  Typed'
<1>0. Ledger
  BY DEF Typed, Ledger
<1>1. \A what \in {"reds", "trips", "slips", "fails"} :
        [used EXCEPT ![what] = @ + 1] \in [{"reds", "trips", "slips", "fails"} -> Nat]
  BY DEF Typed
<1>2. ASSUME NEW r \in Runs, NEW d \in Sessions, Start(r, d) PROVE Typed'
  <2>1. run'[r].phase = "started"
    BY <1>2, StartIs
  <2> QED BY <1>2, <2>1, StartIs DEF Typed
<1>3. ASSUME NEW r \in Runs, Skip(r) PROVE Typed'
  <2>1. used' \in [{"reds", "trips", "slips", "fails"} -> Nat]
    BY <1>1, <1>3, SkipIs DEF Typed
  <2>2. CASE run' = [run EXCEPT ![r] = Idle]
    BY <1>3, <2>1, <2>2, SkipIs, IdleIs DEF Typed
  <2>3. CASE Write(r, SkippedRow)
    <3>1. run'[r].row = SkippedRow /\ \A q \in Runs : q # r => run'[q] = run[q]
      BY <2>3, WriteIs
    <3> QED BY <1>3, <2>1, <3>1, SkipIs, EmptyRows DEF Typed
  <2> QED BY <1>3, <2>2, <2>3, SkipIs
<1>4. ASSUME NEW r \in Runs, Execute(r) PROVE Typed'
  <2>1. PICK row : Executed(r, row)
    BY <1>0, <1>4, ExecuteIs DEF Typed
  <2>2. run'[r].row = row /\ \A q \in Runs : q # r => run'[q] = run[q]
    BY <2>1, WriteIs DEF Executed
  <2>3. used' \in [{"reds", "trips", "slips", "fails"} -> Nat]
    BY <1>1, <2>1 DEF Executed, Typed
  <2> QED BY <2>1, <2>2, <2>3 DEF Executed, Typed
<1>5. ASSUME NEW r \in Runs, Commit(r) PROVE Typed'
  <2>1. run'[r].phase = "idle" /\ \A q \in Runs : q # r => run'[q] = run[q]
    BY <1>5, IdleIs DEF Commit
  <2>2. \A d \in Sessions : Recorded(rows'[d])
    BY <1>5, CommitLedger DEF Typed
  <2>3. skips' \in [Sessions -> Nat]
    BY <1>5 DEF Commit, Typed, Shape
  <2> QED BY <1>5, <2>1, <2>2, <2>3 DEF Commit, Typed
<1>6. ASSUME NEW r \in Runs, Stop(r) \/ Fail(r) PROVE Typed'
  <2>1. run'[r].phase = "idle" /\ \A q \in Runs : q # r => run'[q] = run[q]
    BY <1>6, IdleIs DEF Stop, Fail
  <2>2. used' \in [{"reds", "trips", "slips", "fails"} -> Nat]
    BY <1>1, <1>6 DEF Stop, Fail, Use, Typed
  <2> QED BY <1>6, <2>1, <2>2 DEF Stop, Fail, Typed
<1>7. CASE Around
  <2>1. UNCHANGED <<rows, skips, run>>
    BY <1>7, AroundIs
  <2>2. /\ switch' \in BOOLEAN /\ broken' \in BOOLEAN
        /\ used' \in [{"reds", "trips", "slips", "fails"} -> Nat]
    BY <1>1, <1>7 DEF Around, Typed, Advance, TripByHand, Reset, Learn, Resolve, vars, Use
  <2>4. today' \in Sessions
    <3>1. CASE today' = today
      BY <3>1 DEF Typed
    <3>2. CASE Advance
      BY <3>2, SessionsAssumption DEF Advance, Typed, Sessions
    <3> QED BY <1>7, <3>1, <3>2 DEF Around, TripByHand, Reset, Learn, Resolve, vars
  <2>3. known' \subseteq Actions /\ IsFiniteSet(known')
    <3>1. CASE known' = known
      BY <3>1 DEF Typed
    <3>2. ASSUME NEW a \in Actions, Learn(a) PROVE known' \subseteq Actions /\ IsFiniteSet(known')
      <4>1. {b \in known : b.id # a.id} \in SUBSET known
        OBVIOUS
      <4>2. IsFiniteSet({b \in known : b.id # a.id})
        BY <4>1, FS_Subset DEF Typed
      <4>3. IsFiniteSet(known \cup {a}) /\ IsFiniteSet({b \in known : b.id # a.id} \cup {a})
        BY <4>2, FS_AddElement DEF Typed
      <4> QED BY <3>2, <4>3 DEF Learn, Typed
    <3> QED BY <1>7, <3>1, <3>2 DEF Around, Advance, TripByHand, Reset, Resolve, vars
  <2> QED BY <2>1, <2>2, <2>3, <2>4 DEF Typed
<1> QED BY <1>2, <1>3, <1>4, <1>5, <1>6, <1>7, StepIs

\* The ledger of every book, and what its runs are about to write, is well formed, however many
\* runs overlap.
THEOREM TypedAlways == Spec => []Typed
<1>1. Shape /\ Typed /\ [Next]_vars => Typed'
  BY TypedStep
<1> QED BY <1>1, InitTyped, ShapeAlways, PTL DEF Spec

\* Each row is one the table's CHECK constraints accept (PaperSessionRecord.__post_init__).
THEOREM TypeCorrect == Spec => []TypeOK
<1>1. Shape /\ Typed => TypeOK
  <2> SUFFICES ASSUME Shape, Typed PROVE TypeOK
    OBVIOUS
  <2>1. ASSUME NEW d \in Sessions
        PROVE  /\ rows[d].outcome \in {"NONE", "SKIPPED_DATA_RED", "COMPLETED", "RECON_BREAK"}
               /\ skips[d] \in Nat
               /\ rows[d].outcome \in {"NONE", "SKIPPED_DATA_RED"} =>
                    [rows[d] EXCEPT !.outcome = "NONE"] = NoRow
               /\ rows[d].outcome = "RECON_BREAK" => rows[d].orders = {} /\ ~rows[d].rebalanced
    <3>1. Recorded(rows[d])
      BY DEF Typed
    <3>2. rows[d].outcome \in {"NONE", "SKIPPED_DATA_RED", "COMPLETED", "RECON_BREAK"}
      BY <3>1 DEF Recorded, Rows
    <3> QED BY <3>1, <3>2, EmptyRows DEF Recorded, Typed
  <2> QED BY <2>1 DEF TypeOK, Typed, Shape
<1> QED BY <1>1, TypedAlways, ShapeAlways, PTL

-----------------------------------------------------------------------------
(* What each decided session owes to the ones before it *)

\* What a row owes is owed to the earlier sessions alone: while they stand and nothing resolved
\* is taken back it is still owed.
LEMMA FitsKept ==
  ASSUME NEW d \in Sessions, NEW row \in Rows, Fits(row, d), resolved \subseteq resolved',
         \A e \in Sessions : e < d => rows'[e] = rows[e]
  PROVE  Fits(row, d)'
<1>1. \A e \in Sessions : e < d => (Moved(e)' <=> Moved(e))
  BY DEF Moved
<1>2. MovedBefore(d)' = MovedBefore(d)
  BY <1>1 DEF MovedBefore
<1>3. Latest(d)' = Latest(d)
  BY <1>2 DEF Latest
<1>4. RebalanceDue(d)' <=> RebalanceDue(d)
  <2>1. \A e \in MovedBefore(d) : rows'[e] = rows[e]
    BY DEF MovedBefore
  <2> QED BY <1>2, <2>1 DEF RebalanceDue
<1>5. \A e \in 1..(d - 1) : rows'[e] = rows[e]
  BY SessionsAssumption DEF Sessions
<1>6. Seen(d)' = Seen(d)
  BY <1>5 DEF Seen
<1>7. Breaks(d)' = Breaks(d)
  BY <1>5 DEF Breaks, BreakKey
<1>8. Unresolved(d)' = {}
  <2>1. Unresolved(d) = {}
    BY DEF Fits
  <2> QED BY <1>6, <1>7, <2>1 DEF Unresolved, Escalated
<1>9. \A o \in row.fills : rows'[Latest(d)] = rows[Latest(d)]
  <2>1. \A o \in row.fills : o.decided \in Sessions /\ o.decided = Latest(d)
    BY DEF Rows, Orders, Fits
  <2> QED BY <2>1, LatestIs DEF MovedBefore, Sessions
<1> QED BY <1>3, <1>4, <1>6, <1>8, <1>9 DEF Fits

\* Whatever is restored of an earlier session's orders is due at once, as that session staged it.
LEMMA RestoredDue ==
  ASSUME Ledger, Fitting, NEW d \in Sessions, NEW o \in Restored(d).staged
  PROVE  /\ o.target = d /\ o.decided = Latest(d) /\ Latest(d) \in Sessions
         /\ o \in rows[Latest(d)].orders
<1> DEFINE last == Latest(d)
<1>1. last \in Sessions /\ o \in rows[last].staged /\ o.target >= d
  BY RestoredIs
<1>2. last \in MovedBefore(d)
  BY <1>1, LatestIs DEF Sessions
<1>3. Fits(rows[last], last)
  BY <1>1, <1>2 DEF Fitting, Entry, MovedBefore, Ledger, Recorded
<1>4. o \in rows[last].orders /\ o.decided = last /\ o.target = last + 1
  BY <1>1, <1>3 DEF Fits
<1> QED BY <1>1, <1>2, <1>4 DEF MovedBefore, Sessions

\* So what was booked onto it leaves nothing staged but what is due now.
LEMMA ReadyDue ==
  ASSUME Ledger, Fitting, NEW d \in Sessions, NEW ready \in From(Restored(d), d),
         NEW o \in ready.staged
  PROVE  /\ o.target = d /\ o.decided = Latest(d)
         /\ \E placed \in rows[Latest(d)].orders : placed.side = o.side /\ placed.target = d
<1>1. PICK p \in Restored(d).staged :
        o.decided = p.decided /\ o.target = p.target /\ o.side = p.side
  BY DEF From
<1> QED BY <1>1, RestoredDue

\* What a run decides owes all it should to the ledger it has read.
LEMMA ExecutedFits ==
  ASSUME Ledger, Fitting, NEW r \in Runs, NEW row, Executed(r, row),
         NEW d, d = run[r].session
  PROVE  Fits(row, d)
<1> DEFINE ready == Booked(Restored(d), d)
<1>1. d \in Sessions /\ ready \in From(Restored(d), d)
  BY DEF Executed
<1>2. /\ row.outcome \in {"COMPLETED", "RECON_BREAK"}
      /\ row.from = Latest(d) /\ row.seen = ready.seen /\ row.fills \subseteq Due(ready, d)
      /\ row.outcome = "COMPLETED" =>
           row.broker = row.expected /\ (row.rebalanced <=> RebalanceDue(d))
      /\ row.staged \subseteq (ready.staged \ Due(ready, d)) \cup row.orders
      /\ \A o \in row.orders : o.decided = d /\ o.target = d + 1
      /\ Unresolved(d) = {}
  BY DEF Executed, Held
<1>3. row.staged \subseteq row.orders
  <2>1. \A o \in ready.staged : o \in Due(ready, d)
    BY <1>1, ReadyDue DEF Due
  <2> QED BY <1>2, <2>1
<1>4. \A o \in row.fills : /\ o.target = d /\ o.decided = Latest(d)
                           /\ \E placed \in rows[Latest(d)].orders :
                                placed.side = o.side /\ placed.target = d
  <2>1. \A o \in row.fills : o \in ready.staged
    BY <1>2 DEF Due
  <2> QED BY <1>1, <2>1, ReadyDue
<1>5. ASSUME NEW s \in row.seen, NEW t \in Seen(d)
      PROVE  /\ s.action # t.action
             /\ s.action.id = t.action.id /\ t.held => s.status = "ESCALATED"
  <2>1. /\ s.action \in Changed(d) \cup Fresh(d)
        /\ \A u \in OfIdentity(s.action, d) : u.held => s.status = "ESCALATED"
    BY <1>1, <1>2, <1>5 DEF From
  <2>2. s.action # t.action
    BY <1>5, <2>1 DEF Changed, Fresh, OfIdentity
  <2> QED BY <1>5, <2>1, <2>2 DEF OfIdentity
<1> QED BY <1>2, <1>3, <1>4, <1>5 DEF Fits

\* A row decided, or about to be, after a step was so before it, or its run has just executed;
\* and the sessions before it stand.
LEMMA EntryStep ==
  ASSUME Shape, Typed, Chained, [Next]_vars, NEW d \in Sessions, NEW row \in Rows,
         Entry(d, row)'
  PROVE  /\ Entry(d, row) \/ \E r \in Runs : run[r].session = d /\ Executed(r, row)
         /\ \A e \in Sessions : e < d => rows'[e] = rows[e]
<1>0. Ledger
  BY DEF Typed, Ledger
<1>1. ASSUME rows' = rows, NEW r \in Runs, run'[r].phase # "writing" \/ run'[r] = run[r],
             \A q \in Runs : q # r => run'[q] = run[q]
      PROVE  Entry(d, row)
  BY <1>1 DEF Entry, Moved
<1>2. ASSUME NEW r \in Runs, run' = [run EXCEPT ![r] = Idle], rows' = rows
      PROVE  Entry(d, row)
  BY <1>1, <1>2, IdleIs
<1>3. ASSUME NEW r \in Runs, NEW e \in Sessions, Start(r, e)
      PROVE  Entry(d, row) /\ rows' = rows
  BY <1>1, <1>3, StartIs
<1>4. ASSUME NEW r \in Runs, Skip(r) PROVE Entry(d, row) /\ rows' = rows
  <2>1. CASE run' = [run EXCEPT ![r] = Idle]
    BY <1>2, <1>4, <2>1, SkipIs
  <2>2. CASE Write(r, SkippedRow)
    <3>1. run'[r].row = SkippedRow /\ rows' = rows /\ \A q \in Runs : q # r => run'[q] = run[q]
      BY <1>4, <2>2, WriteIs, SkipIs
    <3> QED BY <3>1 DEF Entry, Moved
  <2> QED BY <1>4, <2>1, <2>2, SkipIs
<1>5. ASSUME NEW r \in Runs, Execute(r)
      PROVE  /\ Entry(d, row) \/ (run[r].session = d /\ Executed(r, row))
             /\ rows' = rows
  <2>1. PICK new : Executed(r, new)
    BY <1>0, <1>5, ExecuteIs DEF Typed
  <2>2. /\ run'[r].row = new /\ run'[r].session = run[r].session
        /\ \A q \in Runs : q # r => run'[q] = run[q]
        /\ rows' = rows
    BY <2>1, WriteIs DEF Executed
  <2>3. CASE ~Entry(d, row)
    <3>1. new = row /\ d = run[r].session
      BY <2>2, <2>3 DEF Entry, Moved
    <3> QED BY <2>1, <2>2, <3>1
  <2> QED BY <2>2, <2>3
<1>6. ASSUME NEW r \in Runs, Commit(r)
      PROVE  Entry(d, row) /\ \A e \in Sessions : e < d => rows'[e] = rows[e]
  <2>1. run'[r].phase = "idle" /\ \A q \in Runs : q # r => run'[q] = run[q]
    BY <1>6, IdleIs DEF Commit
  <2>2. CASE rows' = rows
    BY <1>1, <2>1, <2>2
  <2>3. CASE rows' # rows
    <3> DEFINE e == run[r].session
    <3>1. /\ run[r].phase = "writing" /\ e \in Sessions /\ ~Moved(e)
          /\ rows'[e] = run[r].row /\ \A f \in Sessions : f # e => rows'[f] = rows[f]
      BY <1>6, <2>3, CommitLedger
    <3>2. ~Refused(e)
      BY <3>1 DEF Chained
    <3>3. \A q \in Runs : run'[q].phase = "idle"
      BY <2>1, <3>1 DEF Chained
    <3>4. Moved(d)' /\ rows'[d] = row
      BY <3>3 DEF Entry
    <3>5. ~(d > e) /\ Entry(d, row)
      <4>1. CASE d = e
        <5>1. rows'[e].outcome # "SKIPPED_DATA_RED"
          BY <3>4, <4>1 DEF Moved
        <5>2. run[r].row # SkippedRow
          BY <3>1, <5>1, EmptyRows
        <5> QED BY <3>1, <3>4, <4>1, <5>2 DEF Entry, Sessions
      <4>2. CASE d # e
        BY <3>1, <3>2, <3>4, <4>2 DEF Entry, Moved, Refused
      <4> QED BY <4>1, <4>2
    <3>6. \A f \in Sessions : f < d => rows'[f] = rows[f]
      BY <3>1, <3>5 DEF Sessions
    <3> QED BY <3>5, <3>6
  <2> QED BY <2>2, <2>3
<1>7. ASSUME NEW r \in Runs, Stop(r) \/ Fail(r) PROVE Entry(d, row) /\ rows' = rows
  BY <1>2, <1>7 DEF Stop, Fail
<1>8. CASE Around
  <2>1. rows' = rows /\ run' = run
    BY <1>8, AroundIs
  <2>2. Entry(d, row)
    BY <2>1 DEF Entry, Moved
  <2> QED BY <2>1, <2>2
<1> QED BY <1>3, <1>4, <1>5, <1>6, <1>7, <1>8, StepIs

\* Every step keeps the rows and the runs fitting.
LEMMA FittingStep ==
  ASSUME Shape, Typed, Chained, Fitting, [Next]_vars
  PROVE  Fitting'
<1> SUFFICES ASSUME NEW d \in Sessions, NEW row \in Rows, Entry(d, row)' PROVE Fits(row, d)'
  BY DEF Fitting
<1>1. Ledger
  BY DEF Typed, Ledger
<1>2. resolved \subseteq resolved'
  BY DEF Next, RunStep, vars, Start, Stop, Skip, Execute, Commit, Fail, Advance, Learn,
         TripByHand, Reset, Resolve
<1>3. Fits(row, d)
  <2>1. CASE Entry(d, row)
    BY <2>1 DEF Fitting
  <2>2. ASSUME NEW r \in Runs, run[r].session = d, Executed(r, row) PROVE Fits(row, d)
    BY <1>1, <2>2, ExecutedFits
  <2> QED BY <2>1, <2>2, EntryStep
<1>4. \A e \in Sessions : e < d => rows'[e] = rows[e]
  BY EntryStep
<1> QED BY <1>2, <1>3, <1>4, FitsKept

\* A new book owes nothing yet.
LEMMA InitFitting == Init => Chained /\ Fitting
<1> SUFFICES ASSUME Init PROVE Chained /\ Fitting
  OBVIOUS
<1>1. \A d \in Sessions : ~Moved(d)
  BY EmptyRows DEF Init, Moved
<1>2. \A r \in Runs : run[r].phase = "idle"
  BY DEF Init, Idle
<1> QED BY <1>1, <1>2 DEF Chained, DecisionsChain, Fitting, Entry

\* What the proofs of a lone book rest on.
Alone == Shape /\ Typed /\ Chained /\ Fitting

\* So all three hold of every ledger whose runs do not overlap.
LEMMA AloneAlways ==
  ASSUME ~Concurrent
  PROVE  Spec => []Alone
<1>1. Shape /\ Typed /\ Chained /\ Fitting /\ [Next]_vars => Chained' /\ Fitting'
  BY ChainedStep, FittingStep
<1>2. Shape /\ Typed /\ Chained /\ Fitting => Alone
  BY DEF Alone
<1> QED BY <1>1, <1>2, InitFitting, ShapeAlways, TypedAlways, PTL DEF Spec

\* A row of the ledger is one the table accepts, and a decided one fits; any other carries nothing.
LEMMA RowIs ==
  ASSUME Alone, NEW d \in Sessions
  PROVE  /\ rows[d] \in Rows
         /\ Moved(d) => Fits(rows[d], d)
         /\ ~Moved(d) => rows[d].fills = {} /\ rows[d].staged = {} /\ rows[d].seen = {}
<1>1. Recorded(rows[d])
  BY DEF Alone, Typed
<1>2. NoRow.fills = {} /\ NoRow.staged = {} /\ NoRow.seen = {}
  BY DEF NoRow
<1>3. SkippedRow.fills = {} /\ SkippedRow.staged = {} /\ SkippedRow.seen = {}
  BY DEF SkippedRow, NoRow
<1>4. ~Moved(d) => rows[d] = NoRow \/ rows[d] = SkippedRow
  BY <1>1 DEF Recorded, Moved, Rows
<1> QED BY <1>1, <1>2, <1>3, <1>4 DEF Alone, Recorded, Fitting, Entry

\* An order fills on its target session only, straight after the session that placed it: what a
\* red day, a halt or a missed run came between has lapsed.
THEOREM OrdersFillOnTarget ==
  ASSUME ~Concurrent
  PROVE  Spec => []FilledOnTarget
<1>1. Alone => FilledOnTarget
  <2> SUFFICES ASSUME Alone, NEW d \in Sessions, NEW o \in rows[d].fills
               PROVE  /\ o.target = d /\ o.decided = rows[d].from
                      /\ \E placed \in rows[o.decided].orders :
                           placed.side = o.side /\ placed.target = d
    BY DEF FilledOnTarget
  <2>1. Fits(rows[d], d)
    BY RowIs
  <2> QED BY <2>1 DEF Fits
<1> QED BY <1>1, AloneAlways, PTL

\* A decided session leaves staged only what it placed itself, for the next.
THEOREM NoStaleOrder ==
  ASSUME ~Concurrent
  PROVE  Spec => []NothingStale
<1>1. Alone => NothingStale
  <2> SUFFICES ASSUME Alone, NEW d \in Sessions, NEW o \in rows[d].staged PROVE o.target > d
    BY DEF NothingStale
  <2>1. Fits(rows[d], d)
    BY RowIs
  <2>2. o.target = d + 1
    BY <2>1 DEF Fits
  <2> QED BY <2>2 DEF Sessions
<1> QED BY <1>1, AloneAlways, PTL

\* Each corporate action, under each of its terms, is acted on once.
THEOREM ActionsSeenOnce ==
  ASSUME ~Concurrent
  PROVE  Spec => []SeenOnce
<1>1. ASSUME Alone, NEW d \in Sessions, NEW e \in Sessions, e < d,
             NEW s \in rows[d].seen, NEW t \in rows[e].seen
      PROVE  s.action # t.action
  <2>1. Fits(rows[d], d)
    BY <1>1, RowIs
  <2>2. t \in Seen(d)
    BY <1>1 DEF Seen, Sessions
  <2> QED BY <2>1, <2>2 DEF Fits
<1>2. Alone => SeenOnce
  <2> SUFFICES ASSUME Alone, NEW d \in Sessions, NEW e \in Sessions, d # e,
                      NEW s \in rows[d].seen, NEW t \in rows[e].seen
               PROVE  s.action # t.action
    BY DEF SeenOnce
  <2>1. d < e \/ e < d
    BY DEF Sessions
  <2> QED BY <1>1, <2>1
<1> QED BY <1>2, AloneAlways, PTL

\* Later terms of an action a held name was credited or rescaled under are escalated, never
\* booked again.
THEOREM LaterTermsEscalate ==
  ASSUME ~Concurrent
  PROVE  Spec => []CorrectionsEscalate
<1>1. Alone => CorrectionsEscalate
  <2> SUFFICES ASSUME Alone, NEW d \in Sessions, NEW e \in Sessions,
                      NEW s \in rows[d].seen, NEW t \in rows[e].seen,
                      e < d, s.action.id = t.action.id, t.held
               PROVE  s.status = "ESCALATED"
    BY DEF CorrectionsEscalate
  <2>1. Fits(rows[d], d)
    BY RowIs
  <2>2. t \in Seen(d)
    BY DEF Seen, Sessions
  <2> QED BY <2>1, <2>2 DEF Fits
<1> QED BY <1>1, AloneAlways, PTL

\* No session is decided over a break or an escalation the owner has not resolved.
THEOREM DecidedOverNothingUnresolved ==
  ASSUME ~Concurrent
  PROVE  Spec => []NothingDecidedOverTheUnresolved
<1>1. Alone => NothingDecidedOverTheUnresolved
  <2> SUFFICES ASSUME Alone, NEW d \in Sessions, NEW e \in Sessions, Moved(d), e < d
               PROVE  /\ rows[e].outcome = "RECON_BREAK" => BreakKey(e) \in resolved
                      /\ \A s \in rows[e].seen : s.status = "ESCALATED" => s.action \in resolved
    BY DEF NothingDecidedOverTheUnresolved
  <2>1. Unresolved(d) = {}
    BY RowIs DEF Fits
  <2>2. e \in 1..(d - 1)
    BY DEF Sessions
  <2>3. rows[e].outcome = "RECON_BREAK" => BreakKey(e) \in Breaks(d)
    BY <2>2 DEF Breaks
  <2>4. ASSUME NEW s \in rows[e].seen, s.status = "ESCALATED" PROVE s.action \in Escalated(d)
    BY <2>2, <2>4 DEF Escalated, Seen
  <2> QED BY <2>1, <2>3, <2>4 DEF Unresolved
<1> QED BY <1>1, AloneAlways, PTL

\* The rebalance of a month is made by the first session of it the book decides cleanly.
THEOREM MonthRebalancedFirst ==
  ASSUME ~Concurrent
  PROVE  Spec => []RebalancedFirst
<1>1. ASSUME Alone, NEW d \in Sessions, rows[d].outcome = "COMPLETED"
      PROVE  rows[d].rebalanced <=> RebalanceDue(d)
  BY <1>1, RowIs DEF Fits, Moved
<1>2. ASSUME Alone, NEW d \in Sessions, ~(OpensParked /\ Month[d] = Month[FirstSession]),
             \A e \in 1..(d - 1) : Month[e] = Month[d] => rows[e].outcome # "COMPLETED"
      PROVE  RebalanceDue(d)
  <2> SUFFICES ASSUME NEW e \in MovedBefore(d), rows[e].rebalanced, Month[e] = Month[d]
               PROVE  FALSE
    BY <1>2 DEF RebalanceDue
  <2>1. e \in Sessions /\ e \in 1..(d - 1) /\ rows[e].outcome \in {"COMPLETED", "RECON_BREAK"}
    BY DEF MovedBefore, Moved, Sessions
  <2>2. rows[e].outcome = "RECON_BREAK"
    BY <1>2, <2>1
  <2> QED BY <1>2, <2>1, <2>2 DEF Alone, Typed, Recorded
<1>3. ASSUME Alone, NEW d \in Sessions, RebalanceDue(d),
             NEW e \in 1..(d - 1), Month[e] = Month[d], rows[e].outcome = "COMPLETED"
      PROVE  FALSE
  <2> DEFINE T == {f \in 1..(d - 1) : Month[f] = Month[d] /\ rows[f].outcome = "COMPLETED"}
  <2>1. PICK f \in T : \A g \in T : f <= g
    <3>1. T \subseteq Nat /\ T # {}
      BY <1>3 DEF Sessions
    <3> HIDE DEF T
    <3> QED BY <3>1, LeastNat
  <2>2. f \in Sessions /\ f < d
    BY <1>3, <2>1, SessionsAssumption DEF Sessions
  <2>3. ~(OpensParked /\ Month[f] = Month[FirstSession])
    BY <1>3 DEF RebalanceDue
  <2>4. RebalanceDue(f)
    <3>1. \A g \in 1..(f - 1) : Month[g] = Month[f] => rows[g].outcome # "COMPLETED"
      BY <2>1, <2>2 DEF Sessions
    <3> QED BY <1>2, <1>3, <2>2, <2>3, <3>1
  <2>5. rows[f].rebalanced
    BY <1>1, <1>3, <2>2, <2>4
  <2> QED BY <1>3, <2>2, <2>5 DEF RebalanceDue, MovedBefore, Moved
<1>4. Alone => RebalancedFirst
  <2> SUFFICES ASSUME Alone, NEW d \in Sessions, rows[d].outcome = "COMPLETED"
               PROVE  rows[d].rebalanced <=>
                        /\ \A e \in 1..(d - 1) : Month[e] = Month[d]
                                                => rows[e].outcome # "COMPLETED"
                        /\ ~(OpensParked /\ Month[d] = Month[FirstSession])
    BY DEF RebalancedFirst
  <2>1. RebalanceDue(d) => ~(OpensParked /\ Month[d] = Month[FirstSession])
    BY DEF RebalanceDue
  <2> QED BY <1>1, <1>2, <1>3, <2>1
<1> QED BY <1>4, AloneAlways, PTL

-----------------------------------------------------------------------------
(* The halt, the journal and the breaks of a lone book *)

\* The run that takes a step is the only one under way.
LEMMA OthersIdle ==
  ASSUME Alone, NEW r \in Runs, run[r].phase # "idle"
  PROVE  \A q \in Runs : q # r => run[q].phase = "idle"
BY DEF Alone, Chained

\* A break trips the switch in the step that finds it, and a run reads the switch before it
\* decides: what has decided cleanly decided before any break.
LEMMA HaltingStep ==
  ASSUME Alone, Halting, [Next]_vars, ~Concurrent
  PROVE  Halting'
<1>0. Shape /\ Ledger /\ IsFiniteSet(known) /\ known \subseteq Actions
  BY DEF Alone, Typed, Ledger
<1>1. ASSUME NEW r \in Runs, NEW d \in Sessions, Start(r, d) PROVE Halting'
  BY <1>0, <1>1, StartIs DEF Halting
<1>2. ASSUME NEW r \in Runs, run' = [run EXCEPT ![r] = Idle],
             UNCHANGED <<switch, broken>>
      PROVE  Halting'
  <2>1. run'[r].phase = "idle" /\ \A q \in Runs : q # r => run'[q] = run[q]
    BY <1>0, <1>2, IdleIs
  <2> QED BY <1>2, <2>1 DEF Halting
<1>3. ASSUME NEW r \in Runs, Skip(r) PROVE Halting'
  <2>1. CASE run' = [run EXCEPT ![r] = Idle]
    BY <1>2, <1>3, <2>1, SkipIs
  <2>2. CASE Write(r, SkippedRow)
    <3>1. /\ run'[r].phase = "writing" /\ run'[r].row.outcome = "SKIPPED_DATA_RED"
          /\ \A q \in Runs : q # r => run'[q] = run[q]
      BY <1>0, <2>2, WriteIs, EmptyRows
    <3> QED BY <1>3, <3>1, SkipIs DEF Halting
  <2> QED BY <1>3, <2>1, <2>2, SkipIs
<1>4. ASSUME NEW r \in Runs, Execute(r) PROVE Halting'
  <2>1. PICK row : Executed(r, row)
    BY <1>0, <1>4, ExecuteIs
  <2>2. /\ run'[r].phase = "writing" /\ run'[r].row = row
        /\ \A q \in Runs : q # r => run'[q] = run[q]
    BY <1>0, <2>1, WriteIs DEF Executed
  <2>3. run[r].phase = "started" /\ ~run[r].halted
    BY <2>1 DEF Executed, MayDecide, Held
  <2>4. ~broken
    BY <2>3 DEF Halting
  <2>5. \A q \in Runs : q # r => run'[q].phase = "idle"
    BY <2>2, <2>3, OthersIdle
  <2>6. (broken' => switch') /\ (row.outcome = "COMPLETED" => ~broken')
    BY <2>1, <2>4 DEF Executed
  <2> QED BY <2>2, <2>5, <2>6 DEF Halting
<1>5. ASSUME NEW r \in Runs, Commit(r) \/ Stop(r) \/ Fail(r) PROVE Halting'
  BY <1>2, <1>5 DEF Commit, Stop, Fail
<1>6. CASE Around
  <2>1. run' = run
    BY <1>6, AroundIs
  <2>2. /\ broken' => broken /\ switch'
    BY <1>6 DEF Around, Advance, TripByHand, Reset, Learn, Resolve, vars, Halting
  <2> QED BY <2>1, <2>2 DEF Halting
<1> QED BY <1>1, <1>3, <1>4, <1>5, <1>6, StepIs

\* Once a reconciliation has broken no session completes until the switch is reset by hand,
\* though the run that found the break may have died before it recorded it.
THEOREM BreakHoldsTheBook ==
  ASSUME ~Concurrent
  PROVE  Spec => BreakHalts
<1>1. Init => Halting
  BY DEF Init, Halting, Idle
<1>2. Alone /\ Halting /\ [Next]_vars => Halting'
  BY HaltingStep
<1>3. Alone /\ Halting /\ [Next]_vars =>
        [\A d \in Sessions : rows'[d] # rows[d] /\ rows'[d].outcome = "COMPLETED" => ~broken]_vars
  <2> SUFFICES ASSUME Alone, Halting, [Next]_vars, NEW d \in Sessions, rows'[d] # rows[d],
                      rows'[d].outcome = "COMPLETED"
               PROVE  ~broken
    OBVIOUS
  <2>1. PICK r \in Runs : Commit(r)
    BY LedgerChanged
  <2>2. run[r].phase = "writing" /\ rows'[d] = run[r].row
    BY <2>1, CommitLedger DEF Alone
  <2> QED BY <2>2 DEF Halting
<1> QED BY <1>1, <1>2, <1>3, AloneAlways, PTL DEF Spec, BreakHalts

\* A session is journaled in the transaction that writes its skipped row, and a run that finds
\* the row there journals nothing.
LEMMA JournaledStep ==
  ASSUME Alone, Journaled, [Next]_vars, ~Concurrent
  PROVE  Journaled'
<1>0. Shape /\ Ledger /\ IsFiniteSet(known) /\ known \subseteq Actions
  BY DEF Alone, Typed, Ledger
<1>1. ASSUME UNCHANGED <<rows, skips>>, NEW r \in Runs,
             run'[r].phase # "writing" \/ run'[r].row # SkippedRow \/ run'[r] = run[r],
             \A q \in Runs : q # r => run'[q] = run[q]
      PROVE  Journaled'
  BY <1>1 DEF Journaled
<1>2. ASSUME NEW r \in Runs, NEW d \in Sessions, Start(r, d) PROVE Journaled'
  BY <1>0, <1>1, <1>2, StartIs
<1>3. ASSUME NEW r \in Runs, run' = [run EXCEPT ![r] = Idle], UNCHANGED <<rows, skips>>
      PROVE  Journaled'
  BY <1>0, <1>1, <1>3, IdleIs
<1>4. ASSUME NEW r \in Runs, Skip(r) PROVE Journaled'
  <2>1. CASE run' = [run EXCEPT ![r] = Idle]
    BY <1>3, <1>4, <2>1, SkipIs
  <2>2. CASE Write(r, SkippedRow) /\ ~StillRed(run[r].session)
    <3>1. /\ run'[r].session = run[r].session
          /\ \A q \in Runs : q # r => run'[q] = run[q]
      BY <1>0, <2>2, WriteIs
    <3>2. rows[run[r].session].outcome # "SKIPPED_DATA_RED"
      BY <2>2 DEF StillRed
    <3> QED BY <1>4, <3>1, <3>2, SkipIs DEF Journaled
  <2> QED BY <1>4, <2>1, <2>2, SkipIs
<1>5. ASSUME NEW r \in Runs, Execute(r) PROVE Journaled'
  <2>1. PICK row : Executed(r, row)
    BY <1>0, <1>5, ExecuteIs
  <2>2. run'[r].row = row /\ \A q \in Runs : q # r => run'[q] = run[q]
    BY <1>0, <2>1, WriteIs DEF Executed
  <2>3. row # SkippedRow /\ UNCHANGED <<rows, skips>>
    BY <2>1, EmptyRows DEF Executed
  <2> QED BY <1>1, <2>2, <2>3
<1>6. ASSUME NEW r \in Runs, Commit(r) PROVE Journaled'
  <2> DEFINE d == run[r].session
             row == run[r].row
  <2>1. /\ run' = [run EXCEPT ![r] = Idle] /\ run[r].phase = "writing" /\ d \in Sessions
    BY <1>6 DEF Commit, Alone, Shape
  <2>2. CASE ~Recordable(d)
    BY <1>3, <1>6, <2>1, <2>2 DEF Commit
  <2>3. CASE Recordable(d)
    <3>1. /\ rows' = [rows EXCEPT ![d] = row]
          /\ skips' = IF row = SkippedRow THEN [skips EXCEPT ![d] = @ + 1] ELSE skips
      BY <1>6, <2>3 DEF Commit
    <3>2. rows'[d] = row /\ \A e \in Sessions : e # d => rows'[e] = rows[e]
      BY <2>1, <3>1, <1>0 DEF Shape
    <3>3. row.outcome # "NONE"
      BY <2>1 DEF Alone, Typed
    <3>4. ~Moved(d)
      BY <2>3 DEF Recordable
    <3>5. row = SkippedRow => rows[d].outcome = "NONE"
      <4>1. row = SkippedRow => rows[d].outcome # "SKIPPED_DATA_RED"
        BY <2>1 DEF Journaled
      <4>2. rows[d].outcome \in {"NONE", "SKIPPED_DATA_RED", "COMPLETED", "RECON_BREAK"}
        BY <2>1 DEF Alone, Typed, Recorded, Rows
      <4> QED BY <3>4, <4>1, <4>2 DEF Moved
    <3>6. skips \in [Sessions -> Nat]
      BY DEF Alone, Typed
    <3>7. \A e \in Sessions : skips'[e] <= 1 /\ (skips'[e] = 1 => rows'[e].outcome # "NONE")
      <4> SUFFICES ASSUME NEW e \in Sessions
                   PROVE  skips'[e] <= 1 /\ (skips'[e] = 1 => rows'[e].outcome # "NONE")
        OBVIOUS
      <4>1. skips[e] <= 1 /\ (skips[e] = 1 => rows[e].outcome # "NONE") /\ skips[e] \in Nat
        BY <3>6 DEF Journaled
      <4>2. CASE e # d
        BY <3>1, <3>2, <3>6, <4>1, <4>2
      <4>3. CASE e = d
        BY <3>1, <3>2, <3>3, <3>5, <3>6, <4>1, <4>3
      <4> QED BY <4>2, <4>3
    <3>8. run'[r].phase = "idle" /\ \A q \in Runs : q # r => run'[q].phase = "idle"
      BY <1>0, <2>1, IdleIs, OthersIdle
    <3> QED BY <3>7, <3>8 DEF Journaled
  <2> QED BY <2>2, <2>3
<1>7. ASSUME NEW r \in Runs, Stop(r) \/ Fail(r) PROVE Journaled'
  BY <1>3, <1>7 DEF Stop, Fail
<1>8. CASE Around
  BY <1>8, AroundIs DEF Journaled
<1> QED BY <1>2, <1>4, <1>5, <1>6, <1>7, <1>8, StepIs

\* A red date is journaled once however often it is rerun, and whenever its runs die.
THEOREM SkipsJournaledOnce ==
  ASSUME ~Concurrent
  PROVE  Spec => []SkipJournaledOnce
<1>1. Init => Journaled
  BY DEF Init, Journaled, Idle
<1>2. Alone /\ Journaled /\ [Next]_vars => Journaled'
  BY JournaledStep
<1>3. Journaled => SkipJournaledOnce
  BY DEF Journaled, SkipJournaledOnce
<1> QED BY <1>1, <1>2, <1>3, AloneAlways, PTL DEF Spec

\* The two sides a run restores are one: a completed row is of one, and after a break the
\* accounting side is taken from the broker's.
LEMMA RestoredBalances ==
  ASSUME Alone, NEW d \in Sessions
  PROVE  Restored(d).broker = Restored(d).expected
<1> DEFINE last == Latest(d)
<1>1. Ledger
  BY DEF Alone, Typed, Ledger
<1>2. Restored(d).expected = Expected(d)
      /\ Restored(d).broker = IF last = 0 THEN Empty ELSE rows[last].broker
  BY <1>1, RestoredIs
<1>3. CASE last = 0
  BY <1>2, <1>3 DEF Expected, ExpectedOfLast
<1>4. CASE last # 0
  <2>1. last \in Sessions /\ Moved(last) /\ last > 0
    BY <1>4, LatestIs DEF MovedBefore, Sessions
  <2>2. rows[last].outcome = "COMPLETED" => rows[last].broker = rows[last].expected
    BY <2>1, RowIs DEF Fits
  <2> QED BY <1>2, <1>4, <2>1, <2>2 DEF Expected, ExpectedOfLast, Moved
<1> QED BY <1>3, <1>4

\* Every break, recorded or about to be, is owed to a slip of its own.
LEMMA SlippedStep ==
  ASSUME Alone, Slipped, [Next]_vars, ~Concurrent
  PROVE  Slipped'
<1>0. Shape /\ Ledger /\ IsFiniteSet(known) /\ known \subseteq Actions
  BY DEF Alone, Typed, Ledger
<1>1. Cardinality(BrokenRows) \in Nat /\ IsFiniteSet(BrokenRows)
  <2>1. BrokenRows \in SUBSET (1..LastSession) /\ IsFiniteSet(1..LastSession)
    BY FS_Interval, SessionsAssumption DEF BrokenRows, Sessions
  <2>2. IsFiniteSet(BrokenRows)
    BY <2>1, FS_Subset
  <2> QED BY <2>2, FS_CardinalityType
<1>2. used["slips"] \in Nat
  BY DEF Alone, Typed
<1>3. \A bound : \A what \in {"reds", "trips", "slips", "fails"} :
        Use(what, bound) => used'["slips"] \in Nat /\ used'["slips"] >= used["slips"]
  BY DEF Use, Alone, Typed
<1>4. ASSUME rows' = rows, used'["slips"] \in Nat, used'["slips"] >= used["slips"],
             NEW r \in Runs, \A q \in Runs : q # r => run'[q] = run[q],
             run'[r].phase # "writing" \/ run'[r].row.outcome # "RECON_BREAK" \/ run'[r] = run[r]
               \/ Cardinality(BrokenRows) + 1 <= used'["slips"]
      PROVE  Slipped'
  <2>1. BrokenRows' = BrokenRows
    BY <1>4 DEF BrokenRows
  <2>2. \A q \in Runs : run'[q].phase = "writing" /\ run'[q].row.outcome = "RECON_BREAK" =>
          Cardinality(BrokenRows) + 1 <= used'["slips"]
    BY <1>1, <1>2, <1>4 DEF Slipped
  <2>3. Cardinality(BrokenRows) <= used'["slips"]
    BY <1>1, <1>2, <1>4 DEF Slipped
  <2> QED BY <2>1, <2>2, <2>3 DEF Slipped
<1>5. ASSUME NEW r \in Runs, NEW d \in Sessions, Start(r, d) PROVE Slipped'
  BY <1>0, <1>2, <1>4, <1>5, StartIs
<1>6. ASSUME NEW r \in Runs, Skip(r) PROVE Slipped'
  <2>1. used'["slips"] = used["slips"] /\ rows' = rows
    BY <1>6, SkipIs DEF Alone, Typed
  <2>2. \A q \in Runs : q # r => run'[q] = run[q]
    BY <1>0, <1>6, SkipIs, IdleIs, WriteIs
  <2>3. run'[r].phase = "idle" \/ run'[r].row.outcome = "SKIPPED_DATA_RED"
    BY <1>0, <1>6, SkipIs, IdleIs, WriteIs, EmptyRows
  <2> QED BY <1>2, <1>4, <2>1, <2>2, <2>3
<1>7. ASSUME NEW r \in Runs, Execute(r) PROVE Slipped'
  <2> DEFINE d == run[r].session
             ready == Booked(Restored(d), d)
  <2>1. PICK row : Executed(r, row)
    BY <1>0, <1>7, ExecuteIs
  <2>2. run'[r].row = row /\ \A q \in Runs : q # r => run'[q] = run[q]
    BY <1>0, <2>1, WriteIs DEF Executed
  <2>3. ready.broker = ready.expected
    <3>1. d \in Sessions /\ ready \in From(Restored(d), d)
      BY <2>1 DEF Executed
    <3>2. Restored(d).broker = Restored(d).expected
      BY <3>1, RestoredBalances
    <3> QED BY <3>1, <3>2 DEF From
  <2>4. CASE used' = used /\ row.outcome = "COMPLETED"
    BY <1>2, <1>4, <2>1, <2>2, <2>4 DEF Executed
  <2>5. CASE used' = [used EXCEPT !["slips"] = @ + 1]
    <3>1. used'["slips"] = used["slips"] + 1
      BY <2>5 DEF Alone, Typed
    <3>2. Cardinality(BrokenRows) + 1 <= used'["slips"]
      BY <1>1, <1>2, <3>1 DEF Slipped
    <3> QED BY <1>2, <1>4, <2>1, <2>2, <3>1, <3>2 DEF Executed
  <2> QED BY <2>1, <2>3, <2>4, <2>5 DEF Executed
<1>8. ASSUME NEW r \in Runs, Commit(r) PROVE Slipped'
  <2>1. run'[r].phase = "idle" /\ (\A q \in Runs : q # r => run'[q] = run[q]) /\ used' = used
    BY <1>0, <1>8, IdleIs DEF Commit
  <2>2. CASE rows' = rows
    BY <1>2, <1>4, <2>1, <2>2
  <2>3. CASE rows' # rows
    <3> DEFINE d == run[r].session
    <3>1. /\ run[r].phase = "writing" /\ d \in Sessions /\ ~Moved(d)
          /\ rows'[d] = run[r].row /\ \A e \in Sessions : e # d => rows'[e] = rows[e]
      BY <1>0, <1>8, <2>3, CommitLedger
    <3>2. \A q \in Runs : run'[q].phase = "idle"
      BY <2>1, <3>1, OthersIdle
    <3>3. d \notin BrokenRows
      BY <3>1 DEF BrokenRows, Moved
    <3>4. CASE run[r].row.outcome = "RECON_BREAK"
      <4>1. BrokenRows' = BrokenRows \cup {d}
        BY <3>1, <3>4 DEF BrokenRows
      <4>2. Cardinality(BrokenRows \cup {d}) = Cardinality(BrokenRows) + 1
        BY <1>1, <3>3, FS_AddElement
      <4>3. Cardinality(BrokenRows) + 1 <= used["slips"]
        BY <3>1, <3>4 DEF Slipped
      <4> QED BY <2>1, <3>2, <4>1, <4>2, <4>3 DEF Slipped
    <3>5. CASE run[r].row.outcome # "RECON_BREAK"
      <4>1. BrokenRows' = BrokenRows
        BY <3>1, <3>3, <3>5 DEF BrokenRows
      <4> QED BY <2>1, <3>2, <4>1 DEF Slipped
    <3> QED BY <3>4, <3>5
  <2> QED BY <2>2, <2>3
<1>9. ASSUME NEW r \in Runs, Stop(r) \/ Fail(r) PROVE Slipped'
  <2>1. run'[r].phase = "idle" /\ (\A q \in Runs : q # r => run'[q] = run[q]) /\ rows' = rows
    BY <1>0, <1>9, IdleIs DEF Stop, Fail
  <2>2. used'["slips"] \in Nat /\ used'["slips"] >= used["slips"]
    BY <1>2, <1>3, <1>9 DEF Stop, Fail
  <2> QED BY <1>4, <2>1, <2>2
<1>10. CASE Around
  <2>1. run' = run /\ rows' = rows
    BY <1>10, AroundIs
  <2>2. used'["slips"] \in Nat /\ used'["slips"] >= used["slips"]
    BY <1>2, <1>3, <1>10 DEF Around, Advance, TripByHand, Reset, Learn, Resolve, vars
  <2>3. BrokenRows' = BrokenRows
    BY <2>1 DEF BrokenRows
  <2>4. Cardinality(BrokenRows) <= used'["slips"]
    BY <1>1, <1>2, <2>2 DEF Slipped
  <2>5. \A q \in Runs : run'[q].phase = "writing" /\ run'[q].row.outcome = "RECON_BREAK" =>
          Cardinality(BrokenRows) + 1 <= used'["slips"]
    BY <1>1, <1>2, <2>1, <2>2 DEF Slipped
  <2> QED BY <2>3, <2>4, <2>5 DEF Slipped
<1> QED BY <1>5, <1>6, <1>7, <1>8, <1>9, <1>10, StepIs

\* What a run books it books alike on both sides, and a break once found is not found again:
\* every break is owed to a posting of its own that reached one side only.
THEOREM BreaksAreSlips ==
  ASSUME ~Concurrent
  PROVE  Spec => []NoBreakOfItsOwn
<1>1. Init => Slipped
  <2> SUFFICES ASSUME Init PROVE Slipped
    OBVIOUS
  <2>1. BrokenRows = {}
    BY EmptyRows DEF Init, BrokenRows
  <2>2. Cardinality(BrokenRows) = 0
    BY <2>1, FS_EmptySet
  <2> QED BY <2>2 DEF Init, Slipped, Idle
<1>2. Alone /\ Slipped /\ [Next]_vars => Slipped'
  BY SlippedStep
<1>3. Slipped => NoBreakOfItsOwn
  BY DEF Slipped, NoBreakOfItsOwn, BrokenRows
<1> QED BY <1>1, <1>2, <1>3, AloneAlways, PTL DEF Spec

-----------------------------------------------------------------------------
(* What corporate actions credit a book with *)

\* What was held entering a date is what the latest session before it left, and a count.
LEMMA HeldEnteringIs ==
  ASSUME Ledger, NEW date
  PROVE  /\ HeldEntering(date) = IF Latest(date) = 0 THEN 0 ELSE rows[Latest(date)].broker.shares
         /\ HeldEntering(date) \in Int
<1>1. MovedBefore(date) = {} <=> Latest(date) = 0
  BY LatestIs DEF MovedBefore, Sessions
<1>2. HeldEntering(date) = IF Latest(date) = 0 THEN 0 ELSE rows[Latest(date)].broker.shares
  BY <1>1 DEF HeldEntering
<1>3. CASE Latest(date) = 0
  BY <1>2, <1>3
<1>4. CASE Latest(date) # 0
  <2>1. Latest(date) \in Sessions
    BY <1>4, LatestIs DEF MovedBefore
  <2>2. rows[Latest(date)] \in Rows
    BY <2>1 DEF Ledger, Recorded
  <2>3. rows[Latest(date)].broker.shares \in Int
    BY <2>2 DEF Rows, Sides
  <2> QED BY <1>2, <1>4, <2>3
<1> QED BY <1>2, <1>3, <1>4

\* _entitled_entering reads it.
LEMMA HeldIsEntitled ==
  ASSUME Ledger, NEW a
  PROVE  HeldEntering(ExDate[a.id]) = Entitled(a)
<1>1. PICK date : date = ExDate[a.id]
  OBVIOUS
<1>2. HeldEntering(date) = IF Latest(date) = 0 THEN 0 ELSE rows[Latest(date)].broker.shares
  BY HeldEnteringIs
<1> QED BY <1>1, <1>2 DEF Entitled

\* What is restored is what was held entering any date since the latest decided session.
LEMMA HeldRestored ==
  ASSUME Ledger, NEW d \in Sessions, NEW date \in Sessions, date <= d, date > Latest(d)
  PROVE  Restored(d).broker.shares = HeldEntering(date)
<1>1. MovedBefore(date) = MovedBefore(d)
  <2>1. \A e \in MovedBefore(d) : e \in Sessions /\ e <= Latest(d)
    BY LatestIs DEF MovedBefore
  <2>2. Latest(d) \in Int /\ \A e \in Sessions : e \in Int
    BY LatestIs DEF Sessions
  <2>3. ASSUME NEW e \in Sessions PROVE e < date /\ Moved(e) <=> e < d /\ Moved(e)
    <3>1. e < d /\ Moved(e) => e <= Latest(d)
      BY <2>1 DEF MovedBefore
    <3>2. e \in Int /\ d \in Int /\ date \in Int
      BY <2>2
    <3> QED BY <2>2, <3>1, <3>2
  <2> QED BY <2>3 DEF MovedBefore
<1>2. Latest(date) = Latest(d)
  BY <1>1 DEF Latest
<1>3. HeldEntering(date) = IF Latest(d) = 0 THEN 0 ELSE rows[Latest(d)].broker.shares
  BY <1>2, HeldEnteringIs
<1>4. Restored(d).broker = IF Latest(d) = 0 THEN Empty ELSE rows[Latest(d)].broker
  BY RestoredIs
<1> QED BY <1>3, <1>4 DEF Empty

\* An applied action was seen, on a held name.
LEMMA AppliedIs ==
  ASSUME NEW seen, seen \subseteq Sightings, IsFiniteSet(seen), NEW kind
  PROVE  /\ Applied(seen, kind) \subseteq seen /\ IsFiniteSet(Applied(seen, kind))
         /\ \A s \in Applied(seen, kind) :
              /\ s.action \in Actions /\ s.action.id \in Ids /\ s.action.terms \in Nat
              /\ ExDate[s.action.id] \in Sessions /\ Kind[s.action.id] = kind
<1>1. Applied(seen, kind) \in SUBSET seen
  BY DEF Applied
<1>2. IsFiniteSet(Applied(seen, kind))
  BY <1>1, FS_Subset
<1>3. ASSUME NEW s \in Applied(seen, kind)
      PROVE  /\ s.action \in Actions /\ s.action.id \in Ids /\ s.action.terms \in Nat
             /\ ExDate[s.action.id] \in Sessions /\ Kind[s.action.id] = kind
  <2>1. s \in Sightings /\ Kind[s.action.id] = kind
    BY DEF Applied
  <2>2. s.action \in Actions
    BY <2>1 DEF Sightings
  <2>3. s.action.id \in Ids /\ s.action.terms \in Terms
    BY <2>2 DEF Actions
  <2>4. Terms \subseteq Nat /\ ExDate \in [Ids -> Sessions]
    BY TermsAssumption, IdsAssumption
  <2> QED BY <2>1, <2>2, <2>3, <2>4
<1> QED BY <1>1, <1>2, <1>3

\* What each dividend pays.
Amounts(seen, from) ==
  [s \in Applied(seen, "dividend") |->
     s.action.terms * SharesEntitled(ExDate[s.action.id], seen, from)]

\* The sum of it is what the book is entitled to.
LEMMA EntitledToIs ==
  ASSUME NEW seen, NEW from
  PROVE  EntitledTo(seen, from) = SumOf(Amounts(seen, from), Applied(seen, "dividend"))
BY DEF EntitledTo, SumOf, Amounts

\* Shares after splits are a count; after none they are what they were, and after one more what
\* it makes of what they were.
LEMMA AfterSplitsIs ==
  ASSUME NEW splits, IsFiniteSet(splits), NEW n \in Int
  PROVE  /\ AfterSplits(n, splits) \in Int
         /\ n \in Nat => AfterSplits(n, splits) \in Nat
         /\ splits = {} => AfterSplits(n, splits) = n
         /\ \A t, more : t \notin splits /\ more = splits \cup {t} =>
              AfterSplits(n, more) = FloorRatio[AfterSplits(n, splits)]
<1>1. Closed(FloorRatio, Int) /\ Closed(FloorRatio, Nat)
  <2>1. \A k \in Nat : k \in Int
    OBVIOUS
  <2> QED BY <2>1, FloorRatioIs DEF Closed
<1>2. \A m, S : AfterSplits(m, S) = Repeated(FloorRatio, m, S)
  BY DEF AfterSplits, Repeated
<1> HIDE DEF AfterSplits
<1>3. AfterSplits(n, splits) \in Int /\ (splits = {} => AfterSplits(n, splits) = n)
  BY <1>1, <1>2, RepeatedUnfolds
<1>4. n \in Nat => AfterSplits(n, splits) \in Nat
  BY <1>1, <1>2, RepeatedUnfolds
<1>5. ASSUME NEW t, NEW more, t \notin splits, more = splits \cup {t}
      PROVE  AfterSplits(n, more) = FloorRatio[AfterSplits(n, splits)]
  <2>1. IsFiniteSet(more) /\ t \in more /\ splits = more \ {t}
    BY <1>5, FS_AddElement
  <2>2. Repeated(FloorRatio, n, more) = FloorRatio[Repeated(FloorRatio, n, splits)]
    BY <1>1, <2>1, RepeatedOnce
  <2> QED BY <1>2, <2>2
<1> QED BY <1>3, <1>4, <1>5

\* The shares a dividend is on are a count.
LEMMA SharesEntitledType ==
  ASSUME Ledger, NEW seen, seen \subseteq Sightings, IsFiniteSet(seen), NEW from, NEW date
  PROVE  SharesEntitled(date, seen, from) \in Int
<1>1. IsFiniteSet(SplitsBefore(seen, date))
  <2>1. SplitsBefore(seen, date) \in SUBSET Applied(seen, "rescale")
    BY DEF SplitsBefore
  <2>2. IsFiniteSet(Applied(seen, "rescale"))
    BY AppliedIs
  <2> QED BY <2>1, <2>2, FS_Subset
<1>2. HeldEntering(date) \in Int
  BY HeldEnteringIs
<1>3. AfterSplits(HeldEntering(date), SplitsBefore(seen, date)) \in Int
  BY <1>1, <1>2, AfterSplitsIs
<1> QED BY <1>2, <1>3 DEF SharesEntitled

\* And so is the sum.
LEMMA EntitledToType ==
  ASSUME Ledger, NEW seen, seen \subseteq Sightings, IsFiniteSet(seen), NEW from
  PROVE  /\ \A s \in Applied(seen, "dividend") : Amounts(seen, from)[s] \in Int
         /\ EntitledTo(seen, from) \in Int
<1>1. ASSUME NEW s \in Applied(seen, "dividend") PROVE Amounts(seen, from)[s] \in Int
  <2>1. s.action.terms \in Nat
    BY AppliedIs
  <2>2. SharesEntitled(ExDate[s.action.id], seen, from) \in Int
    BY SharesEntitledType
  <2>3. Amounts(seen, from)[s] = s.action.terms * SharesEntitled(ExDate[s.action.id], seen, from)
    BY DEF Amounts
  <2> QED BY <2>1, <2>2, <2>3
<1>2. IsFiniteSet(Applied(seen, "dividend"))
  BY AppliedIs
<1>3. SumOf(Amounts(seen, from), Applied(seen, "dividend")) \in Int
  BY <1>1, <1>2, SumUnfolds
<1> QED BY <1>1, <1>3, EntitledToIs

\* While the shares each of them was on stay the same, the dividends applied pay the same.
LEMMA SamePaid ==
  ASSUME Ledger, NEW seen, seen \subseteq Sightings, IsFiniteSet(seen), NEW from, NEW more,
         Applied(more, "dividend") = Applied(seen, "dividend"),
         \A s \in Applied(seen, "dividend") :
           SharesEntitled(ExDate[s.action.id], more, from) =
             SharesEntitled(ExDate[s.action.id], seen, from)
  PROVE  EntitledTo(more, from) = EntitledTo(seen, from)
<1>1. Amounts(more, from) = Amounts(seen, from)
  BY DEF Amounts
<1> QED BY <1>1, EntitledToIs

\* Noting what is neither a dividend nor a split, or was not applied, pays nothing.
LEMMA PaidNoted ==
  ASSUME Ledger, NEW seen, seen \subseteq Sightings, IsFiniteSet(seen), NEW from, NEW t,
         \A kind \in {"dividend", "rescale"} :
           ~(t.status = "BOOKED" /\ t.held /\ Kind[t.action.id] = kind),
         NEW more, more = seen \cup {t}
  PROVE  /\ EntitledTo(more, from) = EntitledTo(seen, from)
         /\ Applied(more, "rescale") = Applied(seen, "rescale")
<1>1. Applied(more, "dividend") = Applied(seen, "dividend")
      /\ Applied(more, "rescale") = Applied(seen, "rescale")
  BY DEF Applied
<1>2. \A date : SharesEntitled(date, more, from) = SharesEntitled(date, seen, from)
  BY <1>1 DEF SharesEntitled, SplitsBefore
<1> QED BY <1>1, <1>2, SamePaid

\* Nor does a split, of those that went ex before it and of what was late.
LEMMA PaidSplit ==
  ASSUME Ledger, NEW seen, seen \subseteq Sightings, IsFiniteSet(seen), NEW from,
         NEW t \in Sightings, t \notin seen, t.status = "BOOKED", t.held,
         Kind[t.action.id] = "rescale",
         \A s \in Applied(seen, "dividend") :
           ~(ExDate[s.action.id] > from /\ ExDate[t.action.id] < ExDate[s.action.id]),
         NEW more, more = seen \cup {t}
  PROVE  /\ EntitledTo(more, from) = EntitledTo(seen, from)
         /\ \A n \in Int : AfterSplits(n, Applied(more, "rescale")) =
                             FloorRatio[AfterSplits(n, Applied(seen, "rescale"))]
<1>1. /\ Applied(more, "dividend") = Applied(seen, "dividend")
      /\ Applied(more, "rescale") = Applied(seen, "rescale") \cup {t}
      /\ t \notin Applied(seen, "rescale")
  BY DEF Applied
<1>2. ASSUME NEW s \in Applied(seen, "dividend")
      PROVE  SharesEntitled(ExDate[s.action.id], more, from) =
               SharesEntitled(ExDate[s.action.id], seen, from)
  <2>1. PICK date : date = ExDate[s.action.id]
    OBVIOUS
  <2>2. CASE ~(date > from)
    BY <2>1, <2>2 DEF SharesEntitled
  <2>3. CASE ~(ExDate[t.action.id] < date)
    <3>1. SplitsBefore(more, date) = SplitsBefore(seen, date)
      BY <1>1, <2>3 DEF SplitsBefore
    <3>2. SharesEntitled(date, more, from) = SharesEntitled(date, seen, from)
      BY <3>1 DEF SharesEntitled
    <3> QED BY <2>1, <3>2
  <2> QED BY <2>1, <2>2, <2>3
<1>3. IsFiniteSet(Applied(seen, "rescale"))
  BY AppliedIs
<1>4. EntitledTo(more, from) = EntitledTo(seen, from)
  BY <1>1, <1>2, SamePaid
<1>5. PICK old, new : old = Applied(seen, "rescale") /\ new = Applied(more, "rescale")
  OBVIOUS
<1>6. \A n \in Int : AfterSplits(n, new) = FloorRatio[AfterSplits(n, old)]
  <2>1. IsFiniteSet(old) /\ t \notin old /\ new = old \cup {t}
    BY <1>1, <1>3, <1>5
  <2> QED BY ONLY <2>1, AfterSplitsIs
<1> QED BY <1>4, <1>5, <1>6

\* A dividend pays its own amount more.
LEMMA PaidDividend ==
  ASSUME Ledger, NEW seen, seen \subseteq Sightings, IsFiniteSet(seen), NEW from,
         NEW t \in Sightings, t \notin seen, t.status = "BOOKED", t.held,
         Kind[t.action.id] = "dividend", NEW more, more = seen \cup {t}
  PROVE  /\ EntitledTo(more, from) = EntitledTo(seen, from)
              + t.action.terms * SharesEntitled(ExDate[t.action.id], seen, from)
         /\ Applied(more, "rescale") = Applied(seen, "rescale")
<1>1. PICK old, new : old = Applied(seen, "dividend") /\ new = Applied(more, "dividend")
  OBVIOUS
<1>2. PICK f, g : f = Amounts(seen, from) /\ g = Amounts(more, from)
  OBVIOUS
<1>3. /\ new = old \cup {t} /\ t \notin old /\ old = new \ {t}
      /\ Applied(more, "rescale") = Applied(seen, "rescale")
  BY <1>1 DEF Applied
<1>4. \A date : SharesEntitled(date, more, from) = SharesEntitled(date, seen, from)
  BY <1>3 DEF SharesEntitled, SplitsBefore
<1>5. /\ \A s \in old : g[s] = f[s]
      /\ g[t] = t.action.terms * SharesEntitled(ExDate[t.action.id], seen, from)
  BY <1>1, <1>2, <1>3, <1>4 DEF Amounts
<1>6. more \subseteq Sightings /\ IsFiniteSet(more)
  BY FS_AddElement
<1>7. /\ IsFiniteSet(new) /\ \A s \in new : g[s] \in Int
      /\ IsFiniteSet(old) /\ \A s \in old : f[s] \in Int
  BY <1>1, <1>2, <1>6, AppliedIs, EntitledToType
<1>8. SumOf(g, new) = g[t] + SumOf(g, old)
  BY <1>3, <1>7, SumAdd
<1>9. SumOf(f, old) = SumOf(g, old)
  BY <1>5, <1>7, SumSupport
<1>10. SumOf(f, old) \in Int /\ g[t] \in Int
  BY <1>3, <1>7, SumUnfolds
<1>11. EntitledTo(more, from) = SumOf(g, new) /\ EntitledTo(seen, from) = SumOf(f, old)
  BY <1>1, <1>2, EntitledToIs
<1> QED BY <1>3, <1>5, <1>8, <1>9, <1>10, <1>11

\* What an action is not booked before was booked late, or is on time with it and goes ex no later.
LEMMA BookedBefore ==
  ASSUME NEW d, NEW a \in Actions, a \notin Changed(d),
         NEW c \in Changed(d) \cup Fresh(d), c \in Actions, c \notin Changed(d), ~Before(a, c, d)
  PROVE  \/ ExDate[c.id] <= Latest(d)
         \/ /\ a \notin Late(d) /\ ExDate[c.id] <= ExDate[a.id]
            /\ ExDate[c.id] = ExDate[a.id] => KindOrder[Kind[c.id]] <= KindOrder[Kind[a.id]]
<1>1. CASE c \in Late(d)
  BY <1>1 DEF Late
<1>2. CASE c \notin Late(d)
  <2>1. Turn(c, d) = 3 /\ (Turn(a, d) = IF a \in Late(d) THEN 2 ELSE 3)
    BY <1>2 DEF Turn
  <2>2. PICK p, q : p = Place(a, d) /\ q = Place(c, d)
    OBVIOUS
  <2>3. /\ p = <<Turn(a, d), ExDate[a.id], KindOrder[Kind[a.id]], a.terms>>
        /\ q = <<Turn(c, d), ExDate[c.id], KindOrder[Kind[c.id]], c.terms>>
        /\ ExDate[a.id] \in Int /\ KindOrder[Kind[a.id]] \in Int
        /\ ExDate[c.id] \in Int /\ KindOrder[Kind[c.id]] \in Int
    BY <2>2, PlaceIs
  <2>4. \A i \in 1..4 : p[i] < q[i] => ~\A j \in 1..(i - 1) : p[j] = q[j]
    BY <2>2 DEF Before
  <2>5. ~(p[1] < q[1])
    BY <2>4
  <2>6. p[1] = q[1] => ~(p[2] < q[2])
    BY <2>4
  <2>7. p[1] = q[1] /\ p[2] = q[2] => ~(p[3] < q[3])
    <3>1. \A j \in 1..(3 - 1) : j = 1 \/ j = 2
      OBVIOUS
    <3> QED BY <2>4, <3>1
  <2>8. /\ p[1] = Turn(a, d) /\ p[2] = ExDate[a.id] /\ p[3] = KindOrder[Kind[a.id]]
        /\ q[1] = Turn(c, d) /\ q[2] = ExDate[c.id] /\ q[3] = KindOrder[Kind[c.id]]
    BY <2>3
  <2>9. a \notin Late(d) /\ p[1] = q[1]
    BY <2>1, <2>5, <2>8
  <2> QED BY <2>3, <2>6, <2>7, <2>8, <2>9
<1> QED BY <1>1, <1>2

\* A book on which the actions of s have been booked: both sides alike, rescaled by each split and
\* credited with what was due.
PaysFor(b, s, d) ==
  /\ b \in From(Restored(d), d) /\ b.broker = b.expected /\ IsFiniteSet(b.seen)
  /\ \A t \in b.seen :
       t.action \in s /\ (t.status = "BOOKED" /\ t.held => t.action \notin Changed(d))
  /\ b.broker.shares = AfterSplits(Restored(d).broker.shares, Applied(b.seen, "rescale"))
  /\ b.broker.credits = Restored(d).broker.credits + EntitledTo(b.seen, Latest(d))

\* Noting one action more, with what was credited and rescaled for it.
LEMMA PaysForMore ==
  ASSUME Ledger, NEW d \in Sessions, NEW s, NEW a \in s, NEW b, PaysFor(b, s \ {a}, d),
         NEW c \in From(Restored(d), d), NEW t \in Sightings, t.action = a,
         c.broker = c.expected, c.seen = b.seen \cup {t},
         t.status = "BOOKED" /\ t.held => a \notin Changed(d),
         c.broker.shares = AfterSplits(Restored(d).broker.shares, Applied(c.seen, "rescale")),
         c.broker.credits = Restored(d).broker.credits + EntitledTo(c.seen, Latest(d))
  PROVE  PaysFor(c, s, d)
<1>1. IsFiniteSet(c.seen)
  BY FS_AddElement DEF PaysFor
<1> QED BY <1>1 DEF PaysFor

\* What is known of such a book before one action more.
LEMMA PaysForIs ==
  ASSUME Ledger, NEW d \in Sessions, NEW s, NEW a \in s, NEW b, PaysFor(b, s \ {a}, d)
  PROVE  /\ b \in From(Restored(d), d) /\ b \in Books /\ b.broker = b.expected
         /\ b.seen \subseteq Sightings /\ IsFiniteSet(b.seen)
         /\ \A t \in Sightings : t.action = a => t \notin b.seen
         /\ b.broker.shares \in Int /\ b.broker.credits \in Int
         /\ Restored(d).broker.shares \in Int /\ Restored(d).broker.credits \in Int
         /\ EntitledTo(b.seen, Latest(d)) \in Int
         /\ AfterSplits(Restored(d).broker.shares, Applied(b.seen, "rescale")) \in Int
         /\ Restored(d).broker.shares \in Nat => b.broker.shares \in Nat
<1>1. b \in From(Restored(d), d) /\ b \in Books /\ b.broker = b.expected /\ IsFiniteSet(b.seen)
  BY DEF PaysFor, From
<1>2. b.seen \subseteq Sightings
  BY <1>1 DEF Books
<1>3. \A t \in Sightings : t.action = a => t \notin b.seen
  BY DEF PaysFor
<1>4. b.broker.shares \in Int /\ b.broker.credits \in Int
  BY <1>1, BookIs
<1>5. Restored(d).broker.shares \in Int /\ Restored(d).broker.credits \in Int
  <2>1. Restored(d) \in Books
    BY RestoredIs
  <2> QED BY <2>1, BookIs
<1>6. EntitledTo(b.seen, Latest(d)) \in Int
  BY <1>1, <1>2, EntitledToType
<1>7. /\ AfterSplits(Restored(d).broker.shares, Applied(b.seen, "rescale")) \in Int
      /\ Restored(d).broker.shares \in Nat => b.broker.shares \in Nat
  <2>1. IsFiniteSet(Applied(b.seen, "rescale"))
    BY <1>1, <1>2, AppliedIs
  <2> QED BY <1>5, <2>1, AfterSplitsIs DEF PaysFor
<1> QED BY <1>1, <1>2, <1>3, <1>4, <1>5, <1>6, <1>7

\* Noting an action that is neither credited nor rescales anything.
LEMMA PaysForSame ==
  ASSUME Ledger, NEW d \in Sessions, NEW s, NEW a \in s,
         NEW b, PaysFor(b, s \ {a}, d), NEW t \in Sightings, t.action = a,
         \A kind \in {"dividend", "rescale"} :
           ~(t.status = "BOOKED" /\ t.held /\ Kind[t.action.id] = kind),
         t.status = "BOOKED" /\ t.held => a \notin Changed(d),
         NEW c \in From(Restored(d), d),
         c.broker = b.broker, c.expected = b.expected, c.seen = b.seen \cup {t}
  PROVE  PaysFor(c, s, d)
<1>1. PICK seen, more : seen = b.seen /\ more = c.seen
  OBVIOUS
<1>2. seen \subseteq Sightings /\ IsFiniteSet(seen) /\ more = seen \cup {t}
  BY <1>1, PaysForIs
<1>3. /\ EntitledTo(more, Latest(d)) = EntitledTo(seen, Latest(d))
      /\ Applied(more, "rescale") = Applied(seen, "rescale")
  BY <1>2, PaidNoted
<1>4. /\ c.broker = c.expected
      /\ c.broker.shares = AfterSplits(Restored(d).broker.shares, Applied(c.seen, "rescale"))
      /\ c.broker.credits = Restored(d).broker.credits + EntitledTo(c.seen, Latest(d))
  BY <1>1, <1>3 DEF PaysFor
<1> QED BY <1>4, PaysForMore

\* As a book does that notes it.
LEMMA PaysForNoted ==
  ASSUME Ledger, NEW d \in Sessions, NEW s, NEW a \in s, a \in Actions,
         NEW b, PaysFor(b, s \ {a}, d), NEW held \in BOOLEAN,
         NEW status \in {"BOOKED", "ESCALATED"},
         \A kind \in {"dividend", "rescale"} :
           ~(status = "BOOKED" /\ held /\ Kind[a.id] = kind),
         status = "BOOKED" /\ held => a \notin Changed(d),
         NEW c, c = Noted(b, a, held, status), c \in From(Restored(d), d)
  PROVE  PaysFor(c, s, d)
<1>1. PICK t : t = [action |-> a, held |-> held, status |-> status]
  OBVIOUS
<1>2. t \in Sightings /\ t.action = a /\ t.held = held /\ t.status = status
  BY <1>1 DEF Sightings
<1>3. c = [broker |-> b.broker, expected |-> b.expected, staged |-> b.staged,
           seen |-> b.seen \cup {t}]
  <2>1. b = [broker |-> b.broker, expected |-> b.expected, staged |-> b.staged, seen |-> b.seen]
    BY PaysForIs, BookIs
  <2> QED BY <1>1, <2>1, NotedIs
<1>4. c.broker = b.broker /\ c.expected = b.expected /\ c.seen = b.seen \cup {t}
  BY <1>3
<1>5. /\ \A kind \in {"dividend", "rescale"} :
           ~(t.status = "BOOKED" /\ t.held /\ Kind[t.action.id] = kind)
      /\ t.status = "BOOKED" /\ t.held => a \notin Changed(d)
  BY <1>2
<1> QED BY <1>2, <1>4, <1>5, PaysForSame

\* What a credit makes of a book when it is noted.
LEMMA CreditNoted ==
  ASSUME NEW b \in Books, NEW a, NEW amount, NEW held, NEW status
  PROVE  LET c == Noted(Credited(b, amount), a, held, status)
         IN  /\ c.broker = [shares |-> b.broker.shares, credits |-> b.broker.credits + amount]
             /\ c.expected = [shares |-> b.expected.shares,
                              credits |-> b.expected.credits + amount]
             /\ c.seen = b.seen \cup SeenAs(a, held, status)
<1>1. PICK m : m = Credited(b, amount)
  OBVIOUS
<1>2. m = [broker |-> [shares |-> b.broker.shares, credits |-> b.broker.credits + amount],
           expected |-> [shares |-> b.expected.shares, credits |-> b.expected.credits + amount],
           staged |-> b.staged, seen |-> b.seen]
  BY <1>1, BookIs, CreditedIs
<1>3. PICK new : new = SeenAs(a, held, status)
  OBVIOUS
<1>4. PICK c : c = [m EXCEPT !.seen = @ \cup new]
  OBVIOUS
<1>5. /\ c.broker = [shares |-> b.broker.shares, credits |-> b.broker.credits + amount]
      /\ c.expected = [shares |-> b.expected.shares, credits |-> b.expected.credits + amount]
      /\ c.seen = b.seen \cup new
  BY <1>2, <1>4
<1>6. c = Noted(Credited(b, amount), a, held, status)
  BY ONLY <1>1, <1>3, <1>4 DEF Noted
<1> QED BY ONLY <1>3, <1>5, <1>6

\* And what a split makes of it.
LEMMA RescaleNoted ==
  ASSUME NEW b \in Books, NEW a, NEW held, NEW status
  PROVE  LET c == Noted(Rescaled(b), a, held, status)
         IN  /\ c.broker = [shares |-> FloorRatio[b.broker.shares], credits |-> b.broker.credits]
             /\ c.expected = [shares |-> FloorRatio[b.expected.shares],
                              credits |-> b.expected.credits]
             /\ c.seen = b.seen \cup SeenAs(a, held, status)
<1>1. PICK m, staged : m = Rescaled(b) /\ staged = Restaged(b)
  OBVIOUS
<1>2. m = [broker |-> [shares |-> FloorRatio[b.broker.shares], credits |-> b.broker.credits],
           expected |-> [shares |-> FloorRatio[b.expected.shares], credits |-> b.expected.credits],
           staged |-> staged, seen |-> b.seen]
  BY <1>1, RescaledIs
<1>3. PICK new : new = SeenAs(a, held, status)
  OBVIOUS
<1>4. PICK c : c = [m EXCEPT !.seen = @ \cup new]
  OBVIOUS
<1>5. /\ c.broker = [shares |-> FloorRatio[b.broker.shares], credits |-> b.broker.credits]
      /\ c.expected = [shares |-> FloorRatio[b.expected.shares], credits |-> b.expected.credits]
      /\ c.seen = b.seen \cup new
  BY <1>2, <1>4
<1>6. c = Noted(Rescaled(b), a, held, status)
  BY ONLY <1>1, <1>3, <1>4 DEF Noted
<1> QED BY ONLY <1>3, <1>5, <1>6

\* Crediting a dividend on the shares it was due on.
LEMMA PaysForCredited ==
  ASSUME Ledger, NEW d \in Sessions, NEW s, NEW a \in s, a \in Actions,
         NEW b, PaysFor(b, s \ {a}, d), a \notin Changed(d), Kind[a.id] = "dividend",
         NEW shares, shares = SharesEntitled(ExDate[a.id], b.seen, Latest(d)),
         NEW amount, amount = a.terms * shares,
         NEW t \in Sightings, t.action = a, t.held, t.status = "BOOKED",
         NEW c \in From(Restored(d), d),
         c.broker = [shares |-> b.broker.shares, credits |-> b.broker.credits + amount],
         c.expected = [shares |-> b.expected.shares, credits |-> b.expected.credits + amount],
         c.seen = b.seen \cup {t}
  PROVE  PaysFor(c, s, d)
<1>1. /\ EntitledTo(c.seen, Latest(d)) = EntitledTo(b.seen, Latest(d)) + amount
      /\ Applied(c.seen, "rescale") = Applied(b.seen, "rescale")
  <2>1. b.seen \subseteq Sightings /\ IsFiniteSet(b.seen) /\ t \notin b.seen
    BY PaysForIs
  <2>2. amount = t.action.terms * SharesEntitled(ExDate[t.action.id], b.seen, Latest(d))
    OBVIOUS
  <2>3. PICK seen, more, from : seen = b.seen /\ more = c.seen /\ from = Latest(d)
    OBVIOUS
  <2>4. /\ EntitledTo(more, from) = EntitledTo(seen, from)
             + t.action.terms * SharesEntitled(ExDate[t.action.id], seen, from)
        /\ Applied(more, "rescale") = Applied(seen, "rescale")
    BY <2>1, <2>3, PaidDividend
  <2> QED BY <2>2, <2>3, <2>4
<1>2. amount \in Int
  <2>1. a.terms \in Int
    BY PlaceIs
  <2>2. shares \in Int
    BY PaysForIs, SharesEntitledType
  <2> QED BY <2>1, <2>2
<1>3. c.broker = c.expected
      /\ c.broker.shares = AfterSplits(Restored(d).broker.shares, Applied(c.seen, "rescale"))
  BY <1>1 DEF PaysFor
<1>4. c.broker.credits = Restored(d).broker.credits + EntitledTo(c.seen, Latest(d))
  <2>1. b.broker.credits = Restored(d).broker.credits + EntitledTo(b.seen, Latest(d))
    BY DEF PaysFor
  <2>2. Restored(d).broker.credits \in Int /\ EntitledTo(b.seen, Latest(d)) \in Int
    BY PaysForIs
  <2> QED BY <1>1, <1>2, <2>1, <2>2
<1> QED BY <1>3, <1>4, PaysForMore

\* Rescaling for a split after which nothing on time went ex that is booked already.
LEMMA PaysForRescaled ==
  ASSUME Ledger, NEW d \in Sessions, NEW s, NEW a \in s, a \in Actions,
         NEW b, PaysFor(b, s \ {a}, d), a \notin Changed(d), Kind[a.id] = "rescale",
         \A u \in Applied(b.seen, "dividend") :
           ~(ExDate[u.action.id] > Latest(d) /\ ExDate[a.id] < ExDate[u.action.id]),
         NEW t \in Sightings, t.action = a, t.held, t.status = "BOOKED",
         NEW c \in From(Restored(d), d),
         c.broker = [shares |-> FloorRatio[b.broker.shares], credits |-> b.broker.credits],
         c.expected = [shares |-> FloorRatio[b.expected.shares], credits |-> b.expected.credits],
         c.seen = b.seen \cup {t}
  PROVE  PaysFor(c, s, d)
<1>1. /\ EntitledTo(c.seen, Latest(d)) = EntitledTo(b.seen, Latest(d))
      /\ \A n \in Int : AfterSplits(n, Applied(c.seen, "rescale")) =
                          FloorRatio[AfterSplits(n, Applied(b.seen, "rescale"))]
  <2>1. b.seen \subseteq Sightings /\ IsFiniteSet(b.seen) /\ t \notin b.seen
    BY PaysForIs
  <2>2. PICK seen, more, from : seen = b.seen /\ more = c.seen /\ from = Latest(d)
    OBVIOUS
  <2>3. /\ seen \subseteq Sightings /\ IsFiniteSet(seen) /\ t \notin seen
        /\ more = seen \cup {t} /\ Kind[t.action.id] = "rescale"
        /\ \A u \in Applied(seen, "dividend") :
             ~(ExDate[u.action.id] > from /\ ExDate[t.action.id] < ExDate[u.action.id])
    BY <2>1, <2>2
  <2>4. Ledger /\ t \in Sightings /\ t.status = "BOOKED" /\ t.held
    OBVIOUS
  <2>5. /\ EntitledTo(more, from) = EntitledTo(seen, from)
        /\ \A n \in Int : AfterSplits(n, Applied(more, "rescale")) =
                            FloorRatio[AfterSplits(n, Applied(seen, "rescale"))]
    BY ONLY <2>3, <2>4, PaidSplit, SMTT(30)
  <2> QED BY <2>2, <2>5
<1>2. c.broker = c.expected
      /\ c.broker.credits = Restored(d).broker.credits + EntitledTo(c.seen, Latest(d))
  BY <1>1 DEF PaysFor
<1>3. c.broker.shares = AfterSplits(Restored(d).broker.shares, Applied(c.seen, "rescale"))
  <2>1. b.broker.shares = AfterSplits(Restored(d).broker.shares, Applied(b.seen, "rescale"))
    BY DEF PaysFor
  <2>2. Restored(d).broker.shares \in Int
    BY PaysForIs
  <2>3. PICK n, old, new : /\ n = Restored(d).broker.shares /\ old = Applied(b.seen, "rescale")
                           /\ new = Applied(c.seen, "rescale")
    OBVIOUS
  <2>4. AfterSplits(n, new) = FloorRatio[AfterSplits(n, old)]
    BY <1>1, <2>2, <2>3
  <2>5. c.broker.shares = FloorRatio[b.broker.shares] /\ b.broker.shares = AfterSplits(n, old)
    BY <2>1, <2>3
  <2>6. c.broker.shares = AfterSplits(n, new)
    BY ONLY <2>4, <2>5
  <2> QED BY ONLY <2>3, <2>6
<1> QED BY <1>2, <1>3, PaysForMore

\* A correction credits nothing.
LEMMA PaysForChanged ==
  ASSUME Ledger, NEW d \in Sessions, NEW s, NEW a \in s, a \in Actions, a \in Changed(d),
         NEW b, PaysFor(b, s \ {a}, d), NEW c, c = BookOne(b, a, d), c \in From(Restored(d), d)
  PROVE  PaysFor(c, s, d)
<1> DEFINE held == Entitled(a) > 0 \/ \E t \in OfIdentity(a, d) : t.held
           status == IF held THEN "ESCALATED" ELSE "BOOKED"
<1>1. c = Noted(b, a, held, status)
  <2>1. a \notin Late(d)
    BY DEF Late, Fresh, Changed
  <2>2. BookOne(b, a, d) = BookChanged(b, a, d)
    BY <2>1 DEF BookOne
  <2> QED BY <2>2 DEF BookChanged
<1>2. held \in BOOLEAN /\ status \in {"BOOKED", "ESCALATED"} /\ ~(status = "BOOKED" /\ held)
  OBVIOUS
<1> HIDE DEF held, status
<1> QED BY <1>1, <1>2, PaysForNoted

\* What is late is credited, or rescaled, on what was held entering its ex-date.
LEMMA PaysForLate ==
  ASSUME Ledger, NEW d \in Sessions, NEW s, NEW a \in s, s \subseteq Actions,
         s \subseteq Changed(d) \cup Fresh(d), a \notin Changed(d), a \in Late(d),
         \A e \in s : ~Before(a, e, d),
         NEW b, PaysFor(b, s \ {a}, d), NEW c, c = BookOne(b, a, d), c \in From(Restored(d), d)
  PROVE  PaysFor(c, s, d)
<1>1. c = BookLate(b, a, d) /\ b \in Books /\ a \in Actions
  BY PaysForIs DEF BookOne
<1>2. PICK yes, no : yes = TRUE /\ no = FALSE
  OBVIOUS
<1>3. PICK t : t = [action |-> a, held |-> yes, status |-> "BOOKED"]
  OBVIOUS
<1>4. /\ t \in Sightings /\ t.action = a /\ t.held /\ t.status = "BOOKED"
      /\ SeenAs(a, yes, "BOOKED") = {t}
  BY <1>1, <1>2, <1>3 DEF Sightings, SeenAs
<1>5. CASE Entitled(a) = 0
  <2>1. c = Noted(b, a, no, "BOOKED")
    BY <1>1, <1>2, <1>5 DEF BookLate
  <2> QED BY <1>1, <1>2, <2>1, PaysForNoted
<1>6. CASE Entitled(a) # 0 /\ Kind[a.id] = "dividend"
  <2>1. PICK amount : amount = a.terms * Entitled(a)
    OBVIOUS
  <2>2. c = Noted(Credited(b, amount), a, yes, "BOOKED")
    BY <1>1, <1>2, <1>6, <2>1 DEF BookLate, Rescalable
  <2>3. Entitled(a) = SharesEntitled(ExDate[a.id], b.seen, Latest(d))
    <3>1. ExDate[a.id] <= Latest(d)
      BY DEF Late
    <3>2. ExDate[a.id] \in Int /\ Latest(d) \in Int
      BY <1>1, PlaceIs, LatestIs
    <3>3. ~(ExDate[a.id] > Latest(d))
      BY <3>1, <3>2
    <3> QED BY <3>3, HeldIsEntitled DEF SharesEntitled
  <2>4. /\ c.broker = [shares |-> b.broker.shares, credits |-> b.broker.credits + amount]
        /\ c.expected = [shares |-> b.expected.shares, credits |-> b.expected.credits + amount]
        /\ c.seen = b.seen \cup {t}
    BY <1>1, <1>4, <2>2, CreditNoted
  <2> QED BY <1>1, <1>4, <1>6, <2>1, <2>3, <2>4, PaysForCredited
<1>7. CASE Entitled(a) # 0 /\ Kind[a.id] # "dividend" /\ Rescalable(b, a, d)
  <2>1. c = Noted(Rescaled(b), a, yes, "BOOKED")
    BY <1>1, <1>2, <1>7 DEF BookLate
  <2>2. /\ c.broker = [shares |-> FloorRatio[b.broker.shares], credits |-> b.broker.credits]
        /\ c.expected = [shares |-> FloorRatio[b.expected.shares], credits |-> b.expected.credits]
        /\ c.seen = b.seen \cup {t}
    BY <1>1, <1>4, <2>1, RescaleNoted
  <2>3. Kind[a.id] = "rescale"
    BY <1>7 DEF Rescalable
  <2>4. ASSUME NEW u \in Applied(b.seen, "dividend") PROVE ~(ExDate[u.action.id] > Latest(d))
    <3>1. u.action \in s \ {a} /\ u.action \notin Changed(d)
      BY DEF PaysFor, Applied
    <3>2. ExDate[u.action.id] <= Latest(d)
      BY <1>1, <3>1, BookedBefore
    <3>3. ExDate[u.action.id] \in Int /\ Latest(d) \in Int
      BY <3>1, PlaceIs, LatestIs
    <3> QED BY <3>2, <3>3
  <2> QED BY <1>1, <1>4, <2>2, <2>3, <2>4, PaysForRescaled
<1>8. CASE Entitled(a) # 0 /\ Kind[a.id] # "dividend" /\ ~Rescalable(b, a, d)
  <2>1. c = Noted(b, a, yes, "ESCALATED")
    BY <1>1, <1>2, <1>8 DEF BookLate
  <2> QED BY <1>1, <1>2, <2>1, PaysForNoted
<1> QED BY <1>5, <1>6, <1>7, <1>8

\* What is on time is credited, or rescaled, on what the book holds by then.
LEMMA PaysForOnTime ==
  ASSUME Ledger, NEW d \in Sessions, NEW s, NEW a \in s, s \subseteq Actions,
         s \subseteq Changed(d) \cup Fresh(d), a \notin Changed(d), a \notin Late(d),
         \A e \in s : ~Before(a, e, d), Restored(d).broker.shares >= 0,
         NEW b, PaysFor(b, s \ {a}, d), NEW c, c = BookOne(b, a, d), c \in From(Restored(d), d)
  PROVE  PaysFor(c, s, d)
<1>1. /\ c = BookOnTime(b, a) /\ b \in Books /\ a \in Actions /\ b.broker = b.expected
      /\ b.broker.shares \in Int /\ a.terms \in Int
  BY PaysForIs, PlaceIs DEF BookOne
<1>2. PICK held \in BOOLEAN : held = (b.broker.shares > 0)
  <2>1. (b.broker.shares > 0) \in BOOLEAN
    BY <1>1
  <2> QED BY <2>1
<1>3. held <=> b.broker.shares > 0
  BY <1>2
<1>4. PICK t : t = [action |-> a, held |-> held, status |-> "BOOKED"]
  OBVIOUS
<1>5. /\ t \in Sightings /\ t.action = a /\ t.held = held /\ t.status = "BOOKED"
      /\ SeenAs(a, held, "BOOKED") = {t}
  BY <1>1, <1>3, <1>4 DEF Sightings, SeenAs
<1>6. /\ ExDate[a.id] \in Sessions /\ ExDate[a.id] \in Int /\ ExDate[a.id] <= d
      /\ Latest(d) \in Int /\ ExDate[a.id] > Latest(d)
  <2>1. a \in Fresh(d) /\ a \in Known(d)
    BY DEF Fresh
  <2>2. ExDate[a.id] \in Sessions
    BY <1>1, IdsAssumption DEF Actions
  <2>3. ExDate[a.id] \in Int /\ Latest(d) \in Int
    BY <1>1, PlaceIs, LatestIs
  <2>4. ExDate[a.id] <= d /\ ~(ExDate[a.id] <= Latest(d))
    BY <2>1 DEF Known, Late
  <2> QED BY <2>2, <2>3, <2>4
<1>7. \A kind : \A u \in Applied(b.seen, kind) :
        /\ u.action \in Actions /\ Kind[u.action.id] = kind
        /\ \/ ExDate[u.action.id] <= Latest(d)
           \/ /\ ExDate[u.action.id] <= ExDate[a.id]
              /\ ExDate[u.action.id] = ExDate[a.id] =>
                   KindOrder[kind] <= KindOrder[Kind[a.id]]
  <2> SUFFICES ASSUME NEW kind, NEW u \in Applied(b.seen, kind)
               PROVE  /\ u.action \in Actions /\ Kind[u.action.id] = kind
                      /\ \/ ExDate[u.action.id] <= Latest(d)
                         \/ /\ ExDate[u.action.id] <= ExDate[a.id]
                            /\ ExDate[u.action.id] = ExDate[a.id] =>
                                 KindOrder[kind] <= KindOrder[Kind[a.id]]
    OBVIOUS
  <2>1. /\ u.action \in s \ {a} /\ u.action \notin Changed(d) /\ Kind[u.action.id] = kind
    BY DEF PaysFor, Applied
  <2>2. PICK e : e = u.action
    OBVIOUS
  <2>3. \/ ExDate[e.id] <= Latest(d)
        \/ /\ ExDate[e.id] <= ExDate[a.id]
           /\ ExDate[e.id] = ExDate[a.id] => KindOrder[Kind[e.id]] <= KindOrder[Kind[a.id]]
    BY <1>1, <2>1, <2>2, BookedBefore
  <2> QED BY <2>1, <2>2, <2>3
<1>8. CASE Kind[a.id] = "dividend"
  <2>1. PICK amount : amount = a.terms * b.broker.shares
    OBVIOUS
  <2>2. c = Noted(Credited(b, amount), a, held, "BOOKED")
    BY <1>1, <1>2, <1>8, <2>1 DEF BookOnTime
  <2>3. /\ c.broker = [shares |-> b.broker.shares, credits |-> b.broker.credits + amount]
        /\ c.expected = [shares |-> b.expected.shares, credits |-> b.expected.credits + amount]
        /\ c.seen = b.seen \cup {t}
    BY <1>1, <1>5, <2>2, CreditNoted
  <2>4. b.broker.shares = SharesEntitled(ExDate[a.id], b.seen, Latest(d))
    <3>1. SplitsBefore(b.seen, ExDate[a.id]) = Applied(b.seen, "rescale")
      <4> SUFFICES ASSUME NEW u \in Applied(b.seen, "rescale")
                   PROVE  ExDate[u.action.id] < ExDate[a.id]
        BY DEF SplitsBefore
      <4>1. u.action \in Actions /\ ExDate[u.action.id] \in Int
        BY <1>7, PlaceIs
      <4>2. ~(KindOrder["rescale"] <= KindOrder["dividend"])
        BY DEF KindOrder
      <4> QED BY <1>6, <1>7, <1>8, <4>1, <4>2
    <3>2. Restored(d).broker.shares = HeldEntering(ExDate[a.id])
      BY <1>6, HeldRestored
    <3>3. b.broker.shares =
            AfterSplits(Restored(d).broker.shares, Applied(b.seen, "rescale"))
      BY DEF PaysFor
    <3>4. SharesEntitled(ExDate[a.id], b.seen, Latest(d)) =
            AfterSplits(HeldEntering(ExDate[a.id]), SplitsBefore(b.seen, ExDate[a.id]))
      BY <1>6 DEF SharesEntitled
    <3> QED BY <3>1, <3>2, <3>3, <3>4
  <2>5. CASE held
    <3>1. PICK shares : shares = SharesEntitled(ExDate[a.id], b.seen, Latest(d))
      OBVIOUS
    <3>2. amount = a.terms * shares
      BY <2>1, <2>4, <3>1
    <3> QED BY <1>1, <1>5, <1>8, <2>3, <2>5, <3>1, <3>2, PaysForCredited
  <2>6. CASE ~held
    <3>1. b.broker.shares = 0
      <4>1. Restored(d).broker.shares \in Int
        BY PaysForIs
      <4>2. Restored(d).broker.shares \in Nat
        BY <4>1
      <4>3. b.broker.shares \in Nat
        BY <4>2, PaysForIs
      <4> QED BY <1>3, <2>6, <4>3
    <3>2. amount = 0
      BY <1>1, <2>1, <3>1
    <3>3. c.broker = b.broker /\ c.expected = b.expected
      <4>1. /\ b.broker = [shares |-> b.broker.shares, credits |-> b.broker.credits]
            /\ b.expected = [shares |-> b.expected.shares, credits |-> b.expected.credits]
            /\ b.broker.credits \in Int /\ b.expected.credits \in Int
        BY <1>1, BookIs
      <4>2. b.broker.credits + amount = b.broker.credits
            /\ b.expected.credits + amount = b.expected.credits
        BY <3>2, <4>1
      <4> QED BY <2>3, <4>1, <4>2
    <3>4. ~t.held
      BY <1>5, <2>6
    <3> QED BY <1>1, <1>5, <2>3, <3>3, <3>4, PaysForSame
  <2> QED BY <1>3, <2>5, <2>6
<1>9. CASE Kind[a.id] = "rescale" /\ b.broker.shares > 0
  <2>1. c = Noted(Rescaled(b), a, held, "BOOKED")
    BY <1>1, <1>2, <1>9 DEF BookOnTime
  <2>2. /\ c.broker = [shares |-> FloorRatio[b.broker.shares], credits |-> b.broker.credits]
        /\ c.expected = [shares |-> FloorRatio[b.expected.shares], credits |-> b.expected.credits]
        /\ c.seen = b.seen \cup {t}
    BY <1>1, <1>5, <2>1, RescaleNoted
  <2>3. ASSUME NEW u \in Applied(b.seen, "dividend")
        PROVE  ~(ExDate[u.action.id] > Latest(d) /\ ExDate[a.id] < ExDate[u.action.id])
    <3>1. u.action \in Actions /\ ExDate[u.action.id] \in Int
      BY <1>7, PlaceIs
    <3> QED BY <1>6, <1>7, <3>1
  <2>4. t.held
    BY <1>3, <1>5, <1>9
  <2> QED BY <1>1, <1>5, <1>9, <2>2, <2>3, <2>4, PaysForRescaled
<1>10. CASE Kind[a.id] # "dividend" /\ ~(Kind[a.id] = "rescale" /\ b.broker.shares > 0)
  <2>1. c = Noted(b, a, held, "BOOKED")
    BY <1>1, <1>2, <1>10 DEF BookOnTime
  <2>2. \A kind \in {"dividend", "rescale"} : ~(held /\ Kind[a.id] = kind)
    BY <1>3, <1>10
  <2> QED BY <1>1, <1>3, <2>1, <2>2, PaysForNoted
<1> QED BY <1>8, <1>9, <1>10

\* One corporate action more, whichever way it is booked.
LEMMA PaysForOne ==
  ASSUME Ledger, NEW d \in Sessions, NEW s, NEW a \in s, s \subseteq Actions,
         s \subseteq Changed(d) \cup Fresh(d), \A e \in s : ~Before(a, e, d),
         Restored(d).broker.shares >= 0,
         NEW b, PaysFor(b, s \ {a}, d), NEW c, c = BookOne(b, a, d), c \in From(Restored(d), d)
  PROVE  PaysFor(c, s, d)
<1>1. CASE a \in Changed(d)
  BY <1>1, PaysForChanged
<1>2. CASE a \notin Changed(d) /\ a \in Late(d)
  BY <1>2, PaysForLate
<1>3. CASE a \notin Changed(d) /\ a \notin Late(d)
  BY <1>3, PaysForOnTime
<1> QED BY <1>1, <1>2, <1>3

\* A book on which nothing has been booked yet.
LEMMA PaysForNone ==
  ASSUME Alone, NEW d \in Sessions
  PROVE  PaysFor(Restored(d), {}, d)
<1> DEFINE b == Restored(d)
<1>1. Ledger
  BY DEF Alone, Typed, Ledger
<1>2. b \in Books /\ IsFiniteSet(b.staged) /\ b.seen = {} /\ b.broker = b.expected
  BY <1>1, RestoredIs, RestoredBalances
<1>3. b \in From(b, d)
  BY <1>2 DEF From
<1>4. b.broker.shares \in Int /\ b.broker.credits \in Int
  BY <1>2, BookIs
<1>5. PICK none, from : none = b.seen /\ from = Latest(d)
  OBVIOUS
<1>6. IsFiniteSet(none) /\ none = {}
  BY <1>2, <1>5, FS_EmptySet
<1>7. Applied(none, "rescale") = {} /\ Applied(none, "dividend") = {}
  BY <1>6 DEF Applied
<1>8. AfterSplits(b.broker.shares, Applied(none, "rescale")) = b.broker.shares
  BY <1>4, <1>7, FS_EmptySet, AfterSplitsIs
<1>9. EntitledTo(none, from) = 0
  <2>1. EntitledTo(none, from) = SumOf(Amounts(none, from), Applied(none, "dividend"))
    BY EntitledToIs
  <2>2. PICK f, S : f = Amounts(none, from) /\ S = Applied(none, "dividend")
    OBVIOUS
  <2>3. SumOf(f, S) = 0
    BY <1>7, <2>2, FS_EmptySet, SumUnfolds
  <2> QED BY <2>1, <2>2, <2>3
<1>10. b.broker.credits = b.broker.credits + 0
  BY <1>4
<1> HIDE DEF b
<1>11. /\ b.broker.shares = AfterSplits(b.broker.shares, Applied(b.seen, "rescale"))
       /\ b.broker.credits = b.broker.credits + EntitledTo(b.seen, Latest(d))
  BY <1>5, <1>8, <1>9, <1>10
<1>12. PaysFor(b, {}, d)
  <2>1. b = Restored(d)
    BY DEF b
  <2> QED BY <1>2, <1>3, <1>5, <1>6, <1>11, <2>1 DEF PaysFor
<1> QED BY <1>12 DEF b

\* And one on which all the corporate actions of a session have been.
LEMMA BookedPays ==
  ASSUME Alone, NEW d \in Sessions, Restored(d).broker.shares >= 0
  PROVE  PaysFor(Booked(Restored(d), d), Changed(d) \cup Fresh(d), d)
<1>1. Ledger /\ IsFiniteSet(known) /\ known \subseteq Actions
  BY DEF Alone, Typed, Ledger
<1>2. PICK S : S = Changed(d) \cup Fresh(d)
  OBVIOUS
<1>3. PICK A : A = From(Restored(d), d)
  OBVIOUS
<1>4. Restored(d) \in A /\ PaysFor(Restored(d), {}, d)
  BY <1>3, PaysForNone DEF PaysFor
<1>5. S \subseteq Actions /\ \A a \in S, b \in A : BookOne(b, a, d) \in A
  <2>1. S \subseteq Actions
    BY <1>1, <1>2 DEF Changed, Fresh, Known
  <2> QED BY <1>1, <1>2, <1>3, <2>1, BookOneFrom
<1>6. PICK it \in [SUBSET S -> A] : Booking(it, Restored(d), S, d)
  BY <1>1, <1>2, <1>4, <1>5, BookedUnfolds
<1>7. IsFiniteSet(S)
  <2>1. S \in SUBSET known
    BY <1>2 DEF Changed, Fresh, Known
  <2> QED BY <1>1, <2>1, FS_Subset
<1> DEFINE Bad == {s \in SUBSET S : ~PaysFor(it[s], s, d)}
<1>8. Bad = {}
  <2> SUFFICES ASSUME Bad # {} PROVE FALSE
    OBVIOUS
  <2>1. PICK s \in Bad : \A u \in Bad : u \subseteq s => u = s
    <3>1. Bad \subseteq SUBSET S
      OBVIOUS
    <3> HIDE DEF Bad
    <3> QED BY <1>7, <3>1, MinimalSubset
  <2>2. s \in SUBSET S /\ ~PaysFor(it[s], s, d)
    OBVIOUS
  <2>3. s # {}
    BY <1>4, <1>6, <2>2 DEF Booking
  <2>4. PICK a \in s : (\A b \in s : ~Before(a, b, d)) /\ it[s] = BookOne(it[s \ {a}], a, d)
    BY <1>6, <2>2, <2>3 DEF Booking
  <2>5. s \ {a} \in SUBSET S /\ s \ {a} # s
    BY <2>2
  <2>6. PaysFor(it[s \ {a}], s \ {a}, d)
    BY <2>1, <2>5
  <2>7. PICK b, c : b = it[s \ {a}] /\ c = it[s]
    OBVIOUS
  <2>8. c \in From(Restored(d), d) /\ c = BookOne(b, a, d) /\ PaysFor(b, s \ {a}, d)
    BY <1>3, <1>6, <2>2, <2>4, <2>6, <2>7
  <2>9. s \subseteq Actions /\ s \subseteq Changed(d) \cup Fresh(d)
    BY <1>2, <1>5, <2>2
  <2>10. PaysFor(c, s, d)
    BY <1>1, <2>4, <2>8, <2>9, PaysForOne
  <2> QED BY <2>2, <2>7, <2>10
<1>9. PaysFor(it[S], S, d)
  BY <1>8
<1> QED BY <1>2, <1>6, <1>9 DEF Booking

\* What corporate actions had credited a book with entering a session.
CreditsEntering(d) == IF Latest(d) = 0 THEN 0 ELSE rows[Latest(d)].broker.credits

\* A decided row, or one about to be, is credited for what it booked beyond the row before it, as
\* long as nothing slipped.
Pays(row, d) ==
  /\ row.broker.shares >= 0 /\ IsFiniteSet(row.seen)
  /\ \A s \in row.seen : ExDate[s.action.id] <= d
  /\ used["slips"] = 0 =>
       row.broker.credits = CreditsEntering(d) + EntitledTo(row.seen, row.from)

Paying == \A d \in Sessions, row \in Rows : Entry(d, row) => Pays(row, d)

\* Slips are counted up.
LEMMA SlipsGrow ==
  ASSUME Typed, [Next]_vars
  PROVE  used["slips"] \in Nat /\ used'["slips"] \in Nat /\ used'["slips"] >= used["slips"]
<1>1. used \in [{"reds", "trips", "slips", "fails"} -> Nat]
  BY DEF Typed
<1>2. \A bound : \A what \in {"reds", "trips", "slips", "fails"} :
        Use(what, bound) => used'["slips"] \in Nat /\ used'["slips"] >= used["slips"]
  BY <1>1 DEF Use
<1>3. CASE used' = used
  BY <1>1, <1>3
<1>4. ASSUME NEW r \in Runs, Skip(r) PROVE used' = used \/ Use("reds", MaxReds)
  BY <1>4 DEF Skip
<1>5. ASSUME NEW r \in Runs, Execute(r) PROVE used' = used \/ Use("slips", MaxSlips)
  <2> DEFINE d == run[r].session
             ready == Booked(Restored(d), d)
  <2>1. PICK fills \in SUBSET Due(ready, d), slip \in 0..1 :
          LET left == Left(Filled(ready, fills, slip, d), fills, d)
          IN  /\ IF slip = 1 THEN Use("slips", MaxSlips) ELSE used' = used
              /\ left.broker.shares >= 0
              /\ \E outcome \in Outcomes(left, d) : Write(r, outcome)
              /\ switch' = (switch \/ Trips(Broke(left)))
              /\ broken' = (broken \/ Broke(left))
    BY <1>5 DEF Execute
  <2> QED BY <2>1
<1>6. ASSUME NEW r \in Runs, Fail(r) PROVE Use("fails", MaxFails)
  BY <1>6 DEF Fail
<1>7. ASSUME NEW r \in Runs, Commit(r) \/ Stop(r) PROVE used' = used
  BY <1>7 DEF Commit, Stop
<1>8. ASSUME NEW r \in Runs, NEW d \in Sessions, Start(r, d) PROVE used' = used
  BY <1>8 DEF Start
<1>9. CASE Around
  <2>1. CASE Advance \/ Reset \/ UNCHANGED vars
    BY <1>3, <2>1 DEF vars, Advance, Reset
  <2>2. CASE TripByHand
    BY <1>1, <1>2, <2>2 DEF TripByHand
  <2>3. ASSUME NEW a \in Actions, Learn(a) PROVE used' = used
    BY <2>3 DEF Learn
  <2>4. ASSUME NEW key \in ToResolve, Resolve(key) PROVE used' = used
    BY <2>4 DEF Resolve
  <2> QED BY <1>3, <1>9, <2>1, <2>2, <2>3, <2>4 DEF Around
<1> QED BY <1>1, <1>2, <1>3, <1>4, <1>5, <1>6, <1>7, <1>8, <1>9, StepIs

\* What a book is entitled to is owed to the earlier sessions alone.
LEMMA EntitledKept ==
  ASSUME NEW d \in Sessions, \A e \in Sessions : e < d => rows'[e] = rows[e],
         NEW seen, seen \subseteq Sightings, \A s \in seen : ExDate[s.action.id] <= d, NEW from
  PROVE  /\ EntitledTo(seen, from)' = EntitledTo(seen, from)
         /\ CreditsEntering(d)' = CreditsEntering(d)
<1>1. ASSUME NEW date \in Sessions, date <= d
      PROVE  /\ MovedBefore(date)' = MovedBefore(date) /\ Latest(date)' = Latest(date)
             /\ Latest(date) # 0 => rows'[Latest(date)] = rows[Latest(date)]
             /\ HeldEntering(date)' = HeldEntering(date)
  <2>1. \A e \in Sessions : e < date => rows'[e] = rows[e]
    BY <1>1 DEF Sessions
  <2>2. MovedBefore(date)' = MovedBefore(date)
    BY <2>1 DEF MovedBefore, Moved
  <2>3. Latest(date)' = Latest(date)
    BY <2>2 DEF Latest
  <2>4. Latest(date) # 0 => rows'[Latest(date)] = rows[Latest(date)]
    BY <2>1, LatestIs DEF MovedBefore
  <2>5. MovedBefore(date) # {} => Latest(date) # 0
    BY LatestIs DEF MovedBefore, Sessions
  <2> QED BY <2>2, <2>3, <2>4, <2>5 DEF HeldEntering
<1>2. ASSUME NEW s \in seen
      PROVE  SharesEntitled(ExDate[s.action.id], seen, from)' =
               SharesEntitled(ExDate[s.action.id], seen, from)
  <2>1. s.action.id \in Ids
    BY DEF Sightings, Actions
  <2>2. ExDate[s.action.id] \in Sessions
    BY <2>1, IdsAssumption
  <2>3. PICK date \in Sessions : date = ExDate[s.action.id]
    BY <2>2
  <2>4. HeldEntering(date)' = HeldEntering(date)
    BY <1>1, <2>3
  <2>5. SharesEntitled(date, seen, from)' = SharesEntitled(date, seen, from)
    BY <2>4 DEF SharesEntitled, SplitsBefore, Applied
  <2> QED BY <2>3, <2>5
<1>3. Amounts(seen, from)' = Amounts(seen, from)
  BY <1>2 DEF Amounts, Applied
<1>4. EntitledTo(seen, from)' = SumOf(Amounts(seen, from), Applied(seen, "dividend"))'
  BY DEF EntitledTo, SumOf, Amounts, MapThenSumSet, MapThenFoldSet
<1>5. SumOf(Amounts(seen, from), Applied(seen, "dividend"))' =
        SumOf(Amounts(seen, from), Applied(seen, "dividend"))
  BY <1>3 DEF SumOf, MapThenSumSet, MapThenFoldSet, Applied
<1>6. EntitledTo(seen, from)' = EntitledTo(seen, from)
  BY <1>4, <1>5, EntitledToIs
<1>7. CreditsEntering(d)' = CreditsEntering(d)
  <2>1. d <= d
    BY DEF Sessions
  <2> QED BY <1>1, <2>1 DEF CreditsEntering
<1> QED BY <1>6, <1>7

\* What a run decides is credited for what it has booked.
LEMMA ExecutedPays ==
  ASSUME Alone, Paying, NEW r \in Runs, NEW row, Executed(r, row), NEW d, d = run[r].session
  PROVE  /\ d \in Sessions /\ row.broker.shares >= 0 /\ row.seen \subseteq Sightings
         /\ IsFiniteSet(row.seen) /\ \A s \in row.seen : ExDate[s.action.id] <= d
         /\ used' = used => row.broker.credits = CreditsEntering(d) + EntitledTo(row.seen, row.from)
<1>0. Ledger
  BY DEF Alone, Typed, Ledger
<1>1. PICK ready : ready = Booked(Restored(d), d)
  OBVIOUS
<1>2. /\ d \in Sessions /\ row.broker.shares >= 0 /\ row.seen = ready.seen
      /\ row.from = Latest(d)
      /\ \/ used' = used /\ row.broker.credits = ready.broker.credits
         \/ used' = [used EXCEPT !["slips"] = @ + 1]
  BY <1>1 DEF Executed
<1>3. Restored(d).broker = IF Latest(d) = 0 THEN Empty ELSE rows[Latest(d)].broker
  BY <1>0, RestoredIs
<1>4. Restored(d).broker.shares >= 0 /\ Restored(d).broker.credits = CreditsEntering(d)
  <2>1. CASE Latest(d) = 0
    BY <1>3, <2>1 DEF Empty, CreditsEntering
  <2>2. CASE Latest(d) # 0
    <3>1. Latest(d) \in Sessions /\ Moved(Latest(d))
      BY <2>2, LatestIs DEF MovedBefore
    <3>2. rows[Latest(d)].broker.shares >= 0
      BY <3>1, RowIs DEF Paying, Entry, Pays
    <3> QED BY <1>3, <2>2, <3>2 DEF CreditsEntering
  <2> QED BY <2>1, <2>2
<1>5. PaysFor(ready, Changed(d) \cup Fresh(d), d)
  BY <1>1, <1>2, <1>4, BookedPays
<1>6. /\ IsFiniteSet(ready.seen) /\ ready.seen \subseteq Sightings
      /\ \A s \in ready.seen : s.action \in Changed(d) \cup Fresh(d)
      /\ ready.broker.credits = CreditsEntering(d) + EntitledTo(ready.seen, Latest(d))
  BY <1>4, <1>5 DEF PaysFor, From, Books
<1>7. \A s \in ready.seen : ExDate[s.action.id] <= d
  BY <1>6 DEF Changed, Fresh, Known
<1>8. used' = used => row.broker.credits = ready.broker.credits
  <2>1. used' = [used EXCEPT !["slips"] = @ + 1] => used' # used
    BY DEF Alone, Typed
  <2> QED BY <1>2, <2>1
<1> QED BY <1>2, <1>6, <1>7, <1>8

\* Every step keeps each row credited so.
LEMMA PayingStep ==
  ASSUME Alone, Paying, [Next]_vars
  PROVE  Paying'
<1> SUFFICES ASSUME NEW d \in Sessions, NEW row \in Rows, Entry(d, row)' PROVE Pays(row, d)'
  BY DEF Paying
<1>1. /\ row.broker.shares >= 0 /\ row.seen \subseteq Sightings /\ IsFiniteSet(row.seen)
      /\ \A s \in row.seen : ExDate[s.action.id] <= d
      /\ used'["slips"] = 0 =>
           row.broker.credits = CreditsEntering(d) + EntitledTo(row.seen, row.from)
  <2>1. CASE Entry(d, row)
    <3>1. Pays(row, d) /\ row.seen \subseteq Sightings
      BY <2>1 DEF Paying, Rows
    <3>2. used'["slips"] = 0 => used["slips"] = 0
      BY SlipsGrow DEF Alone
    <3> QED BY <3>1, <3>2 DEF Pays
  <2>2. ASSUME NEW r \in Runs, run[r].session = d, Executed(r, row)
        PROVE  /\ row.broker.shares >= 0 /\ row.seen \subseteq Sightings
               /\ IsFiniteSet(row.seen) /\ \A s \in row.seen : ExDate[s.action.id] <= d
               /\ used'["slips"] = 0 =>
                    row.broker.credits = CreditsEntering(d) + EntitledTo(row.seen, row.from)
    <3>1. used'["slips"] = 0 => used' = used
      BY <2>2 DEF Executed, Alone, Typed
    <3> QED BY <2>2, <3>1, ExecutedPays
  <2> QED BY <2>1, <2>2, EntryStep DEF Alone
<1>2. \A e \in Sessions : e < d => rows'[e] = rows[e]
  BY EntryStep DEF Alone
<1>3. /\ EntitledTo(row.seen, row.from)' = EntitledTo(row.seen, row.from)
      /\ CreditsEntering(d)' = CreditsEntering(d)
  <2>1. PICK seen, from : seen = row.seen /\ from = row.from
    OBVIOUS
  <2>2. EntitledTo(seen, from)' = EntitledTo(seen, from)
        /\ CreditsEntering(d)' = CreditsEntering(d)
    BY <1>1, <1>2, <2>1, EntitledKept
  <2> QED BY <2>1, <2>2
<1> QED BY <1>1, <1>3 DEF Pays

\* What each session up to one was due, summed, is what the book has been credited with by then.
LEMMA CreditsAddUp ==
  ASSUME Alone, Paying, used["slips"] = 0, NEW due,
         due = [e \in Sessions |-> EntitledTo(rows[e].seen, rows[e].from)],
         NEW d \in Sessions, Moved(d)
  PROVE  rows[d].broker.credits = SumOf(due, MovedBefore(d) \cup {d})
<1>1. ASSUME NEW e \in Sessions, Moved(e)
      PROVE  /\ rows[e].broker.credits = CreditsEntering(e) + due[e]
             /\ due[e] \in Int
  <2>1. rows[e] \in Rows /\ Pays(rows[e], e)
    BY <1>1, RowIs DEF Paying, Entry
  <2>2. PICK seen, from : seen = rows[e].seen /\ from = rows[e].from
    OBVIOUS
  <2>3. seen \subseteq Sightings /\ IsFiniteSet(seen)
    BY <2>1, <2>2 DEF Rows, Pays
  <2>4. EntitledTo(seen, from) \in Int
    <3>1. Ledger
      BY DEF Alone, Typed, Ledger
    <3> QED BY <2>3, <3>1, EntitledToType
  <2> QED BY <2>1, <2>2, <2>4 DEF Pays
<1>2. ASSUME NEW e \in Sessions, Moved(e)
      PROVE  /\ IsFiniteSet(MovedBefore(e) \cup {e}) /\ e \notin MovedBefore(e)
             /\ \A f \in MovedBefore(e) \cup {e} : due[f] \in Int
  <2>1. IsFiniteSet(Sessions)
    BY FS_Interval, SessionsAssumption DEF Sessions
  <2>2. MovedBefore(e) \cup {e} \in SUBSET Sessions
    BY DEF MovedBefore
  <2>3. IsFiniteSet(MovedBefore(e) \cup {e})
    BY <2>1, <2>2, FS_Subset
  <2> QED BY <1>1, <1>2, <2>3 DEF MovedBefore, Sessions
<1> DEFINE Bad == {e \in Sessions : Moved(e) /\
                     rows[e].broker.credits # SumOf(due, MovedBefore(e) \cup {e})}
<1>3. Bad = {}
  <2> SUFFICES ASSUME Bad # {} PROVE FALSE
    OBVIOUS
  <2>1. PICK e \in Bad : \A f \in Bad : e <= f
    <3>1. Bad \subseteq Nat
      BY DEF Sessions
    <3> HIDE DEF Bad
    <3> QED BY <3>1, LeastNat
  <2>2. e \in Sessions /\ Moved(e)
        /\ rows[e].broker.credits # SumOf(due, MovedBefore(e) \cup {e})
    OBVIOUS
  <2>3. PICK before, upto : before = MovedBefore(e) /\ upto = MovedBefore(e) \cup {e}
    OBVIOUS
  <2>4. SumOf(due, upto) = due[e] + SumOf(due, before)
    <3>1. /\ IsFiniteSet(upto) /\ e \in upto /\ before = upto \ {e}
          /\ \A f \in upto : due[f] \in Int
      BY <1>2, <2>2, <2>3
    <3> QED BY <3>1, SumAdd
  <2>5. SumOf(due, before) = CreditsEntering(e)
    <3>1. CASE Latest(e) = 0
      <4>1. before = {}
        BY <2>3, <3>1, LatestIs DEF MovedBefore, Sessions
      <4> QED BY <3>1, <4>1, FS_EmptySet, SumUnfolds DEF CreditsEntering
    <3>2. CASE Latest(e) # 0
      <4>1. PICK last : last = Latest(e)
        OBVIOUS
      <4>2. /\ last \in Sessions /\ Moved(last) /\ last < e
            /\ \A f \in MovedBefore(e) : f <= last
        BY <3>2, <4>1, LatestIs DEF MovedBefore
      <4>3. last \notin Bad
        BY <2>1, <2>2, <4>2 DEF Sessions
      <4>4. before = MovedBefore(last) \cup {last}
        BY <2>2, <2>3, <4>2 DEF MovedBefore, Sessions
      <4> QED BY <3>2, <4>1, <4>2, <4>3, <4>4 DEF CreditsEntering
    <3> QED BY <3>1, <3>2
  <2>6. rows[e].broker.credits = CreditsEntering(e) + due[e] /\ due[e] \in Int
    BY <1>1, <2>2
  <2>7. CreditsEntering(e) \in Int
    <3>1. \A f \in Sessions : rows[f].broker.credits \in Int
      BY RowIs DEF Rows, Sides
    <3> QED BY <3>1, LatestIs DEF CreditsEntering, MovedBefore
  <2> QED BY <2>2, <2>3, <2>4, <2>5, <2>6, <2>7
<1> QED BY <1>3

\* The book has been credited for each dividend it booked, and for nothing else, on the shares it
\* held entering the ex-date, on time or late, whatever it traded since or had split since.
THEOREM DividendsAsEntitled ==
  ASSUME ~Concurrent
  PROVE  Spec => []CreditedAsEntitled
<1>1. Init => Paying
  <2> SUFFICES ASSUME Init PROVE Paying
    OBVIOUS
  <2>1. \A d \in Sessions : ~Moved(d)
    BY EmptyRows DEF Init, Moved
  <2>2. \A r \in Runs : run[r].phase = "idle"
    BY DEF Init, Idle
  <2> QED BY <2>1, <2>2 DEF Paying, Entry
<1>2. Alone /\ Paying /\ [Next]_vars => Paying'
  BY PayingStep
<1>3. Alone /\ Paying => CreditedAsEntitled
  <2> SUFFICES ASSUME Alone, Paying PROVE CreditedAsEntitled
    OBVIOUS
  <2> DEFINE due == [e \in Sessions |-> EntitledTo(rows[e].seen, rows[e].from)]
  <2>1. ASSUME NEW d \in Sessions, Moved(d), used.slips = 0
        PROVE  rows[d].broker.credits = SumOf(due, MovedBefore(d) \cup {d})
    <3>1. PICK f : f = due
      OBVIOUS
    <3>2. rows[d].broker.credits = SumOf(f, MovedBefore(d) \cup {d})
      BY <2>1, <3>1, CreditsAddUp
    <3> QED BY <3>1, <3>2
  <2>2. CreditedAsEntitled <=>
          \A d \in Sessions : Moved(d) /\ used.slips = 0 =>
            rows[d].broker.credits = SumOf(due, MovedBefore(d) \cup {d})
    BY DEF CreditedAsEntitled, SumOf
  <2> QED BY <2>1, <2>2
<1> QED BY <1>1, <1>2, <1>3, AloneAlways, PTL DEF Spec

=============================================================================
