-------------------------- MODULE KillSwitchProofs --------------------------
(***************************************************************************)
(* Proofs about KillSwitch, for any number of processes and causes.        *)
(***************************************************************************)
EXTENDS KillSwitch, TLAPS

\* What a process that has seen the last transition remembers is what the file says.
Fresh == \A p \in Processes : pc[p] # "dead" /\ read[p] = written => memory[p] = file

\* What the code reads or writes is a switch state: missing, tripped with a cause, re-armed.
LEMMA StatesClosed ==
  ASSUME NEW s \in State, NEW cause \in Causes
  PROVE  Missing \in State /\ Tripped(s, cause) \in State /\ Rearmed(s) \in State
BY CauseAssumption DEF State, Missing, Tripped, Rearmed

\* The latch, each process's copy of it and its program counter keep their types.
THEOREM TypeCorrect == Spec => []TypeOK
<1>1. Init => TypeOK
  BY DEF Init, TypeOK, State, Missing
<1>2. TypeOK /\ [Next]_vars => TypeOK'
  <2> SUFFICES ASSUME TypeOK, [Next]_vars PROVE TypeOK'
    OBVIOUS
  <2>1. CASE UNCHANGED vars
    BY <2>1 DEF TypeOK, vars
  <2>2. ASSUME NEW p \in Processes, Construct(p) PROVE TypeOK'
    BY <2>2 DEF TypeOK, Construct, Read
  <2>3. ASSUME NEW p \in Processes, NEW cause \in Causes, Trip(p, cause) PROVE TypeOK'
    <3>1. Tripped(memory[p], cause) \in State
      BY StatesClosed DEF TypeOK
    <3> QED BY <2>3, <3>1 DEF TypeOK, Trip, Prepare
  <2>4. ASSUME NEW p \in Processes, Reset(p) PROVE TypeOK'
    <3>1. CASE memory[p].cause \in Causes \cup {None}
      <4>1. Rearmed(memory[p]) \in State
        BY <3>1 DEF Rearmed, State
      <4> QED BY <2>4, <4>1 DEF TypeOK, Reset, Prepare
    <3>2. memory[p].cause \in Causes \cup {None}
      BY DEF TypeOK, State
    <3> QED BY <3>1, <3>2
  <2>5. ASSUME NEW p \in Processes, Replace(p) PROVE TypeOK'
    BY <2>5 DEF TypeOK, Replace
  <2>6. ASSUME NEW p \in Processes, WriteFails(p) PROVE TypeOK'
    BY <2>6 DEF TypeOK, WriteFails
  <2>7. ASSUME NEW p \in Processes, Place(p) PROVE TypeOK'
    BY <2>7 DEF TypeOK, Place
  <2>8. ASSUME NEW p \in Processes, Crash(p) PROVE TypeOK'
    BY <2>8 DEF TypeOK, Crash
  <2> QED BY <2>1, <2>2, <2>3, <2>4, <2>5, <2>6, <2>7, <2>8 DEF Next
<1> QED BY <1>1, <1>2, PTL DEF Spec

-----------------------------------------------------------------------------
(* Any number of processes at once *)

\* A step keeps Fresh: only the process that wrote the file last is sure to hold a fresh copy.
LEMMA FreshStep ==
  ASSUME TypeOK, Fresh, [Next]_vars
  PROVE  Fresh'
<1>1. CASE UNCHANGED vars
  BY <1>1 DEF Fresh, vars
<1>2. ASSUME NEW p \in Processes, Construct(p) PROVE Fresh'
  BY <1>2 DEF TypeOK, Fresh, Construct, Read
<1>3. ASSUME NEW p \in Processes, NEW cause \in Causes, Trip(p, cause) PROVE Fresh'
  BY <1>3 DEF TypeOK, Fresh, Trip, CanTrip, Prepare
<1>4. ASSUME NEW p \in Processes, Reset(p) PROVE Fresh'
  BY <1>4 DEF TypeOK, Fresh, Reset, CanReset, Prepare
<1>5. ASSUME NEW p \in Processes, Replace(p) PROVE Fresh'
  <2> SUFFICES ASSUME NEW q \in Processes, read'[q] = written'
               PROVE  memory'[q] = file'
    BY DEF Fresh
  <2>1. CASE q = p
    <3>1. memory \in [Processes -> State] /\ memory' = [memory EXCEPT ![p] = temp[p]]
      BY <1>5 DEF TypeOK, Replace
    <3>2. memory'[p] = temp[p] /\ file' = temp[p]
      BY <1>5, <3>1 DEF Replace
    <3> QED BY <2>1, <3>2
  <2>2. CASE q # p
    <3>1. read'[q] = read[q] /\ read[q] \in 0..written /\ written' = written + 1
      BY <1>5, <2>2 DEF TypeOK, Replace
    <3>2. read[q] = written + 1 /\ written \in Nat
      BY <3>1 DEF TypeOK
    <3>3. FALSE
      BY <3>1, <3>2
    <3> QED BY <3>3
  <2> QED BY <2>1, <2>2
<1>6. ASSUME NEW p \in Processes, WriteFails(p) PROVE Fresh'
  BY <1>6 DEF TypeOK, Fresh, WriteFails
<1>7. ASSUME NEW p \in Processes, Place(p) PROVE Fresh'
  BY <1>7 DEF TypeOK, Fresh, Place
<1>8. ASSUME NEW p \in Processes, Crash(p) PROVE Fresh'
  BY <1>8 DEF TypeOK, Fresh, Crash
<1> QED BY <1>1, <1>2, <1>3, <1>4, <1>5, <1>6, <1>7, <1>8 DEF Next

\* A placement while the file says tripped is only ever made by a process that has not
\* seen its last transition, however many processes share the switch.
THEOREM SeenHalt == Spec => SeenHaltHolds
<1>1. Init => Fresh
  BY DEF Init, Fresh
<1>2. TypeOK /\ Fresh /\ [Next]_vars => Fresh'
  BY FreshStep
<1>3. TypeOK /\ Fresh /\ [Next]_vars =>
        [\A p \in Processes : PlacesNow(p) /\ file.tripped => read[p] < written]_vars
  <2> SUFFICES ASSUME TypeOK, Fresh, Next, NEW p \in Processes, PlacesNow(p), file.tripped
               PROVE  read[p] < written
    BY DEF vars, PlacesNow
  <2>1. Place(p)
    <3>1. PICK q \in Processes : Place(q)
      BY DEF Next, PlacesNow, Construct, Trip, Reset, Prepare, Replace, WriteFails, Crash
    <3>2. p = q
      BY <3>1 DEF Place, PlacesNow, TypeOK
    <3> QED BY <3>1, <3>2
  <2>2. pc[p] = "ready" /\ ~memory[p].tripped
    BY <2>1 DEF Place
  <2>3. read[p] # written
    BY <2>2 DEF Fresh
  <2> QED BY <2>3 DEF TypeOK
<1> QED BY <1>1, <1>2, <1>3, TypeCorrect, PTL DEF Spec, SeenHaltHolds

-----------------------------------------------------------------------------
(* A process that has the switch to itself: the daily job, then the operator, ... *)

\* The one process alive remembers the file, and is about to write what follows from it.
Alone == alone =>
  /\ \A p, q \in Processes : p # q => pc[p] = "dead" \/ pc[q] = "dead"
  /\ \A p \in Processes : pc[p] # "dead" => memory[p] = file
  /\ \A p \in Processes : pc[p] = "writing" =>
       IF file.tripped THEN temp[p] = Rearmed(file)
       ELSE \E cause \in Causes : temp[p] = Tripped(file, cause)

\* A step keeps Alone: with the switch to itself, a process's copy is the file.
LEMMA AloneStep ==
  ASSUME TypeOK, Alone, [Next]_vars
  PROVE  Alone'
<1>1. CASE UNCHANGED vars
  BY <1>1 DEF Alone, vars
<1>2. ASSUME NEW p \in Processes, Construct(p) PROVE Alone'
  BY <1>2 DEF TypeOK, Alone, Construct, Read
<1>3. ASSUME NEW p \in Processes, NEW cause \in Causes, Trip(p, cause) PROVE Alone'
  BY <1>3 DEF TypeOK, Alone, Trip, CanTrip, Prepare
<1>4. ASSUME NEW p \in Processes, Reset(p) PROVE Alone'
  BY <1>4 DEF TypeOK, Alone, Reset, CanReset, Prepare
<1>5. ASSUME NEW p \in Processes, Replace(p) PROVE Alone'
  BY <1>5 DEF TypeOK, Alone, Replace
<1>6. ASSUME NEW p \in Processes, WriteFails(p) PROVE Alone'
  BY <1>6 DEF TypeOK, Alone, WriteFails
<1>7. ASSUME NEW p \in Processes, Place(p) PROVE Alone'
  BY <1>7 DEF TypeOK, Alone, Place
<1>8. ASSUME NEW p \in Processes, Crash(p) PROVE Alone'
  BY <1>8 DEF TypeOK, Alone, Crash
<1> QED BY <1>1, <1>2, <1>3, <1>4, <1>5, <1>6, <1>7, <1>8 DEF Next

\* A process that has the switch to itself always holds the file's own state.
LEMMA AloneAlways == Spec => []Alone
<1>1. Init => Alone
  BY DEF Init, Alone
<1>2. TypeOK /\ Alone /\ [Next]_vars => Alone'
  BY AloneStep
<1> QED BY <1>1, <1>2, TypeCorrect, PTL DEF Spec

\* The file changes by the rename of one process, and an order is placed by one.
LEMMA FileChanges ==
  ASSUME [Next]_vars, file' # file
  PROVE  \E p \in Processes : Replace(p)
BY DEF Next, vars, Construct, Trip, Reset, Prepare, WriteFails, Place, Crash

\* With the switch to itself a process places nothing while it is tripped: not after a
\* crash, a restart or a write that failed.
THEOREM HaltAlone == Spec => HaltHoldsAlone
<1>1. Alone /\ TypeOK /\ [Next]_vars =>
        [alone => \A p \in Processes : PlacesNow(p) => ~file.tripped]_vars
  <2> SUFFICES ASSUME Alone, alone, TypeOK, Next, NEW p \in Processes, PlacesNow(p)
               PROVE  ~file.tripped
    BY DEF vars, PlacesNow
  <2>1. PICK q \in Processes : Place(q)
    BY DEF Next, PlacesNow, Construct, Trip, Reset, Prepare, Replace, WriteFails, Crash
  <2> QED BY <2>1 DEF Place, Alone
<1> QED BY <1>1, AloneAlways, TypeCorrect, PTL DEF HaltHoldsAlone, Spec

\* With the switch to one process, the first cause of a halt is never replaced.
THEOREM FirstCauseAlone == Spec => FirstCauseKept
<1>1. Alone /\ [Next]_vars =>
        [alone /\ file.tripped /\ file'.tripped => file'.cause = file.cause]_vars
  <2> SUFFICES ASSUME Alone, alone, [Next]_vars, file.tripped, file'.tripped
               PROVE  file'.cause = file.cause
    OBVIOUS
  <2>1. CASE file' = file
    BY <2>1
  <2>2. CASE file' # file
    <3>1. PICK p \in Processes : Replace(p)
      BY <2>2, FileChanges
    <3>2. file' = temp[p] /\ temp[p] = Rearmed(file)
      BY <3>1 DEF Alone, Replace
    <3> QED BY <3>2 DEF Rearmed
  <2> QED BY <2>1, <2>2
<1> QED BY <1>1, AloneAlways, PTL DEF FirstCauseKept, Spec

\* With the switch to one process, the trace of a reset is kept until the next reset of a
\* tripped switch, which names the trip it cleared.
THEOREM ResetTraceAlone == Spec => ResetTracesTheTrip
<1>1. Alone /\ [Next]_vars =>
        [alone /\ file'.cleared # file.cleared =>
           file.tripped /\ ~file'.tripped /\ file'.cleared = file.cause]_vars
  <2> SUFFICES ASSUME Alone, alone, [Next]_vars, file'.cleared # file.cleared
               PROVE  file.tripped /\ ~file'.tripped /\ file'.cleared = file.cause
    OBVIOUS
  <2>1. PICK p \in Processes : Replace(p)
    BY FileChanges
  <2>2. file' = temp[p] /\ pc[p] = "writing"
    BY <2>1 DEF Replace
  <2>3. CASE file.tripped
    BY <2>2, <2>3 DEF Alone, Rearmed
  <2>4. CASE ~file.tripped
    <3>1. PICK cause \in Causes : temp[p] = Tripped(file, cause)
      BY <2>2, <2>4 DEF Alone
    <3>2. file'.cleared = file.cleared
      BY <2>2, <3>1 DEF Tripped
    <3> QED BY <3>2
  <2> QED BY <2>3, <2>4
<1> QED BY <1>1, AloneAlways, PTL DEF ResetTracesTheTrip, Spec
=============================================================================
