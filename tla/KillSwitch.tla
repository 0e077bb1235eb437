----------------------------- MODULE KillSwitch -----------------------------
(***************************************************************************)
(* The kill switch (execution/kill_switch.py, class KillSwitch): a latch   *)
(* on order placement kept in one file, read once by each process that     *)
(* constructs a switch on it.  The daily job is one such process, the      *)
(* operator's command line another.                                        *)
(*                                                                         *)
(* A cause stands for the reason, source and time of a trip.  trip() and   *)
(* reset() are two steps, the temp file and the rename: a process may die  *)
(* or fail in between, and the others run.                                 *)
(***************************************************************************)
EXTENDS Naturals

CONSTANTS
  Processes,    \* those that may hold a KillSwitch on the file
  Causes,       \* why a switch may be tripped
  None,         \* no cause
  MaxWrites,    \* bound on the transitions written to the file
  MaxOrders     \* bound on the orders each process places

ASSUME CauseAssumption == None \notin Causes
ASSUME BoundsAssumption == MaxWrites \in Nat /\ MaxOrders \in Nat

VARIABLES
  file,      \* the state on disk; a missing file reads as never tripped
  memory,    \* _state, per process
  temp,      \* the state a process is about to rename into place
  pc,        \* where each process is
  written,   \* transitions renamed into place so far
  read,      \* how many of them had been when a process last read or wrote it (observer)
  orders,    \* the orders each process handed to a broker
  alone      \* the process alive, if any, has had the switch to itself (observer)

vars == <<file, memory, temp, pc, written, read, orders, alone>>

\* KillSwitchState: the latch, its cause, and the cause its last reset cleared.  It has a
\* cause exactly while it is tripped.
State == {s \in [tripped : BOOLEAN, cause : Causes \cup {None}, cleared : Causes \cup {None}] :
            s.tripped <=> s.cause # None}
Missing == [tripped |-> FALSE, cause |-> None, cleared |-> None]

\* Mutant: the cause outlives the trip.
RearmedWithCause(s) == [tripped |-> FALSE, cause |-> s.cause, cleared |-> s.cause]

Tripped(s, cause) == [tripped |-> TRUE, cause |-> cause, cleared |-> s.cleared]
Rearmed(s) == [tripped |-> FALSE, cause |-> None, cleared |-> s.cause]

Init ==
  /\ file = Missing
  /\ memory = [p \in Processes |-> Missing]
  /\ temp = [p \in Processes |-> Missing]
  /\ pc = [p \in Processes |-> "dead"]
  /\ written = 0
  /\ read = [p \in Processes |-> 0]
  /\ orders = [p \in Processes |-> 0]
  /\ alone = TRUE

-----------------------------------------------------------------------------
(* __init__, _read *)

\* Mutant: a switch starts armed, whatever the file says.
ReadArmed(p) == Missing
Read(p) == file

Construct(p) ==
  /\ pc[p] = "dead"
  /\ pc' = [pc EXCEPT ![p] = "ready"]
  /\ memory' = [memory EXCEPT ![p] = Read(p)]
  /\ read' = [read EXCEPT ![p] = written]
  /\ alone' = \A q \in Processes : pc[q] = "dead"
  /\ UNCHANGED <<file, temp, written, orders>>

-----------------------------------------------------------------------------
(* trip and reset, each a no-op when the latch already stands that way *)

Prepare(p, s) == /\ temp' = [temp EXCEPT ![p] = s]
                 /\ pc' = [pc EXCEPT ![p] = "writing"]
                 /\ UNCHANGED <<file, memory, written, read, orders, alone>>

\* Mutant: a second trip replaces the first cause.
CanTripAgain(p) == pc[p] = "ready" /\ written < MaxWrites
CanTrip(p) == pc[p] = "ready" /\ written < MaxWrites /\ ~memory[p].tripped

Trip(p, cause) == CanTrip(p) /\ Prepare(p, Tripped(memory[p], cause))

\* Mutant: re-running a reset is not a no-op.
CanResetAgain(p) == pc[p] = "ready" /\ written < MaxWrites
CanReset(p) == pc[p] = "ready" /\ written < MaxWrites /\ memory[p].tripped

Reset(p) == CanReset(p) /\ Prepare(p, Rearmed(memory[p]))

\* Mutant: the copy is not what was written.
ReplaceFileOnly(p) ==
  /\ pc[p] = "writing"
  /\ file' = temp[p]
  /\ pc' = [pc EXCEPT ![p] = "ready"]
  /\ written' = written + 1
  /\ read' = [read EXCEPT ![p] = written + 1]
  /\ UNCHANGED <<temp, memory, orders, alone>>

\* _write: the rename, then the process's own copy.
Replace(p) ==
  /\ pc[p] = "writing"
  /\ file' = temp[p]
  /\ memory' = [memory EXCEPT ![p] = temp[p]]
  /\ pc' = [pc EXCEPT ![p] = "ready"]
  /\ written' = written + 1
  /\ read' = [read EXCEPT ![p] = written + 1]
  /\ UNCHANGED <<temp, orders, alone>>

\* _write raises: the temp file is dropped, the state on disk and in memory stands.
WriteFails(p) ==
  /\ pc[p] = "writing"
  /\ pc' = [pc EXCEPT ![p] = "ready"]
  /\ UNCHANGED <<file, memory, temp, written, read, orders, alone>>

\* require_placement_allowed returns, and an order goes to the broker.
Place(p) ==
  /\ pc[p] = "ready" /\ orders[p] < MaxOrders
  /\ ~memory[p].tripped
  /\ orders' = [orders EXCEPT ![p] = @ + 1]
  /\ UNCHANGED <<file, memory, temp, pc, written, read, alone>>

Crash(p) ==
  /\ pc[p] # "dead"
  /\ pc' = [pc EXCEPT ![p] = "dead"]
  /\ UNCHANGED <<file, memory, temp, written, read, orders, alone>>

Next == \E p \in Processes :
  \/ Construct(p)
  \/ \E cause \in Causes : Trip(p, cause)
  \/ Reset(p)
  \/ Replace(p)
  \/ WriteFails(p)
  \/ Place(p)
  \/ Crash(p)

Spec == Init /\ [][Next]_vars

-----------------------------------------------------------------------------
(* Properties *)

\* The file, every copy and every temp file is a well-formed state: a cause while tripped and
\* none while armed, so a reset leaves nothing of the trip but its trace (from_json, reset).
TypeOK ==
  /\ file \in State
  /\ memory \in [Processes -> State] /\ temp \in [Processes -> State]
  /\ pc \in [Processes -> {"dead", "ready", "writing"}]
  /\ written \in Nat
  /\ read \in [Processes -> 0..written]
  /\ orders \in [Processes -> Nat]
  /\ alone \in BOOLEAN

PlacesNow(p) == orders'[p] # orders[p]

\* Whatever the interleaving, crash or failed write, a process that has read or written
\* the file since its last transition places nothing while it says tripped: only a
\* process whose copy is older than the trip can (__init__, require_placement_allowed).
SeenHaltHolds == [][\A p \in Processes : PlacesNow(p) /\ file.tripped => read[p] < written]_vars

\* Nothing is placed while the switch is tripped ("What it never does: [...] let a
\* placement through while tripped"), whatever the processes.
HaltHolds == [][\A p \in Processes : PlacesNow(p) => ~file.tripped]_vars

\* The same of a process that has had the switch to itself since it was constructed, across
\* the crashes, restarts and failed writes of those before it.
HaltHoldsAlone == [][alone => \A p \in Processes : PlacesNow(p) => ~file.tripped]_vars

\* A switch tripped again before its reset keeps the cause of the first trip, unless two
\* processes hold copies of it (trip: "Re-tripping [...] keeps the *first* cause").
FirstCauseKept ==
  [][alone /\ file.tripped /\ file'.tripped => file'.cause = file.cause]_vars

\* The trace of the last reset is only ever replaced by the reset of a tripped switch, and
\* names the cause that reset cleared, unless two processes hold copies (reset, ResetRecord).
ResetTracesTheTrip ==
  [][alone /\ file'.cleared # file.cleared =>
       file.tripped /\ ~file'.tripped /\ file'.cleared = file.cause]_vars
=============================================================================
