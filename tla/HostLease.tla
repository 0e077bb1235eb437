----------------------------- MODULE HostLease -----------------------------
(***************************************************************************)
(* The lease on one host's request budget (dataplatform/ingest/lease.py):  *)
(* a file created with O_EXCL by the driver that will fetch, and removed   *)
(* when it is done.  A driver that finds the file refuses to start, unless *)
(* the holder is gone, the lease is older than its TTL or the file is      *)
(* unreadable: then it removes the file and creates its own.               *)
(*                                                                         *)
(* Reading the file and removing it are two steps, so are creating it and  *)
(* writing the holder into it, and other drivers run in between.           *)
(***************************************************************************)

CONSTANT Drivers    \* the processes that fetch from the host

VARIABLES
  lease,     \* the file
  hold,      \* where each driver is in host_lease
  read,      \* the file as a driver read it when it chose to break it
  raced      \* a live driver's file was removed by another (observer, see Removes)

vars == <<lease, hold, read, raced>>

\* live: the process that created the file still runs.  old: it did so longer ago than the TTL.
NoLease == [is |-> "absent"]
Leases == {NoLease} \cup
          [is : {"short", "whole"}, by : Drivers, live : BOOLEAN, old : BOOLEAN]
Steps == {"none", "take", "found", "break", "retake", "busy", "writing", "held", "unlink"}

Init ==
  /\ lease = NoLease
  /\ hold = [p \in Drivers |-> "none"]
  /\ read = [p \in Drivers |-> NoLease]
  /\ raced = FALSE

Goes(p, step) == hold' = [hold EXCEPT ![p] = step]
Mine(p) == lease # NoLease /\ lease.by = p /\ lease.live

-----------------------------------------------------------------------------
(* _take *)

Take(p) ==
  /\ hold[p] = "none"
  /\ Goes(p, "take")
  /\ UNCHANGED <<lease, read, raced>>

\* _create: O_EXCL decides who wins.  The second time, losing is final.
Create(p) ==
  /\ hold[p] \in {"take", "retake"}
  /\ IF lease = NoLease
     THEN /\ lease' = [is |-> "short", by |-> p, live |-> TRUE, old |-> FALSE]
          /\ Goes(p, "writing")
     ELSE /\ Goes(p, IF hold[p] = "take" THEN "found" ELSE "busy")
          /\ UNCHANGED lease
  /\ UNCHANGED <<read, raced>>

\* The holder is written into the file created, which may have been removed since.
Write(p) ==
  /\ hold[p] = "writing"
  /\ lease' = IF Mine(p) THEN [lease EXCEPT !.is = "whole"] ELSE lease
  /\ Goes(p, "held")
  /\ UNCHANGED <<read, raced>>

\* Mutant: no pid is looked up.
BreakableAlways(file) == TRUE

\* read_lease, _is_breakable: a file that is gone or unreadable, of a process that is gone, or old.
Breakable(file) == file = NoLease \/ file.is = "short" \/ ~file.live \/ file.old

Find(p) ==
  /\ hold[p] = "found"
  /\ IF Breakable(lease)
     THEN Goes(p, "break") /\ read' = [read EXCEPT ![p] = lease]
     ELSE Goes(p, "busy") /\ UNCHANGED read
  /\ UNCHANGED <<lease, raced>>

\* p removes the file, whatever it is by now.  Another live driver's goes with it where it is no
\* longer the file p read, was being written, or had outlived its TTL.
Removes(p) ==
  /\ lease' = NoLease
  /\ raced' = (raced \/ /\ lease # NoLease /\ lease.live /\ lease.by # p
                        /\ lease # read[p] \/ lease.is = "short" \/ lease.old)

Break(p) ==
  /\ hold[p] = "break"
  /\ Removes(p)
  /\ Goes(p, "retake")
  /\ read' = [read EXCEPT ![p] = NoLease]

\* HostBusyError reaches the caller.
Refused(p) ==
  /\ hold[p] = "busy"
  /\ Goes(p, "none")
  /\ UNCHANGED <<lease, read, raced>>

-----------------------------------------------------------------------------
(* _release: another holder's lease is left alone *)

Release(p) ==
  /\ hold[p] = "held"
  /\ Goes(p, IF lease # NoLease /\ lease.is = "whole" /\ ~Mine(p) THEN "none" ELSE "unlink")
  /\ UNCHANGED <<lease, read, raced>>

Unlink(p) ==
  /\ hold[p] = "unlink"
  /\ Removes(p)
  /\ Goes(p, "none")
  /\ UNCHANGED read

-----------------------------------------------------------------------------
(* What happens to a driver and to a lease *)

Dies(p) ==
  /\ hold' = [hold EXCEPT ![p] = "none"]
  /\ lease' = IF Mine(p) THEN [lease EXCEPT !.live = FALSE] ELSE lease
  /\ read' = [read EXCEPT ![p] = NoLease]
  /\ UNCHANGED raced

Ages ==
  /\ lease # NoLease /\ ~lease.old
  /\ lease' = [lease EXCEPT !.old = TRUE]
  /\ UNCHANGED <<hold, read, raced>>

Next ==
  \/ \E p \in Drivers :
       \/ Take(p) \/ Create(p) \/ Write(p) \/ Find(p) \/ Break(p) \/ Refused(p)
       \/ Release(p) \/ Unlink(p) \/ Dies(p)
  \/ Ages

Spec == Init /\ [][Next]_vars

-----------------------------------------------------------------------------
(* Properties *)

\* The file and the drivers are well formed.
TypeOK ==
  /\ lease \in Leases /\ read \in [Drivers -> Leases]
  /\ hold \in [Drivers -> Steps]
  /\ raced \in BOOLEAN

\* Two drivers fetch from the host at once only after a live driver's lease was removed past
\* its TTL, while it was being written, or by one that had read another ("exactly one driver
\* per lake is fetching from one host at a time").
OneDriver == \A p, q \in Drivers : hold[p] = "held" /\ hold[q] = "held" => p = q \/ raced
=============================================================================
