-------------------------- MODULE HostLeaseProofs --------------------------
(***************************************************************************)
(* For any number of drivers, two of them hold the lease only after a live *)
(* driver's file was removed in one of the ways raced records.             *)
(***************************************************************************)
EXTENDS HostLease, TLAPS

Holding == {"writing", "held", "unlink"}

\* Until a live driver's file is removed, whoever has created the file still finds its own there.
HoldersOwnIt == ~raced => \A p \in Drivers : hold[p] \in Holding => Mine(p)

\* What a driver is about to break was breakable when it read it.
BreaksTheBreakable == \A p \in Drivers : hold[p] = "break" => Breakable(read[p])

IInv == TypeOK /\ HoldersOwnIt /\ BreaksTheBreakable

\* Nobody holds anything at first.
LEMMA InitInv == Init => IInv
  BY DEF Init, IInv, TypeOK, HoldersOwnIt, BreaksTheBreakable, Leases, Steps, NoLease, Holding

\* The two ways a file is removed: of a driver that breaks what it read, and of one that is done.
LEMMA BreakKeepsIt ==
  ASSUME IInv, NEW p \in Drivers, Break(p)
  PROVE  HoldersOwnIt'
<1> SUFFICES ASSUME ~raced', NEW q \in Drivers, hold'[q] \in Holding
             PROVE  Mine(q)'
  BY DEF HoldersOwnIt
<1>1. q # p /\ hold[q] \in Holding
  BY DEF Break, Goes, IInv, TypeOK, Holding
<1>2. ~raced
  BY DEF Break, Removes
<1>3. Mine(q)
  BY <1>1, <1>2 DEF IInv, HoldersOwnIt
<1>4. Breakable(read[p])
  BY DEF IInv, BreaksTheBreakable, Break
<1>5. ~(lease # read[p] \/ lease.is = "short" \/ lease.old)
  BY <1>1, <1>3 DEF Break, Removes, Mine
<1> QED
  BY <1>3, <1>4, <1>5 DEF Breakable, Mine

\* A driver that is done unlinks its own file.
LEMMA UnlinkKeepsIt ==
  ASSUME IInv, NEW p \in Drivers, Unlink(p)
  PROVE  HoldersOwnIt'
<1> SUFFICES ASSUME ~raced', NEW q \in Drivers, hold'[q] \in Holding
             PROVE  Mine(q)'
  BY DEF HoldersOwnIt
<1>1. q # p /\ hold[q] \in Holding /\ hold[p] \in Holding /\ ~raced
  BY DEF Unlink, Goes, IInv, TypeOK, Holding, Removes
<1>2. Mine(q) /\ Mine(p)
  BY <1>1 DEF IInv, HoldersOwnIt
<1> QED
  BY <1>1, <1>2 DEF Mine

\* Every step keeps the file and the drivers well formed.
LEMMA TypeStep ==
  ASSUME TypeOK, [Next]_vars
  PROVE  TypeOK'
<1> USE DEF TypeOK, Leases, Steps, NoLease, Goes
<1>1. ASSUME NEW p \in Drivers, Take(p) PROVE TypeOK'
  BY <1>1 DEF Take
<1>2. ASSUME NEW p \in Drivers, Create(p) PROVE TypeOK'
  <2>1. lease' \in Leases
    <3>1. CASE lease = NoLease
      <4>1. lease' = [is |-> "short", by |-> p, live |-> TRUE, old |-> FALSE]
        BY <1>2, <3>1 DEF Create
      <4> QED
        BY <4>1 DEF Leases
    <3> QED
      BY <1>2, <3>1 DEF Create
  <2>2. hold' \in [Drivers -> Steps]
    BY <1>2 DEF Create
  <2> QED
    BY <1>2, <2>1, <2>2 DEF Create
<1>3. ASSUME NEW p \in Drivers, Write(p) PROVE TypeOK'
  <2>1. lease' \in Leases
    BY <1>3 DEF Write, Mine
  <2> QED
    BY <1>3, <2>1 DEF Write
<1>4. ASSUME NEW p \in Drivers, Find(p) PROVE TypeOK'
  BY <1>4 DEF Find
<1>5. ASSUME NEW p \in Drivers, Break(p) PROVE TypeOK'
  BY <1>5 DEF Break, Removes
<1>6. ASSUME NEW p \in Drivers, Refused(p) PROVE TypeOK'
  BY <1>6 DEF Refused
<1>7. ASSUME NEW p \in Drivers, Release(p) PROVE TypeOK'
  BY <1>7 DEF Release
<1>8. ASSUME NEW p \in Drivers, Unlink(p) PROVE TypeOK'
  BY <1>8 DEF Unlink, Removes
<1>9. ASSUME NEW p \in Drivers, Dies(p) PROVE TypeOK'
  <2>1. lease' \in Leases
    BY <1>9 DEF Dies, Mine
  <2> QED
    BY <1>9, <2>1 DEF Dies
<1>10. ASSUME Ages PROVE TypeOK'
  BY <1>10 DEF Ages
<1> QED
  BY <1>1, <1>2, <1>3, <1>4, <1>5, <1>6, <1>7, <1>8, <1>9, <1>10 DEF Next, vars

\* And the whole invariant.
LEMMA InvStep ==
  ASSUME IInv, [Next]_vars
  PROVE  IInv'
<1>1. TypeOK'
  BY TypeStep DEF IInv
<1> USE DEF IInv, TypeOK, HoldersOwnIt, BreaksTheBreakable, Holding, Goes, Mine
<1>2. ASSUME NEW p \in Drivers, Take(p) PROVE IInv'
  BY <1>1, <1>2 DEF Take
<1>3. ASSUME NEW p \in Drivers, Create(p) PROVE IInv'
  BY <1>1, <1>3 DEF Create, NoLease
<1>4. ASSUME NEW p \in Drivers, Write(p) PROVE IInv'
  BY <1>1, <1>4 DEF Write, Leases, NoLease
<1>5. ASSUME NEW p \in Drivers, Find(p) PROVE IInv'
  BY <1>1, <1>5 DEF Find, Breakable
<1>6. ASSUME NEW p \in Drivers, Break(p) PROVE IInv'
  <2>1. HoldersOwnIt'
    BY <1>6, BreakKeepsIt
  <2>2. BreaksTheBreakable'
    BY <1>6 DEF Break
  <2> QED
    BY <1>1, <2>1, <2>2
<1>7. ASSUME NEW p \in Drivers, Refused(p) PROVE IInv'
  BY <1>1, <1>7 DEF Refused
<1>8. ASSUME NEW p \in Drivers, Release(p) PROVE IInv'
  BY <1>1, <1>8 DEF Release
<1>9. ASSUME NEW p \in Drivers, Unlink(p) PROVE IInv'
  <2>1. HoldersOwnIt'
    BY <1>9, UnlinkKeepsIt
  <2>2. BreaksTheBreakable'
    BY <1>9 DEF Unlink
  <2> QED
    BY <1>1, <2>1, <2>2
<1>10. ASSUME NEW p \in Drivers, Dies(p) PROVE IInv'
  BY <1>1, <1>10 DEF Dies, Leases, NoLease
<1>11. ASSUME Ages PROVE IInv'
  BY <1>1, <1>11 DEF Ages, Leases, NoLease
<1>12. CASE UNCHANGED vars
  BY <1>1, <1>12 DEF vars
<1> QED
  BY <1>2, <1>3, <1>4, <1>5, <1>6, <1>7, <1>8, <1>9, <1>10, <1>11, <1>12 DEF Next

\* Which leaves no two holders of one live lease.
LEMMA InvImplies == IInv => OneDriver
  BY DEF IInv, HoldersOwnIt, Holding, Mine, OneDriver

\* The lease's file and its drivers are well formed for every set of drivers (host_lease).
THEOREM TypeCorrect == Spec => []TypeOK
<1>1. Init => TypeOK
  BY InitInv DEF IInv
<1>2. TypeOK /\ [Next]_vars => TypeOK'
  BY TypeStep
<1> QED
  BY <1>1, <1>2, PTL DEF Spec

\* For every set of drivers, through crashes and leases that age, two hold the lease at once only
\* after one of the removals raced records (_take, _release).
THEOREM LeaseExcludes == Spec => []OneDriver
<1>1. IInv /\ [Next]_vars => IInv'
  BY InvStep
<1> QED
  BY InitInv, <1>1, InvImplies, PTL DEF Spec
=============================================================================
