--------------------------- MODULE ResearchProofs ---------------------------
(***************************************************************************)
(* OneAnswer, for any threads, processes, requests, vendors and counts:    *)
(* the lock of a request makes its holder the only one at work on it, so   *)
(* that what it has looked up stays true until it has answered.  And       *)
(* EverySendIsPaidFor: a call is made on a reservation of its own, and     *)
(* what is reserved never passes a budget or a cap.                        *)
(***************************************************************************)
EXTENDS Research, FoldLemmas

\* Where a thread has found nothing in the index for its request.
Past == {"route", "month", "pick", "reserve", "call", "write", "append"}
Steps == Past \cup {"idle", "lock", "lookup"}
Working(t) == at[t] \in Past \cup {"lookup"}
Pairs == told \cup index

Typed ==
  /\ at \in [Threads -> Steps]
  /\ req \in [Threads -> Requests \cup {Nothing}]
  /\ snapshot \in [Threads -> Nat \cup {Nothing}]
  /\ fetched \in [Requests -> Nat]
  /\ snapshots \subseteq Requests \X Nat

\* Whoever works on a request holds its lock, alone.
Held ==
  /\ \A t \in Threads : at[t] # "idle" => req[t] \in Requests
  /\ \A t \in Threads : Working(t) => req[t] \in flocked
  /\ \A t, u \in Threads : Working(t) /\ Working(u) /\ req[t] = req[u] => t = u

\* While it works, the request it looked up has no answer.
First == \A t \in Threads : at[t] \in Past => \A a \in Pairs : a[1] # req[t]

Written == \A t \in Threads : at[t] = "append" => <<req[t], snapshot[t]>> \in snapshots

\* Every answer is in the index as long as the index can be read.
Indexed == torn \in BOOLEAN /\ (~torn => told \subseteq index)

Inv == Typed /\ Held /\ First /\ Written /\ Indexed /\ OneAnswer

\* Nothing is asked or stored at first.
LEMMA InitInv == Init => Inv
<1> SUFFICES ASSUME Init PROVE Inv
  OBVIOUS
<1> USE DEF Init
<1>1. Typed
  BY DEF Typed, Steps
<1>2. Held /\ First /\ Written
  BY DEF Held, Working, First, Written, Past
<1>3. Indexed /\ OneAnswer
  BY DEF Indexed, OneAnswer
<1> QED
  BY <1>1, <1>2, <1>3 DEF Inv

-----------------------------------------------------------------------------
(* What the steps have in common *)

\* A step of a thread that goes on with its request, and stores nothing.
LEMMA GoesOn ==
  ASSUME Inv, NEW t \in Threads, NEW step \in Past \ {"append"}, Goes(t, step), at[t] \in Past,
         UNCHANGED <<req, snapshot, storeVars, told>>
  PROVE  Inv'
<1> USE DEF Inv, storeVars
<1>1. at'[t] = step /\ \A u \in Threads : u # t => at'[u] = at[u]
  BY DEF Goes, Typed
<1>2. Typed'
  BY DEF Typed, Goes, Steps, Past
<1>3. \A u \in Threads : (Working(u))' <=> Working(u)
  BY <1>1 DEF Working
<1>4. Held'
  BY <1>1, <1>3 DEF Held, Past
<1>5. First' /\ Written'
  BY <1>1 DEF First, Pairs, Written
<1>6. Indexed' /\ OneAnswer'
  BY DEF Indexed, OneAnswer
<1> QED
  BY <1>2, <1>4, <1>5, <1>6

\* The end of a request, whose lock goes to whoever waits for it.
LEMMA Ended ==
  ASSUME Inv, NEW t \in Threads, Working(t), Ends(t)
  PROVE  /\ at' \in [Threads -> Steps] /\ req' \in [Threads -> Requests \cup {Nothing}]
         /\ snapshot' \in [Threads -> Nat \cup {Nothing}]
         /\ at'[t] = "idle" /\ \A u \in Threads : u # t => at'[u] = at[u] /\ req'[u] = req[u]
                                                          /\ snapshot'[u] = snapshot[u]
         /\ Held'
<1> USE DEF Inv
<1>1. /\ at' = [at EXCEPT ![t] = "idle"] /\ req' = [req EXCEPT ![t] = Nothing]
      /\ snapshot' = [snapshot EXCEPT ![t] = Nothing] /\ flocked' = flocked \ {req[t]}
  BY DEF Ends, Goes
<1>2. /\ at'[t] = "idle"
      /\ \A u \in Threads : u # t => at'[u] = at[u] /\ req'[u] = req[u]
                                     /\ snapshot'[u] = snapshot[u]
  BY <1>1 DEF Typed
<1>3. \A u \in Threads : (Working(u))' <=> Working(u) /\ u # t
  BY <1>2 DEF Working, Past
<1>4. Held'
  BY <1>1, <1>2, <1>3 DEF Held
<1> QED
  BY <1>1, <1>2, <1>4 DEF Typed, Steps

\* A request that ends with no answer, or with one that was given before.
LEMMA EndsAsBefore ==
  ASSUME Inv, NEW t \in Threads, Working(t), Ends(t), UNCHANGED <<snapshots, fetched, index>>,
         torn' = torn, told' \cup index = told \cup index, told' \subseteq told \cup index
  PROVE  Inv'
<1> USE DEF Inv
<1>1. Typed' /\ Held'
  BY Ended DEF Typed
<1>2. First' /\ Written'
  BY Ended DEF First, Pairs, Written, Past
<1>3. Indexed' /\ OneAnswer'
  BY DEF Indexed, OneAnswer
<1> QED
  BY <1>1, <1>2, <1>3

\* A request that ends with the snapshot just written, indexed if the index can be read.
LEMMA EndsWithFirst ==
  ASSUME Inv, NEW t \in Threads, at[t] = "append", Ends(t), UNCHANGED <<snapshots, fetched>>,
         told' = told \cup {<<req[t], snapshot[t]>>}, torn' \in BOOLEAN,
         index' = index \/ index' = index \cup {<<req[t], snapshot[t]>>},
         ~torn' => ~torn /\ index' = index \cup {<<req[t], snapshot[t]>>}
  PROVE  Inv'
<1> USE DEF Inv
<1>1. Working(t)
  BY DEF Working, Past
<1>2. Typed' /\ Held'
  BY <1>1, Ended DEF Typed
<1>3. Pairs' = Pairs \cup {<<req[t], snapshot[t]>>}
  BY DEF Pairs
<1>4. <<req[t], snapshot[t]>> \in snapshots /\ \A a \in Pairs : a[1] # req[t]
  BY DEF Written, First, Past
<1>5. First'
  <2> SUFFICES ASSUME NEW u \in Threads, at'[u] \in Past, NEW a \in Pairs'
               PROVE  a[1] # req'[u]
    BY DEF First
  <2>1. u # t /\ at[u] \in Past /\ req'[u] = req[u] /\ Working(u)
    BY <1>1, Ended DEF Past, Working
  <2>2. req[u] # req[t]
    BY <1>1, <2>1 DEF Held
  <2> QED
    BY <1>3, <2>1, <2>2 DEF First
<1>6. Written'
  BY <1>1, Ended DEF Written
<1>7. Indexed'
  BY DEF Indexed
<1>8. OneAnswer'
  BY <1>3, <1>4 DEF OneAnswer, Pairs
<1> QED
  BY <1>2, <1>5, <1>6, <1>7, <1>8

-----------------------------------------------------------------------------
(* The steps *)

\* A thread that asks.
LEMMA AskStep ==
  ASSUME Inv, NEW t \in Threads, NEW r \in Requests, Ask(t, r)
  PROVE  Inv'
<1> USE DEF Inv
<1>1. /\ at[t] = "idle" /\ at' = [at EXCEPT ![t] = "lock"] /\ req' = [req EXCEPT ![t] = r]
      /\ UNCHANGED <<snapshot, flocked, snapshots, index, torn, fetched, told>>
  BY DEF Ask, Goes, storeVars, observers
<1>2. /\ at'[t] = "lock" /\ req'[t] = r
      /\ \A u \in Threads : u # t => at'[u] = at[u] /\ req'[u] = req[u]
  BY <1>1 DEF Typed
<1>3. \A u \in Threads : (Working(u))' => Working(u) /\ u # t
  BY <1>2 DEF Working, Past
<1>4. Held'
  BY <1>1, <1>2, <1>3 DEF Held
<1>5. First' /\ Written'
  BY <1>1, <1>2 DEF First, Pairs, Written, Past
<1> QED
  BY <1>1, <1>4, <1>5 DEF Typed, Steps, Indexed, OneAnswer

\* One that takes the lock of its request.
LEMMA LockStep ==
  ASSUME Inv, NEW t \in Threads, Lock(t)
  PROVE  Inv'
<1> USE DEF Inv
<1>1. /\ at[t] = "lock" /\ req[t] \notin flocked /\ at' = [at EXCEPT ![t] = "lookup"]
      /\ flocked' = flocked \cup {req[t]}
      /\ UNCHANGED <<req, snapshot, snapshots, index, torn, fetched, told>>
  BY DEF Lock, LockFree, Goes, observers
<1>2. at'[t] = "lookup" /\ \A u \in Threads : u # t => at'[u] = at[u]
  BY <1>1 DEF Typed
<1>3. \A u \in Threads : (Working(u))' <=> Working(u) \/ u = t
  BY <1>2 DEF Working
<1>4. Held'
  BY <1>1, <1>2, <1>3 DEF Held
<1>5. First' /\ Written'
  BY <1>1, <1>2 DEF First, Pairs, Written, Past
<1> QED
  BY <1>1, <1>4, <1>5 DEF Typed, Steps, Indexed, OneAnswer

\* One that looks its request up in the index.
LEMMA LookupStep ==
  ASSUME Inv, NEW t \in Threads, Lookup(t)
  PROVE  Inv'
<1> USE DEF Inv
<1>1. at[t] = "lookup" /\ Working(t) /\ UNCHANGED <<snapshots, index, torn, fetched>>
  BY DEF Lookup, Working
<1>2. ASSUME NEW line \in index, line[1] = req[t], Tell(t, line[2]), Ends(t)
      PROVE  Inv'
  <2>1. line = <<req[t], line[2]>>
    BY <1>2 DEF OneAnswer, Typed
  <2>2. told' = told \cup {line}
    BY <1>2, <2>1 DEF Tell
  <2> QED
    BY <1>1, <1>2, <2>2, EndsAsBefore
<1>3. CASE Ends(t) /\ told' = told
  BY <1>1, <1>3, EndsAsBefore
<1>4. CASE /\ {line \in index : line[1] = req[t]} = {} /\ ~torn
           /\ Goes(t, "route") /\ UNCHANGED <<req, snapshot, flocked, told>>
  <2>1. at'[t] = "route" /\ \A u \in Threads : u # t => at'[u] = at[u]
    BY <1>4 DEF Goes, Typed
  <2>2. \A u \in Threads : (Working(u))' <=> Working(u)
    BY <1>1, <2>1 DEF Working, Past
  <2>3. Held'
    BY <1>1, <1>4, <2>1, <2>2 DEF Held
  <2>4. \A a \in Pairs : a[1] # req[t]
    BY <1>4 DEF Pairs, Indexed
  <2>5. First' /\ Written'
    BY <1>1, <1>4, <2>1, <2>4 DEF First, Pairs, Written
  <2> QED
    BY <1>1, <1>4, <2>3, <2>5 DEF Typed, Goes, Steps, Past, Indexed, OneAnswer
<1> QED
  BY <1>2, <1>3, <1>4 DEF Lookup

\* One that stores a snapshot.
LEMMA WriteStep ==
  ASSUME Inv, NEW t \in Threads, WriteOnce(t)
  PROVE  Inv'
<1> USE DEF Inv
<1> DEFINE s == fetched[req[t]] + 1
<1>1. /\ at[t] = "write" /\ at' = [at EXCEPT ![t] = "append"]
      /\ snapshots' = snapshots \cup {<<req[t], s>>}
      /\ snapshot' = [snapshot EXCEPT ![t] = s]
      /\ fetched' = [fetched EXCEPT ![req[t]] = s]
      /\ UNCHANGED <<req, flocked, index, torn, told>>
  BY DEF WriteOnce, Goes, observers
<1>2. req[t] \in Requests /\ s \in Nat
  BY <1>1 DEF Held, Typed
<1>3. /\ at'[t] = "append" /\ snapshot'[t] = s
      /\ \A u \in Threads : u # t => at'[u] = at[u] /\ snapshot'[u] = snapshot[u]
  BY <1>1 DEF Typed
<1>4. \A u \in Threads : (Working(u))' <=> Working(u)
  BY <1>1, <1>3 DEF Working, Past
<1>5. Held'
  BY <1>1, <1>3, <1>4 DEF Held
<1>6. First' /\ Written'
  BY <1>1, <1>3 DEF First, Pairs, Written, Past
<1>7. Typed'
  BY <1>1, <1>2 DEF Typed, Steps, Past
<1> QED
  BY <1>1, <1>5, <1>6, <1>7 DEF Indexed, OneAnswer

\* One that indexes it, or fails to.
LEMMA AppendStep ==
  ASSUME Inv, NEW t \in Threads, AppendIndex(t) \/ AppendFails(t)
  PROVE  Inv'
<1>1. at[t] = "append" /\ Ends(t) /\ UNCHANGED <<snapshots, fetched>>
  BY DEF AppendIndex, AppendFails
<1>2. Working(t)
  BY <1>1 DEF Working, Past
<1>3. CASE told' = told /\ torn' = torn /\ index' = index
  BY <1>1, <1>2, <1>3, EndsAsBefore
<1>4. CASE told' = told \cup {<<req[t], snapshot[t]>>} /\ torn' = TRUE /\ index' = index
  BY <1>1, <1>4, EndsWithFirst
<1>5. CASE /\ told' = told \cup {<<req[t], snapshot[t]>>} /\ torn' = torn
           /\ index' = IF torn THEN index ELSE index \cup {<<req[t], snapshot[t]>>}
  BY <1>1, <1>5, EndsWithFirst DEF Inv, Indexed
<1> QED
  BY <1>3, <1>4, <1>5 DEF AppendIndex, AppendFails, Tell

\* A process that dies.
LEMMA CrashStep ==
  ASSUME Inv, NEW p \in Processes, Crash(p)
  PROVE  Inv'
<1> USE DEF Inv
<1> DEFINE mine == {t \in Threads : ProcessOf[t] = p}
<1>1. /\ flocked' = flocked \ {req[t] : t \in {u \in mine : at[u] \notin {"idle", "lock"}}}
      /\ at' = [t \in Threads |-> IF t \in mine THEN "idle" ELSE at[t]]
      /\ req' = [t \in Threads |-> IF t \in mine THEN Nothing ELSE req[t]]
      /\ snapshot' = [t \in Threads |-> IF t \in mine THEN Nothing ELSE snapshot[t]]
      /\ UNCHANGED <<snapshots, index, torn, fetched, told>>
  BY DEF Crash, observers
<1>2. \A t \in Threads : (Working(t))' => Working(t) /\ t \notin mine
  BY <1>1 DEF Working, Past
<1>3. \A t \in Threads : at[t] \notin {"idle", "lock"} <=> Working(t)
  BY DEF Typed, Working, Steps, Past
<1>4. Held'
  <2>1. ASSUME NEW t \in Threads, (Working(t))' PROVE req'[t] \in flocked'
    <3>1. Working(t) /\ t \notin mine /\ req'[t] = req[t] /\ req[t] \in flocked
      BY <1>1, <1>2, <2>1 DEF Held
    <3>2. \A u \in mine : at[u] \notin {"idle", "lock"} => req[u] # req[t]
      BY <1>3, <3>1 DEF Held
    <3> QED
      BY <1>1, <3>1, <3>2
  <2> QED
    BY <1>1, <1>2, <2>1 DEF Held
<1>5. First' /\ Written'
  BY <1>1 DEF First, Pairs, Written, Past
<1>6. Typed'
  BY <1>1 DEF Typed, Steps
<1> QED
  BY <1>1, <1>4, <1>5, <1>6 DEF Indexed, OneAnswer

\* Every step keeps the invariant.
LEMMA InvStep == Inv /\ [Next]_vars => Inv'
<1> SUFFICES ASSUME Inv, [Next]_vars PROVE Inv'
  OBVIOUS
<1> USE DEF storeVars, observers, Past
<1>1. CASE UNCHANGED vars
  BY <1>1 DEF vars, threadVars, Inv, Typed, Held, Working, First, Pairs, Written, Indexed,
              OneAnswer
<1>2. ASSUME NEW t \in Threads, Working(t), Ends(t), UNCHANGED <<snapshots, fetched, index>>,
             torn' = torn, told' = told
      PROVE  Inv'
  BY <1>2, EndsAsBefore
<1>3. ASSUME NEW t \in Threads, Route(t) \/ CheckMonth(t) \/ Pick(t) PROVE Inv'
  BY <1>2, <1>3, GoesOn DEF Route, CheckMonth, Pick, Working
<1>4. ASSUME NEW t \in Threads, Reserve(t) PROVE Inv'
  BY <1>2, <1>4, GoesOn DEF Reserve, Working
<1>5. ASSUME NEW t \in Threads, Call(t) PROVE Inv'
  BY <1>2, <1>5, GoesOn DEF Call, Working
<1> QED
  BY <1>1, <1>3, <1>4, <1>5, AskStep, LockStep, LookupStep, WriteStep, AppendStep, CrashStep
  DEF Next

\* Every caller that asks for a request is given the same stored snapshot, for any threads,
\* processes, requests and vendors (SnapshotStore.get_or_fetch, _request_lock).
THEOREM AnswersAgree == Spec => []OneAnswer
<1>1. Inv => OneAnswer
  BY DEF Inv
<1> QED
  BY InitInv, InvStep, <1>1, PTL DEF Spec

-----------------------------------------------------------------------------
(* What a request costs *)

\* Where a thread has called nobody yet, where it has chosen whom to call, and where it may call.
Early == {"idle", "lock", "lookup", "route", "month"}
Bound == {"reserve", "call"}
Calling == {"month", "pick"} \cup Bound

\* A thread has called at most twice for its request, and once at most when about to call.
Called ==
  /\ calls \in [Threads -> 0..MaxCallsPerRequest]
  /\ chosen \in [Threads -> Callees \cup {Nothing}]
  /\ \A t \in Threads : at[t] \in Early => calls[t] = 0
  /\ \A t \in Threads :
       at[t] \in Bound => chosen[t] \in Callees /\ calls[t] < MaxCallsPerRequest

\* The calls each thread may still make for its request.
allowance == [t \in Threads |-> IF at[t] \in Calling THEN MaxCallsPerRequest - calls[t] ELSE 0]

\* What CapsHold and EverySendIsPaidFor sum, and the calls left.
Asked == SumOf(requests, Vendors)
Opened == SumOf(session, Capabilities)
Sent == SumOf(sent, Callees)
Left == SumOf(allowance, Threads)

\* CapsHold, of well formed rows.
Counts ==
  /\ LedgerTypeOK
  /\ \A c \in Capabilities : session[c] <= SessionCap[c]
  /\ \A v \in Vendors : used[v] <= Budget[v]
  /\ total <= MonthlyCap /\ total = Asked

\* The threads whose call of v is counted and not made.
Callers(v) == {t \in Threads : at[t] = "call" /\ chosen[t] = v}

\* A call to be made is counted beside those that were.
Backed ==
  /\ sent \in [Callees -> Nat]
  /\ \A v \in Callees : sent[v] + Cardinality(Callers(v)) <= requests[v]

\* The calls made and those left are two for each request of the session.
Allowed == Sent + Left <= MaxCallsPerRequest * Opened

Kept == Called /\ Counts /\ Backed /\ Allowed

\* Functions' sums are those of FoldLemmas.
LEMMA SumFunctionIs ==
  ASSUME NEW f, NEW S
  PROVE  SumFunctionOnSet(f, S) = SumOf(f, S)
BY DEF SumFunctionOnSet, FoldFunctionOnSet, SumOf, MapThenSumSet, MapThenFoldSet

\* The sums after a step.
LEMMA SumsNext ==
  /\ Asked' = SumOf(requests', Vendors)
  /\ Opened' = SumOf(session', Capabilities)
  /\ Sent' = SumOf(sent', Callees)
  /\ Left' = SumOf(allowance', Threads)
<1>1. Asked' = SumOf(requests', Vendors)
  BY DEF Asked, SumOf, MapThenSumSet, MapThenFoldSet
<1>2. Opened' = SumOf(session', Capabilities)
  BY DEF Opened, SumOf, MapThenSumSet, MapThenFoldSet
<1>3. Sent' = SumOf(sent', Callees)
  BY DEF Sent, SumOf, MapThenSumSet, MapThenFoldSet, Callees
<1>4. Left' = SumOf(allowance', Threads)
  BY DEF Left, SumOf, MapThenSumSet, MapThenFoldSet
<1> QED BY <1>1, <1>2, <1>3, <1>4

\* The vendors and the direct fetch are finitely many.
LEMMA CalleesFinite == IsFiniteSet(Callees)
BY VendorsAssumption, FS_AddElement DEF Callees

\* A thread never has fewer than no calls left.
LEMMA AllowanceIs ==
  ASSUME Called
  PROVE  allowance \in [Threads -> Nat]
BY DEF Called, allowance, MaxCallsPerRequest

\* The sums are natural.
LEMMA SumsAreNat ==
  ASSUME Kept
  PROVE  Asked \in Nat /\ Opened \in Nat /\ Sent \in Nat /\ Left \in Nat
<1>1. IsFiniteSet(Vendors) /\ IsFiniteSet(Capabilities) /\ IsFiniteSet(Threads)
  BY VendorsAssumption, ThreadsAssumption
<1>2. /\ \A v \in Callees : requests[v] \in Nat /\ sent[v] \in Nat
      /\ \A c \in Capabilities : session[c] \in Nat
      /\ \A t \in Threads : allowance[t] \in Nat
  BY AllowanceIs DEF Kept, Counts, LedgerTypeOK, Backed
<1>3. \A v \in Vendors : requests[v] \in Nat
  BY <1>2 DEF Callees
<1>4. Asked \in Nat
  BY <1>1, <1>3, SumNat DEF Asked
<1>5. Opened \in Nat
  BY <1>1, <1>2, SumNat DEF Opened
<1>6. Sent \in Nat
  BY <1>2, CalleesFinite, SumNat DEF Sent
<1>7. Left \in Nat
  BY <1>1, <1>2, SumNat DEF Left
<1> QED BY <1>4, <1>5, <1>6, <1>7

\* A step that counts nothing and calls nobody keeps the counts, if no thread comes to have more
\* calls left or one counted.
LEMMA QuietKept ==
  ASSUME Kept, Called', UNCHANGED ledgerVars, sent' = sent,
         \A t \in Threads : at'[t] = "call" => at[t] = "call" /\ chosen'[t] = chosen[t],
         \A t \in Threads : allowance'[t] <= allowance[t]
  PROVE  Kept'
<1>1. requests' = requests /\ session' = session /\ used' = used /\ total' = total
  BY DEF ledgerVars
<1>2. Asked' = Asked /\ Opened' = Opened /\ Sent' = Sent
  BY <1>1, SumsNext DEF Asked, Opened, Sent
<1>3. Counts'
  BY <1>1, <1>2 DEF Kept, Counts, LedgerTypeOK
<1>4. Backed'
  <2>1. ASSUME NEW v \in Callees PROVE sent'[v] + Cardinality(Callers(v)') <= requests'[v]
    <3>1. PICK now, next : now = Callers(v) /\ next = Callers(v)'
      OBVIOUS
    <3>2. now \in SUBSET Threads /\ next \in SUBSET now
      BY <3>1 DEF Callers
    <3>3. IsFiniteSet(now) /\ IsFiniteSet(next)
      BY <3>2, ThreadsAssumption, FS_Subset
    <3>4. Cardinality(now) \in Nat /\ Cardinality(next) \in Nat
      BY <3>3, FS_CardinalityType
    <3>5. Cardinality(next) <= Cardinality(now)
      BY <3>2, <3>3, FS_Subset
    <3>6. sent[v] \in Nat /\ requests[v] \in Nat /\ sent[v] + Cardinality(now) <= requests[v]
      BY <3>1 DEF Kept, Backed, Counts, LedgerTypeOK
    <3>7. sent[v] + Cardinality(next) <= requests[v]
      BY <3>4, <3>5, <3>6
    <3> QED BY <1>1, <3>1, <3>7
  <2> QED BY <2>1 DEF Kept, Backed
<1>5. Left' <= Left
  <2>1. \A t \in Threads : /\ allowance'[t] \in Int /\ allowance[t] \in Int
                           /\ allowance'[t] <= allowance[t]
    BY DEF Kept, Called, allowance, MaxCallsPerRequest
  <2>2. PICK f, g : f = allowance' /\ g = allowance
    OBVIOUS
  <2>3. SumOf(f, Threads) <= SumOf(g, Threads)
    BY <2>1, <2>2, ThreadsAssumption, SumBelow
  <2>4. Left = SumOf(g, Threads)
    BY <2>2 DEF Left
  <2> QED BY <2>2, <2>3, <2>4, SumsNext
<1>6. Left' \in Int
  <2>1. PICK f : f = allowance'
    OBVIOUS
  <2>2. \A t \in Threads : f[t] \in Int
    BY <2>1 DEF Called, allowance, MaxCallsPerRequest
  <2>3. SumOf(f, Threads) \in Int
    BY <2>2, ThreadsAssumption, SumUnfolds
  <2> QED BY <2>1, <2>3, SumsNext
<1>7. Allowed'
  BY <1>2, <1>5, <1>6, SumsAreNat DEF Kept, Allowed, MaxCallsPerRequest
<1> QED BY <1>3, <1>4, <1>7 DEF Kept

\* The end of a request leaves its thread no call.
LEMMA EndsKept ==
  ASSUME Kept, Typed, NEW t \in Threads, Ends(t), UNCHANGED ledgerVars, sent' = sent
  PROVE  Kept'
<1>1. /\ at' = [at EXCEPT ![t] = "idle"] /\ calls' = [calls EXCEPT ![t] = 0]
      /\ chosen' = [chosen EXCEPT ![t] = Nothing]
  BY DEF Ends, Goes
<1>2. /\ at \in [Threads -> Steps] /\ calls \in [Threads -> 0..MaxCallsPerRequest]
      /\ chosen \in [Threads -> Callees \cup {Nothing}]
  BY DEF Typed, Kept, Called
<1>3. /\ at'[t] = "idle" /\ calls'[t] = 0
      /\ \A u \in Threads : u # t => at'[u] = at[u] /\ calls'[u] = calls[u]
                                     /\ chosen'[u] = chosen[u]
  BY <1>1, <1>2
<1>4. Called'
  <2>1. /\ calls' \in [Threads -> 0..MaxCallsPerRequest]
        /\ chosen' \in [Threads -> Callees \cup {Nothing}]
    BY <1>1, <1>2 DEF MaxCallsPerRequest
  <2> QED BY <1>3, <2>1 DEF Kept, Called, Bound
<1>5. \A u \in Threads : allowance'[u] <= allowance[u]
  BY <1>2, <1>3 DEF allowance, Calling, Bound, MaxCallsPerRequest
<1> QED BY <1>3, <1>4, <1>5, QuietKept

\* A thread goes on with its request, calling nobody.
LEMMA GoesKept ==
  ASSUME Kept, Typed, NEW t \in Threads, NEW step \in Steps \ Bound, Goes(t, step),
         UNCHANGED <<calls, chosen>>, UNCHANGED ledgerVars, sent' = sent,
         step \in Early => at[t] \in Early, step \in Calling => at[t] \in Calling
  PROVE  Kept'
<1>1. at' = [at EXCEPT ![t] = step] /\ at \in [Threads -> Steps]
  BY DEF Goes, Typed
<1>2. at'[t] = step /\ \A u \in Threads : u # t => at'[u] = at[u]
  BY <1>1
<1>3. Called'
  BY <1>2 DEF Kept, Called
<1>4. \A u \in Threads : allowance'[u] <= allowance[u]
  <2>1. \A u \in Threads : allowance[u] \in Nat
    BY AllowanceIs DEF Kept
  <2> QED BY <1>2, <2>1 DEF allowance, Kept, Called, MaxCallsPerRequest
<1>5. \A u \in Threads : at'[u] = "call" => at[u] = "call" /\ chosen'[u] = chosen[u]
  BY <1>2 DEF Bound
<1> QED BY <1>3, <1>4, <1>5, QuietKept

\* The session's row counts the request, whose two calls are then its thread's.
LEMMA RouteKept ==
  ASSUME Kept, Inv, NEW t \in Threads, Route(t)
  PROVE  Kept'
<1>1. at[t] = "route" /\ sent' = sent
  BY DEF Route, observers
<1>2. CASE Ends(t) /\ UNCHANGED ledgerVars
  BY <1>1, <1>2, EndsKept DEF Inv
<1>3. ASSUME ReserveSession(Capability(t)), Goes(t, "month"), UNCHANGED <<calls, chosen>>
      PROVE  Kept'
  <2>1. PICK c \in Capabilities : c = Capability(t)
    BY <1>1, RequestsAssumption DEF Capability, Inv, Held
  <2>2. /\ session[c] + 1 <= SessionCap[c] /\ session' = [session EXCEPT ![c] = session[c] + 1]
        /\ UNCHANGED <<used, requests, total>>
    BY <1>3, <2>1 DEF ReserveSession, SessionLeft, WithinBudget
  <2>3. /\ at' = [at EXCEPT ![t] = "month"] /\ at \in [Threads -> Steps]
        /\ calls \in [Threads -> 0..MaxCallsPerRequest] /\ calls[t] = 0
        /\ session \in [Capabilities -> Nat]
    BY <1>1, <1>3 DEF Goes, Inv, Typed, Kept, Called, Early, Counts, LedgerTypeOK
  <2>4. at'[t] = "month" /\ \A u \in Threads : u # t => at'[u] = at[u]
    BY <2>3
  <2>5. /\ session'[c] = session[c] + 1 /\ session' \in [Capabilities -> Nat]
        /\ \A k \in Capabilities : k # c => session'[k] = session[k]
    BY <2>2, <2>3
  <2>6. Called'
    BY <1>3, <2>3, <2>4 DEF Kept, Called, Bound
  <2>7. Asked' = Asked /\ Sent' = Sent
    BY <1>1, <2>2, SumsNext DEF Asked, Sent
  <2>8. Counts'
    BY <2>2, <2>5, <2>7 DEF Kept, Counts, LedgerTypeOK
  <2>9. \A v \in Callees : Callers(v)' = Callers(v)
    BY <1>1, <1>3, <2>4 DEF Callers
  <2>10. Backed'
    BY <1>1, <2>2, <2>9 DEF Kept, Backed
  <2>11. Opened' = Opened + 1
    <3>1. \A k \in Capabilities : session[k] \in Int
      BY <2>3
    <3>2. SumOf(session', Capabilities) = SumOf(session, Capabilities) + 1
      <4>1. PICK one \in Int : one = 1
        OBVIOUS
      <4>2. PICK g : g = session'
        OBVIOUS
      <4>3. g[c] = session[c] + one /\ \A k \in Capabilities : k # c => g[k] = session[k]
        BY <2>5, <4>1, <4>2
      <4>4. IsFiniteSet(Capabilities)
        BY VendorsAssumption
      <4>5. SumOf(g, Capabilities) = SumOf(session, Capabilities) + one
        BY ONLY <3>1, <4>3, <4>4, c \in Capabilities, one \in Int, SumExcept
      <4> QED BY <4>1, <4>2, <4>5
    <3> QED BY <3>2, SumsNext DEF Opened
  <2>12. Left' = Left + MaxCallsPerRequest
    <3>1. /\ \A u \in Threads : allowance[u] \in Int
          /\ allowance'[t] = allowance[t] + MaxCallsPerRequest
          /\ \A u \in Threads : u # t => allowance'[u] = allowance[u]
      BY <1>1, <1>3, <2>3, <2>4 DEF allowance, Calling, Bound, MaxCallsPerRequest
    <3>2. PICK two \in Int : two = MaxCallsPerRequest
      BY DEF MaxCallsPerRequest
    <3>3. PICK g : g = allowance'
      OBVIOUS
    <3>4. g[t] = allowance[t] + two /\ \A u \in Threads : u # t => g[u] = allowance[u]
      BY <3>1, <3>2, <3>3
    <3>5. SumOf(g, Threads) = SumOf(allowance, Threads) + two
      BY ONLY <3>1, <3>4, t \in Threads, two \in Int, ThreadsAssumption, SumExcept
    <3> QED BY <3>2, <3>3, <3>5, SumsNext DEF Left
  <2>13. Allowed'
    BY <2>7, <2>11, <2>12, SumsAreNat DEF Kept, Allowed, MaxCallsPerRequest
  <2> QED BY <2>6, <2>8, <2>10, <2>13 DEF Kept
<1> QED BY <1>1, <1>2, <1>3 DEF Route

\* A thread chooses whom to call, having called once at most.
LEMMA PickKept ==
  ASSUME Kept, Inv, NEW t \in Threads, Pick(t)
  PROVE  Kept'
<1>1. at[t] = "pick" /\ sent' = sent /\ UNCHANGED ledgerVars
  BY DEF Pick, observers
<1>2. CASE Ends(t)
  BY <1>1, <1>2, EndsKept DEF Inv
<1>3. ASSUME calls[t] < MaxCallsPerRequest, NEW v \in Askable(t), Goes(t, "reserve"),
             chosen' = [chosen EXCEPT ![t] = v], calls' = calls
      PROVE  Kept'
  <2>1. v \in Callees
    BY DEF Askable, Eligible, Callees
  <2>2. /\ at' = [at EXCEPT ![t] = "reserve"] /\ at \in [Threads -> Steps]
        /\ calls \in [Threads -> 0..MaxCallsPerRequest]
        /\ chosen \in [Threads -> Callees \cup {Nothing}]
    BY <1>3 DEF Goes, Inv, Typed, Kept, Called
  <2>3. /\ at'[t] = "reserve" /\ chosen'[t] = v
        /\ \A u \in Threads : u # t => at'[u] = at[u] /\ chosen'[u] = chosen[u]
    BY <1>3, <2>2
  <2>4. Called'
    <3>1. chosen' \in [Threads -> Callees \cup {Nothing}]
      BY <1>3, <2>1, <2>2
    <3> QED BY <1>3, <2>1, <2>3, <3>1 DEF Kept, Called, Early, Bound
  <2>5. \A u \in Threads : allowance'[u] <= allowance[u]
    <3>1. \A u \in Threads : allowance[u] \in Nat
      BY AllowanceIs DEF Kept
    <3> QED BY <1>1, <1>3, <2>3, <3>1 DEF allowance, Calling, Bound
  <2> QED BY <1>1, <2>3, <2>4, <2>5, QuietKept
<1> QED BY <1>2, <1>3 DEF Pick

\* What a reservation counts: a call of the direct fetch, or one that fits its vendor's budget.
LEMMA Reserves ==
  ASSUME NEW v, NEW c, NEW outcome, ReserveCall(v, c, outcome)
  PROVE  /\ session' = session
         /\ outcome = "ok" =>
              /\ requests' = [requests EXCEPT ![v] = requests[v] + 1]
              /\ v = Direct => UNCHANGED <<used, total>>
              /\ v # Direct => /\ total + 1 <= MonthlyCap /\ total' = total + 1
                              /\ used[v] + Units[<<v, c>>] <= Budget[v]
                              /\ used' = [used EXCEPT ![v] = used[v] + Units[<<v, c>>]]
<1>1. CASE v = Direct
  BY <1>1 DEF ReserveCall
<1>2. CASE v # Direct /\ outcome = "ok"
  BY <1>2 DEF ReserveCall, WithinBudget, Fits
<1>3. CASE v # Direct /\ outcome # "ok"
  BY <1>3 DEF ReserveCall
<1> QED BY <1>1, <1>2, <1>3

\* One that is refused counts nothing.
LEMMA ReservesNothing ==
  ASSUME NEW v, NEW c, NEW outcome, ReserveCall(v, c, outcome), outcome # "ok"
  PROVE  UNCHANGED ledgerVars
BY DEF ReserveCall, ledgerVars

\* A call is counted before it is made.
LEMMA ReserveKept ==
  ASSUME Kept, Inv, NEW t \in Threads, Reserve(t)
  PROVE  Kept'
<1>1. at[t] = "reserve" /\ sent' = sent
  BY DEF Reserve, observers
<1>2. PICK v \in Callees : v = chosen[t]
  BY <1>1 DEF Kept, Called, Bound
<1>3. PICK c \in Capabilities : c = Capability(t)
  BY <1>1, RequestsAssumption DEF Capability, Inv, Held
<1>4. CASE UNCHANGED ledgerVars /\ Ends(t)
  BY <1>1, <1>4, EndsKept DEF Inv
<1>5. CASE UNCHANGED ledgerVars /\ Goes(t, "pick") /\ UNCHANGED <<calls, chosen>>
  BY <1>1, <1>5, GoesKept DEF Inv, Steps, Past, Bound, Early, Calling
<1>6. ASSUME ReserveCall(v, c, "ok"), Goes(t, "call"), UNCHANGED <<calls, chosen>>
      PROVE  Kept'
  <2>1. /\ requests' = [requests EXCEPT ![v] = requests[v] + 1] /\ session' = session
        /\ requests \in [Callees -> Nat] /\ used \in [Vendors -> Nat] /\ total \in Nat
    BY <1>6, Reserves DEF Kept, Counts, LedgerTypeOK
  <2>2. /\ requests' \in [Callees -> Nat] /\ requests'[v] = requests[v] + 1
        /\ \A w \in Callees : w # v => requests'[w] = requests[w]
    BY <2>1
  <2>3. /\ at' = [at EXCEPT ![t] = "call"] /\ at \in [Threads -> Steps]
    BY <1>6 DEF Goes, Inv, Typed
  <2>4. at'[t] = "call" /\ \A u \in Threads : u # t => at'[u] = at[u]
    BY <2>3
  <2>5. Called'
    BY <1>1, <1>6, <2>4 DEF Kept, Called, Early, Bound
  <2>6. \A w \in Vendors : requests[w] \in Int
    BY <2>1 DEF Callees
  <2>7. Counts'
    <3>1. CASE v = Direct
      <4>1. used' = used /\ total' = total
        BY <1>6, <3>1, Reserves
      <4>2. \A w \in Vendors : requests'[w] = requests[w]
        BY <2>2, <3>1, DirectAssumption DEF Callees
      <4>3. Asked' = Asked
        <5>1. PICK g : g = requests'
          OBVIOUS
        <5>2. /\ \A w \in Vendors : g[w] \in Int
              /\ Vendors \subseteq Vendors /\ \A w \in Vendors \ Vendors : g[w] = 0
              /\ \A w \in Vendors : requests[w] = g[w]
          BY <2>6, <4>2, <5>1
        <5>3. SumOf(g, Vendors) = SumOf(requests, Vendors)
          BY <5>2, VendorsAssumption, SumSupport
        <5> QED BY <5>1, <5>3, SumsNext DEF Asked
      <4> QED BY <2>1, <2>2, <4>1, <4>3 DEF Kept, Counts, LedgerTypeOK
    <3>2. CASE v # Direct
      <4>1. v \in Vendors
        BY <1>2, <3>2 DEF Callees
      <4>2. PICK n \in Nat : n = Units[<<v, c>>]
        <5>1. <<v, c>> \in Vendors \X Capabilities
          BY <4>1
        <5>2. Units[<<v, c>>] \in Nat
          BY <5>1, UnitsAssumption
        <5> QED BY <5>2
      <4>3. /\ total + 1 <= MonthlyCap /\ total' = total + 1
            /\ used[v] + n <= Budget[v] /\ used' = [used EXCEPT ![v] = used[v] + n]
        BY <1>6, <3>2, <4>2, Reserves
      <4>4. /\ used' \in [Vendors -> Nat] /\ used'[v] <= Budget[v]
            /\ \A w \in Vendors : w # v => used'[w] = used[w]
        BY <2>1, <4>1, <4>2, <4>3, BudgetAssumption
      <4>5. Asked' = Asked + 1
        <5>1. PICK one \in Int : one = 1
          OBVIOUS
        <5>2. PICK g : g = requests'
          OBVIOUS
        <5>3. g[v] = requests[v] + one /\ \A w \in Vendors : w # v => g[w] = requests[w]
          BY <2>2, <5>1, <5>2 DEF Callees
        <5>4. IsFiniteSet(Vendors)
          BY VendorsAssumption
        <5>5. SumOf(g, Vendors) = SumOf(requests, Vendors) + one
          BY ONLY <2>6, <4>1, <5>3, <5>4, one \in Int, SumExcept
        <5> QED BY <5>1, <5>2, <5>5, SumsNext DEF Asked
      <4>6. total' = Asked' /\ total' \in Nat
        BY <2>1, <4>3, <4>5 DEF Kept, Counts
      <4>7. LedgerTypeOK'
        BY <2>1, <2>2, <4>4, <4>6 DEF Kept, Counts, LedgerTypeOK
      <4>8. \A w \in Vendors : used'[w] <= Budget[w]
        BY <4>4 DEF Kept, Counts
      <4> QED BY <2>1, <4>3, <4>6, <4>7, <4>8 DEF Kept, Counts
    <3> QED BY <3>1, <3>2
  <2>8. Backed'
    <3>1. ASSUME NEW w \in Callees PROVE sent'[w] + Cardinality(Callers(w)') <= requests'[w]
      <4>1. PICK now, next : now = Callers(w) /\ next = Callers(w)'
        OBVIOUS
      <4>2. now \in SUBSET Threads
        BY <4>1 DEF Callers
      <4>3. IsFiniteSet(now)
        BY <4>2, ThreadsAssumption, FS_Subset
      <4>4. Cardinality(now) \in Nat
        BY <4>3, FS_CardinalityType
      <4>5. sent[w] \in Nat /\ requests[w] \in Nat /\ sent[w] + Cardinality(now) <= requests[w]
        BY <2>1, <4>1 DEF Kept, Backed
      <4>6. CASE w = v
        <5>1. next = now \cup {t} /\ t \notin now
          BY <1>1, <1>2, <1>6, <2>4, <4>1, <4>6 DEF Callers
        <5>2. Cardinality(next) = Cardinality(now) + 1
          BY <4>3, <5>1, FS_AddElement
        <5>3. sent[w] + Cardinality(next) <= requests'[w]
          BY <2>2, <4>4, <4>5, <4>6, <5>2
        <5> QED BY <1>1, <4>1, <5>3
      <4>7. CASE w # v
        <5>1. next = now
          BY <1>1, <1>2, <1>6, <2>4, <4>1, <4>7 DEF Callers
        <5> QED BY <1>1, <2>2, <4>1, <4>5, <4>7, <5>1
      <4> QED BY <4>6, <4>7
    <3> QED BY <1>1, <3>1 DEF Kept, Backed
  <2>9. allowance' = allowance
    BY <1>1, <1>6, <2>4 DEF allowance, Calling, Bound
  <2>10. Left' = Left /\ Sent' = Sent /\ Opened' = Opened
    BY <1>1, <2>1, <2>9, SumsNext DEF Left, Sent, Opened
  <2>11. Allowed'
    BY <2>10 DEF Kept, Allowed
  <2> QED BY <2>5, <2>7, <2>8, <2>11 DEF Kept
<1>7. ASSUME NEW outcome, ReserveCall(v, c, outcome), outcome # "ok" PROVE UNCHANGED ledgerVars
  BY ONLY <1>7, ReservesNothing
<1> QED BY <1>2, <1>3, <1>4, <1>5, <1>6, <1>7 DEF Reserve

\* The call that is made was counted, and leaves its thread one call less.
LEMMA CallKept ==
  ASSUME Kept, Inv, NEW t \in Threads, Call(t)
  PROVE  Kept'
<1>1. /\ at[t] = "call" /\ UNCHANGED ledgerVars
      /\ sent' = [sent EXCEPT ![chosen[t]] = sent[chosen[t]] + 1]
  BY DEF Call
<1>2. PICK v \in Callees : v = chosen[t]
  BY <1>1 DEF Kept, Called, Bound
<1>3. /\ at \in [Threads -> Steps] /\ calls \in [Threads -> 0..MaxCallsPerRequest]
      /\ chosen \in [Threads -> Callees \cup {Nothing}] /\ calls[t] < MaxCallsPerRequest
      /\ sent \in [Callees -> Nat] /\ requests \in [Callees -> Nat]
  BY <1>1 DEF Inv, Typed, Kept, Called, Bound, Backed, Counts, LedgerTypeOK
<1>4. /\ at'[t] \in {"idle", "pick", "write"}
      /\ \A u \in Threads : u # t => at'[u] = at[u] /\ calls'[u] = calls[u]
                                     /\ chosen'[u] = chosen[u]
      /\ \/ at'[t] = "idle" /\ calls'[t] = 0
         \/ at'[t] \in {"pick", "write"} /\ calls'[t] = calls[t] + 1
      /\ calls' \in [Threads -> 0..MaxCallsPerRequest]
      /\ chosen' \in [Threads -> Callees \cup {Nothing}]
  <2>1. CASE Ends(t)
    <3>1. /\ at' = [at EXCEPT ![t] = "idle"] /\ calls' = [calls EXCEPT ![t] = 0]
          /\ chosen' = [chosen EXCEPT ![t] = Nothing]
      BY <2>1 DEF Ends, Goes
    <3> QED BY <1>3, <3>1 DEF MaxCallsPerRequest
  <2>2. ASSUME NEW step \in {"pick", "write"}, Goes(t, step), chosen' = chosen,
               calls' = [calls EXCEPT ![t] = calls[t] + 1]
        PROVE  <1>4!1 /\ <1>4!2 /\ <1>4!3 /\ <1>4!4 /\ <1>4!5
    <3>1. at' = [at EXCEPT ![t] = step]
      BY <2>2 DEF Goes
    <3> QED BY <1>3, <2>2, <3>1 DEF MaxCallsPerRequest
  <2> QED BY <2>1, <2>2 DEF Call
<1>5. Called'
  BY <1>4 DEF Kept, Called, Early, Bound
<1>6. requests' = requests /\ session' = session /\ used' = used /\ total' = total
  BY <1>1 DEF ledgerVars
<1>7. Asked' = Asked /\ Opened' = Opened
  BY <1>6, SumsNext DEF Asked, Opened
<1>8. Counts'
  BY <1>6, <1>7 DEF Kept, Counts, LedgerTypeOK
<1>9. /\ sent' \in [Callees -> Nat] /\ sent'[v] = sent[v] + 1
      /\ \A w \in Callees : w # v => sent'[w] = sent[w]
  BY <1>1, <1>2, <1>3
<1>10. Backed'
  <2>1. ASSUME NEW w \in Callees PROVE sent'[w] + Cardinality(Callers(w)') <= requests[w]
    <3>1. PICK now : now = Callers(w)
      OBVIOUS
    <3>2. PICK next : next = Callers(w)'
      OBVIOUS
    <3>3. now \in SUBSET Threads
      BY <3>1 DEF Callers
    <3>4. IsFiniteSet(now)
      BY <3>3, ThreadsAssumption, FS_Subset
    <3>5. Cardinality(now) \in Nat
      BY <3>4, FS_CardinalityType
    <3>6. sent[w] \in Nat /\ requests[w] \in Nat /\ sent[w] + Cardinality(now) <= requests[w]
      BY <1>3, <3>1 DEF Kept, Backed
    <3>7. CASE w = v
      <4>1. next = now \ {t} /\ t \in now
        BY <1>1, <1>2, <1>4, <3>1, <3>2, <3>7 DEF Callers
      <4>2. Cardinality(next) = Cardinality(now) - 1
        BY <3>4, <4>1, FS_RemoveElement
      <4>3. sent'[w] + Cardinality(next) <= requests[w]
        BY <1>9, <3>5, <3>6, <3>7, <4>2
      <4> QED BY <3>2, <4>3
    <3>8. CASE w # v
      <4>1. next = now
        BY <1>1, <1>2, <1>4, <3>1, <3>2, <3>8 DEF Callers
      <4> QED BY <1>9, <3>2, <3>6, <3>8, <4>1
    <3> QED BY <3>7, <3>8
  <2> QED BY <1>6, <1>9, <2>1 DEF Backed
<1>11. Sent' = Sent + 1
  <2>1. PICK one \in Int : one = 1
    OBVIOUS
  <2>2. PICK g : g = sent'
    OBVIOUS
  <2>3. g[v] = sent[v] + one /\ \A w \in Callees : w # v => g[w] = sent[w]
    BY <1>9, <2>1, <2>2
  <2>4. \A w \in Callees : sent[w] \in Int
    BY <1>3
  <2>5. SumOf(g, Callees) = SumOf(sent, Callees) + one
    BY ONLY <2>3, <2>4, v \in Callees, one \in Int, CalleesFinite, SumExcept
  <2> QED BY <2>1, <2>2, <2>5, SumsNext DEF Sent
<1>12. Left' <= Left - 1 /\ Left' \in Int
  <2>1. \A u \in Threads : allowance[u] \in Int /\ allowance'[u] \in Int
    BY <1>5 DEF Kept, Called, allowance, MaxCallsPerRequest
  <2>2. allowance'[t] <= allowance[t] - 1
    BY <1>1, <1>3, <1>4 DEF allowance, Calling, Bound, MaxCallsPerRequest
  <2>3. \A u \in Threads : u # t => allowance'[u] <= allowance[u]
    BY <1>4, <2>1 DEF allowance
  <2>4. PICK minus \in Int : minus = -1
    OBVIOUS
  <2>5. PICK f : f = allowance'
    OBVIOUS
  <2>6. PICK g : g = [u \in Threads |-> IF u = t THEN allowance[u] + minus ELSE allowance[u]]
    OBVIOUS
  <2>7. g[t] = allowance[t] + minus /\ \A u \in Threads : u # t => g[u] = allowance[u]
    BY <2>6
  <2>8. \A u \in Threads : f[u] \in Int /\ g[u] \in Int /\ f[u] <= g[u]
    BY <2>1, <2>2, <2>3, <2>4, <2>5, <2>6
  <2>9. \A u \in Threads : allowance[u] \in Int
    BY <2>1
  <2>10. SumOf(g, Threads) = SumOf(allowance, Threads) + minus
    BY ONLY <2>7, <2>9, t \in Threads, minus \in Int, ThreadsAssumption, SumExcept
  <2>11. SumOf(f, Threads) <= SumOf(g, Threads)
    BY ONLY <2>8, ThreadsAssumption, SumBelow
  <2>12. \A u \in Threads : f[u] \in Int
    BY <2>8
  <2>13. SumOf(f, Threads) \in Int
    BY ONLY <2>12, ThreadsAssumption, SumUnfolds
  <2>14. Left' = SumOf(f, Threads) /\ Left = SumOf(allowance, Threads)
    BY <2>5, SumsNext DEF Left
  <2>15. Left \in Int
    BY SumsAreNat
  <2> QED BY <2>4, <2>10, <2>11, <2>13, <2>14, <2>15
<1>13. Allowed'
  BY <1>7, <1>11, <1>12, SumsAreNat DEF Kept, Allowed, MaxCallsPerRequest
<1> QED BY <1>5, <1>8, <1>10, <1>13 DEF Kept

\* A process that dies takes its threads' calls with it.
LEMMA CrashKept ==
  ASSUME Kept, Typed, NEW p \in Processes, Crash(p)
  PROVE  Kept'
<1> DEFINE mine == {t \in Threads : ProcessOf[t] = p}
<1>1. /\ at' = [t \in Threads |-> IF t \in mine THEN "idle" ELSE at[t]]
      /\ calls' = [t \in Threads |-> IF t \in mine THEN 0 ELSE calls[t]]
      /\ chosen' = [t \in Threads |-> IF t \in mine THEN Nothing ELSE chosen[t]]
      /\ UNCHANGED ledgerVars /\ sent' = sent
  BY DEF Crash, observers
<1> HIDE DEF mine
<1>2. Called'
  <2>1. /\ calls' \in [Threads -> 0..MaxCallsPerRequest]
        /\ chosen' \in [Threads -> Callees \cup {Nothing}]
    BY <1>1 DEF Kept, Called, MaxCallsPerRequest
  <2> QED BY <1>1, <2>1 DEF Kept, Called, Early, Bound
<1>3. \A t \in Threads : allowance'[t] <= allowance[t]
  <2>1. \A t \in Threads : allowance[t] \in Nat
    BY AllowanceIs DEF Kept
  <2> QED BY <1>1, <2>1 DEF allowance, Calling, Bound
<1> QED BY <1>1, <1>2, <1>3, QuietKept

\* Nothing is counted at first.
LEMMA InitKept == Init => Kept
<1> SUFFICES ASSUME Init PROVE Kept
  OBVIOUS
<1> USE DEF Init, LedgerInit
<1>1. Called
  BY DEF Called, Bound, MaxCallsPerRequest
<1>2. LedgerTypeOK /\ \A t \in Threads : allowance[t] = 0
  BY DEF LedgerTypeOK, allowance, Calling, Bound
<1>3. Asked = 0
  <2>1. /\ \A v \in Vendors : requests[v] \in Int
        /\ {} \subseteq Vendors /\ (\A v \in {} : requests[v] = requests[v])
        /\ \A v \in Vendors \ {} : requests[v] = 0
    BY DEF Callees
  <2>2. SumOf(requests, Vendors) = SumOf(requests, {})
    BY ONLY <2>1, VendorsAssumption, SumSupport
  <2> QED BY <2>2, FS_EmptySet, SumUnfolds DEF Asked
<1>4. Sent = 0
  <2>1. /\ \A v \in Callees : sent[v] \in Int
        /\ {} \subseteq Callees /\ (\A v \in {} : sent[v] = sent[v])
        /\ \A v \in Callees \ {} : sent[v] = 0
    OBVIOUS
  <2>2. SumOf(sent, Callees) = SumOf(sent, {})
    BY ONLY <2>1, CalleesFinite, SumSupport
  <2> QED BY <2>2, FS_EmptySet, SumUnfolds DEF Sent
<1>5. Left = 0
  <2>1. /\ \A t \in Threads : allowance[t] \in Int
        /\ {} \subseteq Threads /\ (\A t \in {} : allowance[t] = allowance[t])
        /\ \A t \in Threads \ {} : allowance[t] = 0
    BY <1>2
  <2>2. SumOf(allowance, Threads) = SumOf(allowance, {})
    BY ONLY <2>1, ThreadsAssumption, SumSupport
  <2> QED BY <2>2, FS_EmptySet, SumUnfolds DEF Left
<1>6. Opened \in Nat
  <2>1. \A c \in Capabilities : session[c] \in Nat
    OBVIOUS
  <2> QED BY <2>1, VendorsAssumption, SumNat DEF Opened
<1>7. Counts
  BY <1>2, <1>3, BudgetAssumption, CapsAssumption DEF Counts
<1>8. Backed
  <2>1. \A v \in Callees : Callers(v) = {}
    BY DEF Callers
  <2>2. \A v \in Callees : Cardinality(Callers(v)) = 0
    BY <2>1, FS_EmptySet
  <2>3. sent \in [Callees -> Nat] /\ \A v \in Callees : sent[v] = 0 /\ requests[v] = 0
    OBVIOUS
  <2> QED BY <2>2, <2>3 DEF Backed
<1>9. Allowed
  BY <1>4, <1>5, <1>6 DEF Allowed, MaxCallsPerRequest
<1> QED BY <1>1, <1>7, <1>8, <1>9 DEF Kept

\* Every step keeps the counts.
LEMMA KeptStep == Inv /\ Kept /\ [Next]_vars => Kept'
<1> SUFFICES ASSUME Inv, Kept, [Next]_vars PROVE Kept'
  OBVIOUS
<1>1. CASE UNCHANGED vars
  <2>1. /\ UNCHANGED <<at, calls, chosen>> /\ UNCHANGED ledgerVars /\ sent' = sent
    BY <1>1 DEF vars, threadVars, observers
  <2>2. Called'
    BY <2>1 DEF Kept, Called
  <2>3. \A t \in Threads : allowance'[t] <= allowance[t]
    <3>1. \A t \in Threads : allowance[t] \in Nat
      BY AllowanceIs DEF Kept
    <3> QED BY <2>1, <3>1 DEF allowance
  <2> QED BY <2>1, <2>2, <2>3, QuietKept
<1>2. ASSUME NEW t \in Threads, NEW r \in Requests, Ask(t, r) PROVE Kept'
  BY <1>2, GoesKept DEF Ask, observers, Inv, Steps, Past, Early, Bound, Calling
<1>3. ASSUME NEW t \in Threads, Lock(t) PROVE Kept'
  BY <1>3, GoesKept DEF Lock, observers, Inv, Steps, Past, Early, Bound, Calling
<1>4. ASSUME NEW t \in Threads, Lookup(t) PROVE Kept'
  <2>1. at[t] = "lookup" /\ UNCHANGED ledgerVars /\ sent' = sent
    BY <1>4 DEF Lookup
  <2>2. CASE Ends(t)
    BY <2>1, <2>2, EndsKept DEF Inv
  <2>3. CASE Goes(t, "route") /\ UNCHANGED <<calls, chosen>>
    BY <2>1, <2>3, GoesKept DEF Inv, Steps, Past, Early, Bound, Calling
  <2> QED BY <1>4, <2>2, <2>3 DEF Lookup
<1>5. ASSUME NEW t \in Threads, CheckMonth(t) PROVE Kept'
  <2>1. at[t] = "month" /\ UNCHANGED ledgerVars /\ sent' = sent
    BY <1>5 DEF CheckMonth, observers
  <2>2. CASE Ends(t)
    BY <2>1, <2>2, EndsKept DEF Inv
  <2>3. CASE Goes(t, "pick") /\ UNCHANGED <<calls, chosen>>
    BY <2>1, <2>3, GoesKept DEF Inv, Steps, Past, Early, Bound, Calling
  <2> QED BY <1>5, <2>2, <2>3 DEF CheckMonth
<1>6. ASSUME NEW t \in Threads, WriteOnce(t) PROVE Kept'
  <2>1. /\ at[t] = "write" /\ Goes(t, "append") /\ UNCHANGED <<calls, chosen>>
        /\ UNCHANGED ledgerVars /\ sent' = sent
    BY <1>6 DEF WriteOnce, observers
  <2> QED BY <2>1, GoesKept DEF Inv, Steps, Past, Early, Bound, Calling
<1>7. ASSUME NEW t \in Threads, AppendIndex(t) \/ AppendFails(t) PROVE Kept'
  <2>1. Ends(t) /\ UNCHANGED ledgerVars /\ sent' = sent
    BY <1>7 DEF AppendIndex, AppendFails
  <2> QED BY <2>1, EndsKept DEF Inv
<1>8. ASSUME NEW p \in Processes, Crash(p) PROVE Kept'
  BY <1>8, CrashKept DEF Inv
<1> QED BY <1>1, <1>2, <1>3, <1>4, <1>5, <1>6, <1>7, <1>8, RouteKept, PickKept, ReserveKept,
           CallKept DEF Next

\* What is kept is what EverySendIsPaidFor states.
LEMMA KeptPays == Kept => EverySendIsPaidFor
<1> SUFFICES ASSUME Kept PROVE EverySendIsPaidFor
  OBVIOUS
<1>1. DOMAIN sent = Callees /\ DOMAIN session = Capabilities
  BY DEF Kept, Backed, Counts, LedgerTypeOK
<1>2. /\ SumFunction(sent) = Sent /\ SumFunction(session) = Opened
      /\ SumFunctionOnSet(requests, Vendors) = Asked
  BY <1>1, SumFunctionIs DEF SumFunction, Sent, Opened, Asked
<1>3. CapsHold
  BY <1>2 DEF Kept, Counts, CapsHold
<1>4. ASSUME NEW v \in Callees PROVE sent[v] <= requests[v]
  <2>1. PICK now : now = Callers(v)
    OBVIOUS
  <2>2. now \in SUBSET Threads
    BY <2>1 DEF Callers
  <2>3. Cardinality(now) \in Nat
    BY <2>2, ThreadsAssumption, FS_Subset, FS_CardinalityType
  <2>4. sent[v] \in Nat /\ requests[v] \in Nat /\ sent[v] + Cardinality(now) <= requests[v]
    BY <2>1 DEF Kept, Backed, Counts, LedgerTypeOK
  <2> QED BY <2>3, <2>4
<1>5. SumFunction(sent) <= MaxCallsPerRequest * SumFunction(session)
  BY <1>2, SumsAreNat DEF Kept, Allowed, MaxCallsPerRequest
<1> QED BY <1>3, <1>4, <1>5 DEF EverySendIsPaidFor

\* No vendor is called before the call is counted, no budget or cap is passed and no request is put
\* to a third vendor, whoever reserves the last unit at once and whoever crashes in between
\* (WebResearch._route, UsageLedger.reserve_call).
THEOREM SendsArePaidFor == Spec => []EverySendIsPaidFor
<1>1. Init => Inv /\ Kept
  BY InitInv, InitKept
<1>2. Inv /\ Kept /\ [Next]_vars => (Inv /\ Kept)'
  BY InvStep, KeptStep
<1> QED BY <1>1, <1>2, KeptPays, PTL DEF Spec

=============================================================================
