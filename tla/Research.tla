------------------------------ MODULE Research ------------------------------
(***************************************************************************)
(* Web research: a thread of some process asks for a page or a search      *)
(* (analyst/websearch/research.py, WebResearch) and is answered from the   *)
(* snapshot store (analyst/commons/fetch.py, SnapshotStore) if anyone      *)
(* asked before, else by one vendor and at most one fallback, whose answer *)
(* is stored and indexed.                                                  *)
(*                                                                         *)
(* The store is shared by every process: one flock per request, snapshots  *)
(* that are linked into place whole, an index that is appended to.  The    *)
(* counts are UsageLedger's.  A snapshot stands for its bytes: two fetches *)
(* of a request are two snapshots, their fetched_at being different.       *)
(***************************************************************************)
EXTENDS UsageLedger

CONSTANTS
  Threads,         \* those that ask
  ProcessOf,       \* the process of each
  Requests,        \* <<kind, target, session>>, of one session
  CapabilityOf,    \* a query is a search, a URL a fetch
  MaxFaults        \* bound on crashes and on appends that go wrong

Processes == {ProcessOf[t] : t \in Threads}
MaxCallsPerRequest == 2

ASSUME ThreadsAssumption == IsFiniteSet(Threads)
ASSUME RequestsAssumption == CapabilityOf \in [Requests -> Capabilities]
ASSUME FaultsAssumption == MaxFaults \in Nat

VARIABLES
  at, req,       \* where each thread is, and the request it is on
  asked, calls,  \* the vendors it has picked, and how many it has called
  chosen,        \* the vendor it is about to ask
  snapshot,      \* the snapshot it has written
  refusing,      \* per process, the <<vendor, capability>> out of its rotation
  flocked,       \* the requests whose lock is held
  snapshots,     \* those in the store
  index,         \* the <<request, snapshot>> lines of the index
  torn,          \* a line of the index is not whole: no line after it can be read
  fetched,       \* answers of each request (they name the snapshots)
  sent,          \* calls each vendor has seen (observer)
  told,          \* the <<request, snapshot>> pairs handed to a caller (observer)
  faults         \* counted against MaxFaults

threadVars == <<at, req, asked, calls, chosen, snapshot>>
storeVars == <<flocked, snapshots, index, torn, fetched>>
observers == <<sent, told>>
vars == <<ledgerVars, threadVars, refusing, storeVars, observers, faults>>

Nothing == "nothing"

Init ==
  /\ LedgerInit
  /\ at = [t \in Threads |-> "idle"] /\ req = [t \in Threads |-> Nothing]
  /\ asked = [t \in Threads |-> {}] /\ calls = [t \in Threads |-> 0]
  /\ chosen = [t \in Threads |-> Nothing] /\ snapshot = [t \in Threads |-> Nothing]
  /\ refusing = [p \in Processes |-> {}]
  /\ flocked = {} /\ snapshots = {} /\ index = {} /\ torn = FALSE
  /\ fetched = [r \in Requests |-> 0]
  /\ sent = [v \in Callees |-> 0] /\ told = {}
  /\ faults = 0

Goes(t, step) == at' = [at EXCEPT ![t] = step]
Capability(t) == CapabilityOf[req[t]]
Tell(t, s) == told' = told \cup {<<req[t], s>>}

\* get_or_fetch returns or raises: the lock is released and nothing is left in the thread.
Ends(t) ==
  /\ Goes(t, "idle")
  /\ req' = [req EXCEPT ![t] = Nothing]
  /\ asked' = [asked EXCEPT ![t] = {}] /\ calls' = [calls EXCEPT ![t] = 0]
  /\ chosen' = [chosen EXCEPT ![t] = Nothing] /\ snapshot' = [snapshot EXCEPT ![t] = Nothing]
  /\ flocked' = flocked \ {req[t]}

Fault == faults < MaxFaults /\ faults' = faults + 1

-----------------------------------------------------------------------------
(* SnapshotStore.get_or_fetch *)

Ask(t, r) ==
  /\ at[t] = "idle"
  /\ Goes(t, "lock") /\ req' = [req EXCEPT ![t] = r]
  /\ UNCHANGED <<ledgerVars, asked, calls, chosen, snapshot, refusing, storeVars, observers,
                 faults>>

\* Mutant: no lock per request.
LockOpen(t) == TRUE

\* _request_lock: flock waits for the thread, of any process, that holds it.
LockFree(t) == req[t] \notin flocked

Lock(t) ==
  /\ at[t] = "lock" /\ LockFree(t)
  /\ flocked' = flocked \cup {req[t]}
  /\ Goes(t, "lookup")
  /\ UNCHANGED <<ledgerVars, req, asked, calls, chosen, snapshot, refusing, snapshots, index, torn,
                 fetched, observers, faults>>

\* lookup: the lines are read up to the request's, or up to the one that is torn.
Lookup(t) ==
  LET lines == {line \in index : line[1] = req[t]} IN
  /\ at[t] = "lookup"
  /\ \/ /\ \E line \in lines : Tell(t, line[2])
        /\ Ends(t)
     \/ lines = {} /\ torn /\ Ends(t) /\ UNCHANGED told
     \/ /\ lines = {} /\ ~torn
        /\ Goes(t, "route")
        /\ UNCHANGED <<req, asked, calls, chosen, snapshot, flocked, told>>
  /\ UNCHANGED <<ledgerVars, refusing, snapshots, index, torn, fetched, sent, faults>>

-----------------------------------------------------------------------------
(* WebResearch._route *)

\* _reserve_session: at the session's cap nothing is sent.
Route(t) ==
  /\ at[t] = "route"
  /\ \/ /\ ReserveSession(Capability(t)) /\ Goes(t, "month")
        /\ UNCHANGED <<req, asked, calls, chosen, snapshot, flocked>>
     \/ ~SessionLeft(Capability(t)) /\ Ends(t) /\ UNCHANGED ledgerVars
  /\ UNCHANGED <<refusing, snapshots, index, torn, fetched, observers, faults>>

\* The monthly cap is looked at before any vendor is.
CheckMonth(t) ==
  /\ at[t] = "month"
  /\ IF WithinBudget(total, 1, MonthlyCap)
     THEN Goes(t, "pick") /\ UNCHANGED <<req, asked, calls, chosen, snapshot, flocked>>
     ELSE Ends(t)
  /\ UNCHANGED <<ledgerVars, refusing, snapshots, index, torn, fetched, observers, faults>>

Eligible(t) ==
  {v \in Vendors \ asked[t] :
     <<v, Capability(t)>> \notin refusing[ProcessOf[t]] /\ Remaining(v, Capability(t)) > 0}

\* The rotation's choice, or the direct fetch for a page no vendor is left for.
Askable(t) ==
  IF Eligible(t) # {} THEN Eligible(t)
  ELSE IF Capability(t) = "fetch" THEN {Direct} \ asked[t] ELSE {}

\* _pick.  With two calls made, or nobody left to ask, the request ends with NoResultError.
Pick(t) ==
  /\ at[t] = "pick"
  /\ \/ /\ calls[t] < MaxCallsPerRequest
        /\ \E v \in Askable(t) :
             /\ chosen' = [chosen EXCEPT ![t] = v]
             /\ asked' = [asked EXCEPT ![t] = @ \cup {v}]
        /\ Goes(t, "reserve")
        /\ UNCHANGED <<req, calls, snapshot, flocked>>
     \/ (calls[t] = MaxCallsPerRequest \/ Askable(t) = {}) /\ Ends(t)
  /\ UNCHANGED <<ledgerVars, refusing, snapshots, index, torn, fetched, observers, faults>>

\* _reserve.  A vendor whose last unit went to another thread was not called.
Reserve(t) ==
  /\ at[t] = "reserve"
  /\ \E outcome \in {"ok", "over_vendor_budget", "over_monthly_cap"} :
       /\ ReserveCall(chosen[t], Capability(t), outcome)
       /\ IF outcome = "over_monthly_cap"
          THEN Ends(t)
          ELSE /\ Goes(t, IF outcome = "ok" THEN "call" ELSE "pick")
               /\ UNCHANGED <<req, asked, calls, chosen, snapshot, flocked>>
  /\ UNCHANGED <<refusing, snapshots, index, torn, fetched, observers, faults>>

\* _call: a usable answer; nothing usable, or a refusal of us, and the fallback is tried; the
\* page's own site refuses, and no other route is.
Call(t) ==
  LET leaves == UNCHANGED <<req, asked, chosen, snapshot, flocked>>
      goesOn == calls' = [calls EXCEPT ![t] = @ + 1] /\ leaves
      out == <<chosen[t], Capability(t)>>
  IN
  /\ at[t] = "call"
  /\ sent' = [sent EXCEPT ![chosen[t]] = @ + 1]
  /\ \/ Goes(t, "write") /\ goesOn /\ UNCHANGED refusing
     \/ Goes(t, "pick") /\ goesOn /\ UNCHANGED refusing
     \/ /\ Goes(t, "pick") /\ goesOn /\ chosen[t] # Direct
        /\ refusing' = [refusing EXCEPT ![ProcessOf[t]] = @ \cup {out}]
     \/ Capability(t) = "fetch" /\ Ends(t) /\ UNCHANGED refusing
  /\ UNCHANGED <<ledgerVars, snapshots, index, torn, fetched, told, faults>>

-----------------------------------------------------------------------------
(* SnapshotStore.put *)

\* _write_once: the file is written under another name and linked, so it is whole or absent.
WriteOnce(t) ==
  /\ at[t] = "write"
  /\ LET s == fetched[req[t]] + 1 IN
     /\ snapshots' = snapshots \cup {<<req[t], s>>}
     /\ snapshot' = [snapshot EXCEPT ![t] = s]
     /\ fetched' = [fetched EXCEPT ![req[t]] = s]
  /\ Goes(t, "append")
  /\ UNCHANGED <<ledgerVars, req, asked, calls, chosen, refusing, flocked, index, torn, observers,
                 faults>>

\* _append_index.  After a torn line the new one is lost to every reader.
AppendIndex(t) ==
  /\ at[t] = "append"
  /\ index' = IF torn THEN index ELSE index \cup {<<req[t], snapshot[t]>>}
  /\ Tell(t, snapshot[t])
  /\ Ends(t)
  /\ UNCHANGED <<ledgerVars, refusing, snapshots, torn, fetched, sent, faults>>

\* A full disk: os.write raises, or writes part of the line and put returns all the same.
AppendFails(t) ==
  /\ at[t] = "append"
  /\ \/ UNCHANGED <<torn, told>>
     \/ torn' = TRUE /\ Tell(t, snapshot[t])
  /\ Ends(t) /\ Fault
  /\ UNCHANGED <<ledgerVars, refusing, snapshots, index, fetched, sent>>

-----------------------------------------------------------------------------
\* A process dies with its threads: its locks go, what is stored and counted stays.
Crash(p) ==
  LET mine == {t \in Threads : ProcessOf[t] = p}
      Cleared(f, value) == [t \in Threads |-> IF t \in mine THEN value ELSE f[t]]
  IN
  /\ \E t \in mine : at[t] # "idle"
  /\ flocked' = flocked \ {req[t] : t \in {u \in mine : at[u] \notin {"idle", "lock"}}}
  /\ at' = Cleared(at, "idle") /\ req' = Cleared(req, Nothing)
  /\ asked' = Cleared(asked, {}) /\ calls' = Cleared(calls, 0)
  /\ chosen' = Cleared(chosen, Nothing) /\ snapshot' = Cleared(snapshot, Nothing)
  /\ refusing' = [refusing EXCEPT ![p] = {}]
  /\ Fault
  /\ UNCHANGED <<ledgerVars, snapshots, index, torn, fetched, observers>>

Next ==
  \/ \E t \in Threads :
       \/ \E r \in Requests : Ask(t, r)
       \/ Lock(t) \/ Lookup(t) \/ Route(t) \/ CheckMonth(t) \/ Pick(t) \/ Reserve(t) \/ Call(t)
       \/ WriteOnce(t) \/ AppendIndex(t) \/ AppendFails(t)
  \/ \E p \in Processes : Crash(p)

Spec == Init /\ [][Next]_vars

-----------------------------------------------------------------------------
(* Properties *)

\* Every vendor call was counted before it was made, no count passes its cap, and no request the
\* session counted was put to more than two vendors, through races for the last unit and
\* crashes ("What it never does: ... call a third vendor for one request ... or exceed a
\* budget or a cap").
EverySendIsPaidFor ==
  /\ CapsHold
  /\ \A v \in Callees : sent[v] <= requests[v]
  /\ SumFunction(sent) <= MaxCallsPerRequest * SumFunction(session)

\* Everyone who asks for a request is given the same snapshot, which is in the store, whoever asks
\* at once and whatever crash or short write comes between the snapshot and its index line ("one
\* fetch, not two"; "the first index entry wins").
OneAnswer ==
  /\ told \cup index \subseteq snapshots
  /\ \A a, b \in told \cup index : a[1] = b[1] => a = b
=============================================================================
