----------------------------- MODULE MCResearch -----------------------------
(* Research for TLC: two threads of one process and one of another, a vendor of one unit a call *)
(* and one that bills a search two. *)
EXTENDS Research

CONSTANTS t1, t2, u1, tavily, firecrawl, direct, query, page

TwoProcesses == [t \in {t1, t2, u1} |-> IF t = u1 THEN "daily" ELSE "interview"]
KindOf == [r \in {query, page} |-> IF r = query THEN "search" ELSE "fetch"]
Billing == [vc \in {tavily, firecrawl} \X {"search", "fetch"} |->
              IF vc = <<firecrawl, "search">> THEN 2 ELSE 1]
MonthBudget == [v \in {tavily, firecrawl} |-> IF v = tavily THEN 1 ELSE 2]
SessionCaps == [c \in {"search", "fetch"} |-> IF c = "search" THEN 1 ELSE 2]
=============================================================================
