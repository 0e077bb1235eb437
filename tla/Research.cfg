SPECIFICATION Spec
CONSTANTS
  t1 = t1
  t2 = t2
  u1 = u1
  tavily = tavily
  firecrawl = firecrawl
  direct = direct
  query = query
  page = page
  Vendors = {tavily, firecrawl}
  Direct = direct
  Capabilities = {"search", "fetch"}
  Units <- Billing
  Budget <- MonthBudget
  MonthlyCap = 2
  SessionCap <- SessionCaps
  Threads = {t1, t2, u1}
  ProcessOf <- TwoProcesses
  Requests = {query, page}
  CapabilityOf <- KindOf
  MaxFaults = 1
INVARIANTS EverySendIsPaidFor OneAnswer
