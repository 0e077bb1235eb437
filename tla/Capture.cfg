SPECIFICATION LiveSpec
CONSTANTS
  scheduler = scheduler
  cli = cli
  campaign = campaign
  good = good
  bad = bad
  Jobs = {scheduler, cli}
  Campaigns = {campaign}
  Contents = {good, bad}
  Parseable = {good}
  Owed = 2
  MaxCampaigns = 1
  MaxFaults = 1
INVARIANTS PublishedIsRederivable OneDriver
PROPERTIES ImplementsArchive PublishedStands ServedIsLanded
