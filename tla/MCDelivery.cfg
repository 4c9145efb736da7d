SPECIFICATION DeliverySpec
CONSTANTS
  c1 = c1
  c2 = c2
  Campaigns <- TwoCampaigns
  Rows <- ThreeRows
  CampaignOf <- Between
  MaxAttempts = 2
  MaxRepairs = 1
  MaxCrashes = 1
INVARIANTS
  RowsInOrder
  ResultsInOrder
PROPERTIES
  ResultsArrive
