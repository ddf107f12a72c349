\* SetStreamMode while another route is connected and this one is not yet.
SPECIFICATION Spec
CONSTANTS
  Types = {contents, centroids, segments}
  Contents = contents
  Offers <- MCOffers
  Filters = {f1}
  NoFilter = NoFilter
  Devices = {d1}
  MaxOwed = 1
  OtherRoutes = TRUE
INVARIANTS StreamingTold
CHECK_DEADLOCK FALSE
