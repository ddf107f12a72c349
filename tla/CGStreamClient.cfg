\* One route from Connect to its end, one filter, one Apex device, a server with all
\* the types or with the contents only: no setting is lost, and filters arrive.
SPECIFICATION FairSpec
CONSTANTS
  Types = {contents, centroids, segments}
  Contents = contents
  Offers <- MCOffers
  Filters = {f1}
  NoFilter = NoFilter
  Devices = {d1}
  MaxOwed = 1
  OtherRoutes = FALSE
INVARIANTS TypeOK SettingsTold
PROPERTIES FilterArrives
CHECK_DEADLOCK FALSE
