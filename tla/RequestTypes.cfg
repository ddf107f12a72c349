\* Groups that share types, turned on and off over four kinds of servers.
SPECIFICATION Spec
CONSTANTS
  Groups <- MCGroups
  Servers <- MCServers
INVARIANTS TypeOK NothingUnasked OneFormOfSegments ScaleNotRefused
PROPERTY LightweightAlone
