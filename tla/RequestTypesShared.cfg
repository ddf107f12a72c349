\* One kind of server, which supports everything and a type more.
SPECIFICATION Spec
CONSTANTS
  Groups <- MCGroups
  Servers <- OneServer
INVARIANT EnabledIsRequested
