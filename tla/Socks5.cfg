\* Every outcome of a negotiation and lengths at the limits of the headers.
CONSTANTS
  Credentials = {"none", "fit", "long"}
  ProxyFamily = 4
  Datagrams <- MCDatagrams
  Payloads = {65513, 65514, 65535}
  MaxArrivals = 2
  None = None
SPECIFICATION Spec
INVARIANTS
  AssociationLasts
  PacketsAreCarried
  FamilyMatches
PROPERTY DialEnds
