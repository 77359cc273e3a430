\* Lists of two cookies of two names, for two sites; all options.
CONSTANTS
  Hosts <- MCHosts
  Names = {"n", "m"}
  Offers <- MCOffers
  MaxSpare = 1
  None = None
SPECIFICATION Spec
INVARIANTS
  SiteHasItsCookies
  SnapshotsHold
PROPERTY StoreSpec
