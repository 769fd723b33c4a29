\* Requests beside a printer that changes what it supports.
SPECIFICATION Spec
CONSTANTS
  None = None
  Malformed = Malformed
  MediaNames <- SmallMedia
  PWGSize <- SmallSizes
  Clients = {c1}
  Requests <- SmallRequests
  Upstreams <- SmallUpstreams
  Policies <- SmallPolicies
  VendorDrop = {"vendor"}
  Preserve = {"sides", "print-quality", "printer-resolution", "overrides", "media"}
  MaxSent = 2
INVARIANTS
  TypeOK
  PolicyEnforced
  AdvertisedIsHonoured
  TranslatedAsForwarded
CHECK_DEADLOCK FALSE
