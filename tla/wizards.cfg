CONSTANTS
  Addresses = {a1, a2}
  Documents = {government_id, business_license}
  Required = {government_id}
  MaxPhotos = 1
  MaxFiles = 3
  MaxEvidence = 1
  MaxInputs = 5
  MaxSubmits = 2
  HasMapbox = TRUE
  Unset = Unset
SPECIFICATION Spec
CHECK_DEADLOCK FALSE
INVARIANT StepsBehindValid
INVARIANT AddressLocated
INVARIANT CompletedSaved
INVARIANT UploadsLimited
