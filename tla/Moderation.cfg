SPECIFICATION FairSpec
CONSTANTS
  Photo = {f1, f2}
  Staff = {i1, i2}
  Handler = {c1, c2}
  None = None
  SWEEP_BATCH = 2
  MaxFailures = 2
INVARIANTS TypeOK RecordsAgree
PROPERTIES PersonDecides EveryPhotoIsChecked
CHECK_DEADLOCK FALSE
