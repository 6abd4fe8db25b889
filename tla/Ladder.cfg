\* A ladder of three rungs, two keys, two broadcasts, one change of the plan.
SPECIFICATION Spec
CONSTANTS
  Top = 3
  FreeTop = 2
  StudioTop = 3
  MaxKeys = 2
  MaxTurns = 3
INVARIANTS
  OfferedIsEncoded
  PlaysWhatIsSelected
PROPERTY
  LeavesMissingRung
CHECK_DEADLOCK FALSE
