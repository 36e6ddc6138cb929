SPECIFICATION Spec
CONSTANTS
  Empty = ""
  Tree <- MCTree
  NoPath = NoPath
  Cases <- MCCases
  Given <- MCGiven
  Welcome <- MCWelcome
CHECK_DEADLOCK FALSE
INVARIANTS TypeOK OptionsAsRead RightsAsConfigured UploadStillAllowed ButtonIsUseful
INVARIANTS OwnFormsWork ServedFromBestShare IndexIsFirst ListedIsReachable
PROPERTY RefusedOnlyGuests
