SPECIFICATION Spec
CONSTANT Nothing = Nothing
PROPERTIES OutdatedPlanLeaves RetriesEnd RevokedEnds DeletedStoreGoes ClosesAgain ComesInSync
CHECK_DEADLOCK FALSE
