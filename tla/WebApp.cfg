SPECIFICATION FairSpec
CONSTANTS
    Choices = {"desktop", "connect", "httpgw"}
    Files = {f1}
    Calls = {k1}
    MaxChanges = 3
    MaxLoads = 2
    MaxWaiting = 2
    None = None
CHECK_DEADLOCK FALSE
INVARIANTS TypeOK ShowsCurrentStatus DropAreaReady UsesChosenClient TransfersWhatWasAsked
PROPERTY ServerExits
