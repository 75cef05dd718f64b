SPECIFICATION FairSpec
CONSTANTS
    Offsets <- Slots
    DefaultSlots <- Defaults
    SetChoices <- SetSome
    GetChoices <- GetSome
    Revisions <- OldAndNew
    RegistryOpens = {TRUE}
    MaxInPipe = 2
    MaxIoctls = 2
    MaxEvents = 0
INVARIANT FcrAsSet
CHECK_DEADLOCK FALSE
