SPECIFICATION FairSpec
CONSTANTS
    Offsets <- Slots
    DefaultSlots <- Defaults
    SetChoices <- SetSome
    GetChoices <- GetSome
    Revisions <- OldAndNew
    RegistryOpens = {TRUE}
    MaxInPipe = 2
    MaxIoctls = 2
    MaxEvents = 1
INVARIANTS TypeOK CacheTrue SettingsApplied ClockLeftIdle NvSupported NvSettles
PROPERTIES ReadsForward ReadsComplete
CHECK_DEADLOCK FALSE
