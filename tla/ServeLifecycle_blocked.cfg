SPECIFICATION Spec
CONSTANTS
    Client = {c1}
    Files <- WithDiskPath
    Environments <- Unset
    Flags <- Unset
    ServeFlags <- Unset
PROPERTY StartsServing
CHECK_DEADLOCK FALSE
