CONSTANTS
    b1 = b1
    b2 = b2
    c1 = c1
    c2 = c2
    Boxes = {b1, b2}
    Allowlisted = {b2}
    Networked = {b2}
    Ephemeral = {b2}
    Calls = {c1, c2}
    Serves <- MCServes
    MaxFaults = 1
    Hosts <- MCHosts
    Requests <- MCRequests
    Outputs <- MCOutputs
    Chunk = 2
    ChannelSize = 1
    PipeSize = 1
    MaxTyped = 2
    MaxOutput <- MCMaxOutput
    Names = {"good", "evil"}
    AllowedNames = {"good"}
    MaxQueries = 3
SPECIFICATION DeploymentSpec
INVARIANTS
    DeploymentTypeOK
    NoStrayNetwork
    OwnReply
    ReplyIsComing
    DestroyedIsGone
    FailedIsGone
    EntryIsKnown
    UnfilteredOnlyInPassing
    FcDestroyIsComplete
    LocalDestroyIsComplete
    RestoreUndone
    EnforcementTold
    NetworkNeverWider
    SelectionIsSound
    ConfigArrives
    OwnAnswer
    ExitCodeIsLast
    ShownInOrder
    EphemeralIsGone

    
CHECK_DEADLOCK FALSE
