SPECIFICATION FairSpec
CONSTANTS
    MaxNodes = 2
    MaxChannels = 2
    MaxBuffers = 2
    RingCap = 1
    BundleCap = 1
    DrainCap = 2
    PendingCap = 2
    GarbageCap = 1
    Procs = {p1, p2}
    Dummy = Dummy
    NoMutation = NoMutation
    Ops = {"AddNode", "SwapProcessor", "UpdateEdge", "UpdateOutputEdge", "Disconnect", "RemoveNode", "SetBypass", "AddSource", "PlayNode", "CommitTopology"}
    Wires <- MCWires
    MaxBundle = 2
    MaxCommands = 3
INVARIANTS ActiveIsPublished OwnedOnce ReplicasAgree
PROPERTIES InstallsForward WiringChangesAtCommit FreedOnlyOnOverflow Converges
