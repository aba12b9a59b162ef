CONSTANTS
    a = a
    b = b
    Node = {a, b}
    Broadcast = Broadcast
    NoFrame = NoFrame
    Flow <- Flows
    MaxMsgs <- TwoOne
    queueLength = 0
    macMinBE = 1
    macMaxBE = 2
    macMaxCSMABackoffs = 1
    macMaxFrameRetries = 0
SPECIFICATION FairSpec
INVARIANTS TimerOfState NoFrameDuringSifs OneVerdict
PROPERTIES ResumeAsSuspended UpInOrderOnce QueueDrains
CHECK_DEADLOCK FALSE
