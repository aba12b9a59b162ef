CONSTANTS
    f1 = f1
    f2 = f2
    f3 = f3
    AirFrame = {f1, f2, f3}
    Power <- Powers
    thermalNoise = 1
    compatibilityMode = FALSE
    NoFrame = NoFrame
    MaxFrames = 4
SPECIFICATION RadioNicSpec
INVARIANTS SignalAndNoise RssiIsTotal PublishedRssiCurrent ReportedIsWorst LastCommandObeyed
