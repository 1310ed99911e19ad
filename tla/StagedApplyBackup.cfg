CONSTANTS
    dev = dev
    tone = tone
    hw = hw
    a = a
    b = b
    Requests = {r1}
    Fields <- MCFields
    LiveDomain <- MCLive
    Device = dev
    Values = {a, b}
    Factory <- MCFactory
    Uploads = {}
    None = None
    Passes = 2
    EditsMeanwhile = FALSE
    LiveMeanwhile = FALSE
    MaxStages = 2
    MaxLive = 0
    MaxLost = 0
    MaxDeaf = 1
    MaxEndpoints = 0
SPECIFICATION Spec
INVARIANTS
    BackupPredatesApply
