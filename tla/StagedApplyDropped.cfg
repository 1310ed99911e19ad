CONSTANTS
    dev = dev
    tone = tone
    hw = hw
    a = a
    b = b
    Requests = {r1}
    Fields <- MCFields
    LiveDomain <- MCLive
    Device = dev
    Values = {a, b}
    Factory <- MCFactory
    Uploads = {}
    None = None
    Passes = 1
    EditsMeanwhile = TRUE
    LiveMeanwhile = FALSE
    MaxStages = 2
    MaxLive = 0
    MaxLost = 0
    MaxDeaf = 0
    MaxEndpoints = 0
SPECIFICATION Spec
PROPERTIES
    NothingDropped
