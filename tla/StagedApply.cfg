CONSTANTS
    dev = dev
    tone = tone
    hw = hw
    a = a
    b = b
    Requests = {r1}
    Fields <- MCFields
    LiveDomain <- MCLive
    Device = dev
    Values = {a, b}
    Factory <- MCFactory
    Uploads = {u1}
    None = None
    Passes = 2
    EditsMeanwhile = FALSE
    LiveMeanwhile = FALSE
    MaxStages = 2
    MaxLive = 1
    MaxLost = 1
    MaxDeaf = 1
    MaxEndpoints = 1
SPECIFICATION Spec
PROPERTIES
    NothingDropped
    UploadsShip
    UntouchedSurvives
