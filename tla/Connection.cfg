CONSTANTS
    h1 = h1
    h2 = h2
    right = right
    wrong = wrong
    Hosts = {h1, h2}
    FirstHost = h1
    FirstPasswords = {right, NoPassword}
    FirstWebs <- OnlyFirstServes
    Passwords = {right, wrong}
    NoPassword = NoPassword
    Accepts <- BothTakeRight
    Posts = {p1}
    None = None
    Getters = 2
    MaxSaves = 1
    MaxTurns = 1
    MaxFaults = 1
SPECIFICATION FairSpec
PROPERTIES
    SavedIsTrue
    VerdictComesTrue
    ReadingsFollow
