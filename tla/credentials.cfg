SPECIFICATION Spec
CONSTANTS
    k1 = k1
    k2 = k2
    p1 = p1
    p2 = p2
    None = None
    Keys <- ModelKeys
    Passwords <- ModelPasswords
    Styles <- ModelStyles
    MaxRuns = 5
    MaxCrashes = 1
SYMMETRY NameSymmetry
CHECK_DEADLOCK FALSE
INVARIANT TypeOK
INVARIANT StoredTogether
INVARIANT InstallAsMeant
