SPECIFICATION Spec
CONSTANTS
    Tab = {t1, t2}
    Token = {k1, k2}
    Secret = {s1, s2}
    Who = {root, other}
    Entry = {e1}
    None = none
    Admin = root
    MaxChanges = 1
    MaxResets = 1
    MaxClicks = 4
SYMMETRY Symmetry
INVARIANTS
    TypeOK
    ProfileIsCurrent
    CsrfIsTheCookies
    SecretWasShown
    ResetRevokes
CHECK_DEADLOCK FALSE
