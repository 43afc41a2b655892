\* Three logins, so that one can be refused twice, and two changes of the list,
\* one of them while the GUI thread copies it.
SPECIFICATION FairSpec
CONSTANTS
    MaxLogin = 3
    MaxChange = 2
INVARIANTS
    OneLogin
    EnteredIsMember
    CleanIsCurrent
PROPERTIES
    ListIsShown
    ConnectingEnds
    CloseEnds
\* The program ends with its window.
CHECK_DEADLOCK FALSE
