CONSTANTS
    Key <- MCKey
    Script <- MCScript
    Kind <- MCKind
    Sol <- MCSol

SPECIFICATION Spec

\* the wallet stops once it holds every key and script
CHECK_DEADLOCK FALSE

INVARIANT
    IsMineMatchesReference
