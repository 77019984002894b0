SPECIFICATION Spec
PROPERTY StillTryingToConnect
CHECK_DEADLOCK FALSE
