SPECIFICATION Spec
PROPERTY Ends
CHECK_DEADLOCK FALSE
