SPECIFICATION Spec
CONSTANTS
    MaxSend = 3
INVARIANT FlightsPushedOut
CHECK_DEADLOCK FALSE
