CONSTANTS
    MaxStarts = 2
    MaxMessages = 1
    Modes = {"Video", "Talk"}
SPECIFICATION LiveSpec
INVARIANTS SessionsKeepApart MicrophoneGated ReleasedOnce StoppedHoldsNothing
PROPERTIES StopEnds
CHECK_DEADLOCK FALSE
