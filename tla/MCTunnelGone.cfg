SPECIFICATION Spec
CONSTANTS
    MaxQueued = 1
    Retry = 1
    FlushWait = 2
    MaxDown = 2
    MaxUp = 1
INVARIANT NothingLeftWhenStreamGone
