SPECIFICATION Spec
CONSTANTS
    Frames = {"scan", "gate", "odd"}
    Kinds <- MCKinds
    Flushing = {"gate"}
    Server = "server"
    MaxRequests = 1
    QueueSize = 1
    PipeSize = 1
ACTION_CONSTRAINT Narrowed
INVARIANTS
    AnsweredOnce
    AnsweredIsFlushed
PROPERTIES
    RequestsAreAnswered
    SignalStopsServing
CHECK_DEADLOCK FALSE
