SPECIFICATION Spec
CONSTANTS
    QueueSize = 2
    InputSize = 2
    ReplySize = 3
    BufferSize = 3
    Request = 3
    Messages <- MCMessages
    Writes <- MCWrites
INVARIANTS
    TypeOK
    EndpointsMatchState
    UsbOwnReply
    VxiOwnReply
    MavBeforeReply
    NoOverlappingReads
    LedShowsErrors
PROPERTIES
    ReplyForgottenWhenTaken
    ImplementsChannel
