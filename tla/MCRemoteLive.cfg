SPECIFICATION Spec
CONSTANTS
    QueueSize = 1
    InputSize = 2
    ReplySize = 2
    BufferSize = 3
    Request = 3
    Messages <- LiveMessages
    Writes <- LiveWrites
PROPERTIES
    QueryServed
    CallAnswered
    ListensAgain
