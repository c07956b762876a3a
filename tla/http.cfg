CONSTANTS
    Messages = 2
    Headers = 1
    Bodies <- MCBodies
    BufferSize = 4
SPECIFICATION Spec
INVARIANTS
    HttpTypeOK
    HeadersAsSent
    BodiesReachTheirHandlers
PROPERTIES
    EverythingIsRead
    EndIsHeard
