\* Every small record over both transports.
SPECIFICATION Spec

CONSTANTS
    Text = {"id", "type", "new", "old", "static", "t:0:0", "t:0:1", "t:0:2"}
    Empty = ""
    Blank = " "
    None = None
    Records <- MCRecords
    EndpointHeaders <- MCEndpointHeaders
    OffsetId <- MCOffsetId
    TransientAnswers = {408, 429, 503}
    FinalAnswers = {302, 404}
    MaxAttempts = 2
    InitialInterval = 1
    MaxInterval = 2
    Multiplier = 2

\* A row that is settled and received is at rest.
CHECK_DEADLOCK FALSE

INVARIANTS
    TypeOK
    PublishedIsReceived
    OneInboxRow
    MetadataSurvives
    AcceptedIsNotRefused
    TransientIsRetried
