SPECIFICATION Spec
CONSTANTS
    None = None
    Environment = "production"
    MAX_CSV_BYTES = 3
    MAX_UPLOAD_REQUEST_BYTES = 5
    MaxChunk = 3
INVARIANTS
    PipelineTypeOK
    ExactlyOneAnswer
    AnswersCarryTraceAndCors
    SizeLimitIsExact
    WorkIsAuthorized
    AnswersAsDeclared
PROPERTY
    EveryRequestEnds
