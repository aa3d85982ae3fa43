SPECIFICATION MCSpec
CONSTANTS
    Tags = {a, b, c}
    Providers <- MCProviders
    Outbounds <- MCOutbounds
    Inbounds <- MCInbounds
INVARIANTS
    RunsBacked
    ClosesRight
    OrderIsRight
    SweepAgrees
PROPERTY CallsAnswer
