CONSTANTS
    Tasks = {t1, t2}
    Models = {glm, cloud}
    Cloud = cloud
    Family <- MCFamily
    Hinted = {}
    Thinking = {glm}
    Bases = {ollama, gateway}
    Local = {ollama}
    DefaultBase = ollama
    Gateway = gateway
    Primary = glm
    Fallbacks <- MCFallbacks
    Calls <- MCCalls
    Errors = {RateLimitError, ConnectTimeout}
    Transient = {RateLimitError}
    None = None
    MaxAttempts = 2
    Threshold = 1
    Recovery = 1
    MaxCalls = 3
    MaxTime = 1
SPECIFICATION Spec
INVARIANTS InOrder OnlyDeadProbesMislead
PROPERTIES OpenKeepsOut CallsEnd
CHECK_DEADLOCK FALSE
