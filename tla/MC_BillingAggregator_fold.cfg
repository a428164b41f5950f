CONSTANTS
    evIngested = evIngested
    parqStored = parqStored
    osCalls = osCalls
    llmIn = llmIn
    uptime = uptime
    nan = nan
    None = None
    SimpleMetrics <- MCSimple
    ObjectStoreMetrics <- MCObjectStore
    LlmMetrics <- MCLlm
    OtherMetrics <- MCOther
    LabelNames <- MCLabelNames
    NaN <- nan
    Scale = 10
    U64Max = 60
    Samples <- MCSamples
    Inputs <- MCInputs
SPECIFICATION Spec
CHECK_DEADLOCK FALSE
INVARIANT TypeOK
INVARIANT PivotIsLastWrite
INVARIANT EventsAreBilledRows
