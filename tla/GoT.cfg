SPECIFICATION Spec
CONSTANTS
    B = 3
    Threshold = 7000
    Qualities <- MCQualities
INVARIANTS
    GraphFits
    BestAnswerMerged
    MetricsTellTheRun
    UsageRecordedOnce
