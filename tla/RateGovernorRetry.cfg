SPECIFICATION Spec
CONSTANTS
    Rpm = 3
    Tpm = 6
    Minute = 3
    Wrap = 16
    Estimates <- MCEstimates
    MaxTime = 8
INVARIANTS
    RetryHintHonoured
