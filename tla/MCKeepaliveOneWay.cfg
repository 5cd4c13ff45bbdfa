CONSTANTS
    KA_INTERVAL = 3
    KA_TIMEOUT = 10
    Busy = {"exporter"}
    MaxBurst = 1
SPECIFICATION Spec
INVARIANT GoodLinkStaysUp
