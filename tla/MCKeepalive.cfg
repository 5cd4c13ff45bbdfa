CONSTANTS
    KA_INTERVAL = 3
    KA_TIMEOUT = 10
    Busy = {"exporter", "host"}
    MaxBurst = 1
SPECIFICATION FairSpec
INVARIANT HeardWithinInterval
PROPERTY CutNoticed
