\* The central node: the file handler and the receive loop both run process; no failures.
CONSTANTS
    main = main
    handler = handler
    n1 = n1
    n2 = n2
    se = se
    sk = sk
    s1 = s1
    s2 = s2
    s3 = s3
    Callers = {main, handler}
    Names <- MC_Names
    Versions <- MC_Versions
    EnvoyName = "envoy"
    Slots <- MC_Slots
    EnvoySlot = se
    KeepSlot = sk
    KeepImage <- MC_KeepImage
    Preexisting <- MC_Fresh
    DesiredConfigs <- MC_Desired
    MaxRuns = 3
    MaxFaults = 0
    MaxUIOps = 0
    MaxRestarts = 0
SPECIFICATION Spec
\* The orchestrator idles between DESIRED messages.
CHECK_DEADLOCK FALSE
INVARIANTS
    NoDuplicateApps
