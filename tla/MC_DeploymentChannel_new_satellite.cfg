\* A satellite connects to the running central node; the file is not edited again. Emission as written.
CONSTANTS
    c0 = c0
    s1 = s1
    s2 = s2
    Central = c0
    Sats <- MC_Sats1
    Cap = 5
    MaxEdits = 0
    MaxReports = 0
    SaveOps = {"write"}
    IntendedEmission = FALSE
SPECIFICATION Spec
\* The nodes idle once the file and the tickers are done.
CHECK_DEADLOCK FALSE
PROPERTIES
    DesiredReachesSatellites
