\* The central node and one satellite; two saves of the desired-state file, made in place, by an atomic replace or by moving the old file away. Emission as written.
CONSTANTS
    c0 = c0
    s1 = s1
    s2 = s2
    Central = c0
    Sats <- MC_Sats1
    Cap = 5
    MaxEdits = 2
    MaxReports = 0
    SaveOps = {"write", "replace", "move"}
    IntendedEmission = FALSE
SPECIFICATION Spec
\* The nodes idle once the file and the tickers are done.
CHECK_DEADLOCK FALSE
PROPERTIES
    LastEditPublished
