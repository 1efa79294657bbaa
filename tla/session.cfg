SPECIFICATION FairSpec
CONSTANTS
 Names = {a, b}
 NoName = NoName
 Monitors = {m1, m2}
 MaxSessions = 2
INVARIANTS
 SessionConsistent
 RecordingsComplete
 
PROPERTIES
 EndHonoured
