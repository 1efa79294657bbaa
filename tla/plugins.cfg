SPECIFICATION FairSpec
CONSTANTS
 Plugins = {"p", "q", "r"}
 Types = {"block", "exec"}
 Registers <- Shared
 MAX_PANDA_PLUGINS = 2
 MaxEntries = 2
INVARIANTS
 
 WalkSafe
PROPERTIES
 UnloadsRequested
 UnloadHappens
