SPECIFICATION FairSpec
CONSTANTS
  Scripts <- MCScripts
  Programs = {"pwd", "ls"}
  MaxProcs = 4
  MaxRewinds = 2
INVARIANTS OneAtATime RunsAtMost RedirectsAsAsked
PROPERTY ScriptEnds
CHECK_DEADLOCK FALSE
