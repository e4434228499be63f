SPECIFICATION DeploySpec
CONSTANTS
  main = main
  visitor = visitor
  Callers <- DriverAndVisitor
  Driver = main
  MaxScans = 2
  Packets = 1
  Faults <- Untolerated
  Keys <- Texts
  Falsy <- FalseLeaves
  Takes <- LeafUses
  Files <- TwoSectionFiles
  FlagSets <- SomeFlags
INVARIANTS RunningScanIsAlive NoStaleCapture ConfigIsLayered DefaultsKeptWhereOverridden MalformedFilesEndTheProcess
PROPERTIES CallsReturn DemoGoesOn ScriptEnds
CHECK_DEADLOCK FALSE
