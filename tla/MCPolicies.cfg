SPECIFICATION PolicySpec
CONSTANTS
  t1 = t1
  t2 = t2
  Threads = {t1, t2}
  Versions <- MCVersions
  Texts <- MCTexts
  Rules <- RulesOfFiles
  Readable <- LoadedFiles
  Asks <- Reaches
  Holds <- SaysTrue
  Facts <- MCFacts
  Subjects = {"a1"}
  Window = 1
  MaxTime = 2
SYMMETRY Symmetry
CHECK_DEADLOCK FALSE
INVARIANTS
  ConditionsAreReadAsWritten
  RepeatsAreCaught
  
  ProductionIsGoverned
