SPECIFICATION SurfacesSpec
CONSTANTS
  Editor = {e1, e2}
  Filename = {"f1", "f2"}
  ShortId <- MCShortId
  Words = {"x"}
  MaxEdits = 4
  MaxBroken = 2
  Field = {"name", "notes", "principles"}
  MigratedField <- MCMigratedField
  Note = {"x", "y"}
  Unset = "unset"
  PersonalityMax = 13
  ReadsFirst = TRUE
  MaxTold = 3
  MaxFileFaults = 2
  Size = {1, 3}
  MaxNotes = 4
  NotesMaxEntries = 1
  NotesMaxResume = 2
  NotesMaxBytes = 6
  Width = {1, 3, 4}
  PageLimit = {4, 5}
  MaxChars = 5
  ErrorText <- MCErrorText
  MaxPadFaults = 1
  Client = {c1, c2}
  Target = {"b"}
  Verb = {"approve", "label", "close"}
  Key = {"k"}
  NoKey = "none"
  Pasted = {"t"}
  MaxWritten = 3
  MaxMishaps = 1
  ModePage = {"mode"}
  ProjectPage = {"project"}
  Roster = "roster"
  Bundle = "bundle"
  Readers <- MCReaders
  MaxVersion = 1
  MaxWaiting = 1
  MaxFresh = 1
  MaxLost = 2
  QrTexts <- MCQrTexts
  Asked = 1
  Speaker = {p1, p2}
  Letter <- MCLetter
  TextPath = {"title"}
  Arguments <- MCArguments
  Glossaries <- MCGlossaries
  RulesTtl = 2
  LoadTime = 1
  MaxSpeechTime = 3
  MaxReworded = 1
  MaxUnheard = 1
  ListedIn <- MCListedIn
  ProjectOf <- MCProjectOf
  MaxLabels = 1
  RowLimit = 1
  MaxStirs = 1
  MaxAsked = 2
  MaxMissed = 1
INVARIANTS
  AuditTrailWhole
  ToldIsKept
  PausedWorkIsShown
  PagesAddUp
  DecisionsAreTrue
  SymbolIsReadable
  SlipsAreCorrected
  ReportIsTrue
PROPERTIES
  EveryPageIsRefreshed
CHECK_DEADLOCK FALSE
