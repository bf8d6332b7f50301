SPECIFICATION TerminalSpec
CONSTANTS
    N = 3
    Name <- mcName
    Index <- mcIndex
    Path <- mcPath
    Hidden <- mcHidden
    WithExt <- mcWithExt
    MaxDeploys = 2
    Nothing = Nothing
    Dir = Dir
INVARIANTS EveryGroupAccounted ErrorFromRequired BrowserUpToDate RightFile
PROPERTIES AnswersDespiteUpstreams
