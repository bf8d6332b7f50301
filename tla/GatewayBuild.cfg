SPECIFICATION MCSpec
CONSTANTS
    Labels <- SomeLabels
    Selector <- SomeSelectors
    DocSpec <- SomeSpecs
    MaxGroups = 2
    Documents <- SomeDocuments
    Method <- SomeMethods
    Path <- SomePaths
INVARIANTS GroupsApply NothingDropped LoginNotDeadEnd
PROPERTIES RouteWins
