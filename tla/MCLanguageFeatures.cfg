CONSTANTS
    r1 = r1
    r2 = r2
    Requests = {r1, r2}
    Features <- MCFeatures
    MaxVersion = 2
    Files = {"s", "a", "b", "c"}
    Suite = "s"
    Missing = "gone"
    Layouts <- MCLayouts
    Readers = {"r"}
    Checkers = {"d1", "d2"}
    MaxKeywords = 4
    MaxTokens = 5
SPECIFICATION MCSpec
INVARIANTS
    TokensFit
    NothingIsLeftOut
    TwiceIsReported
    DiagnosticsAreWhole
    CompletionAgrees
    AdviceWorks
    HoverAgreesWithAnalysis
PROPERTIES
    FeaturesEnd
    CallersEnd
CHECK_DEADLOCK FALSE
