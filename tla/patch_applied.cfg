SPECIFICATION Spec
CONSTANTS
    Structs <- AllStructs
    GoFiles <- GoSources
    DefinedIn <- SourceOf
    TreeFile <- TreeSourceOf
    Places <- AllPlaces
    StructAt <- StructOfPlace
    WalkedAs <- WalkOfPlace
    Keys = {"memo", "dataHeader"}
    Clashes <- NameClashes
    InnerRaw <- RawMethods
    Recv <- Receivers
    UsesJSON <- JSONUsers
    EventFiles = 2
    Payloads <- NewInEvents
INVARIANTS
    AppliedIsDeclared
