CONSTANTS
    MaxProperties = 4
    Window = 2
    Local = {"Cxx:generic"}
    Registered = {"Erebus", "POSIX"}
    NoText = NoText
    One = One
    Two = Two
    Told = Told
    OutOfMemory = OutOfMemory
    Names = {"a", "b"}
    JsonDepth = 2
    PathLength = 3
    Width = 2
    Characters = Characters
SPECIFICATION IpcSpec
INVARIANTS InOrder AllOrError Arrives LookupsAgree
PROPERTIES BothSidesEnd
