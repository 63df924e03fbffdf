SPECIFICATION Spec
CONSTANTS
    Keys = {artist, operator}
    Artist = artist
    Operator = operator
    Calls <- SomeCalls
    AdminPaths <- SomeAdminPaths
    Bases = {"public", "local"}
    PublicUrl = "public"
    Window = 2
    Skew = 1
    WrongTimes = {0, 15}
    Wrap = 16
    MaxTime = 4
    MaxSigned = 1
    None = None
    Empty = Empty
INVARIANTS
    DoneWasSigned
    DoneInWindow
    PromptIsDone
    ArtistOnlyUploads
    TypeOK
CHECK_DEADLOCK FALSE
