CONSTANTS
    Names <- SomeNames
    Letters <- TheirLetters
    Locals <- SomeLocals
    Lower <- InLowerCase
    Hosts = {"node.example.com", "localhost"}
    Localhost = "localhost"
    PublicHost = "node.example.com"
    Explicit <- SomeExplicit
    Unset = Unset
    Empty = Empty
SPECIFICATION Spec
INVARIANTS
    DescriptionBound
    AddressWorks
    TypeOK
