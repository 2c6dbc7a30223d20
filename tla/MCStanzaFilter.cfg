SPECIFICATION Spec
CONSTANTS
    Byte <- MCByte
    Input = {"<", ">", "/", "!", "?", "'", "s"}
    Nul = "nul"
    Lt = "<"
    Gt = ">"
    Slash = "/"
    Bang = "!"
    Quest = "?"
    Apos = "'"
    Quot = "dq"
    XmlDecl <- MCXmlDecl
    CDataOpen <- MCCDataOpen
    CDataClose <- MCCDataClose
    StreamOpen <- MCStreamOpen
    StreamClose <- MCStreamClose
    BufSize = 7
    Scratch <- MCScratch
INVARIANTS
    TypeOK
    IndexesAreSafe
    StanzaIsWhatWasRead
    EndOfFirstTagIsInStanza
    IndInv
PROPERTIES
    StreamOpenIsNotStale
    KeepsContract
\* a panicked task takes no further step
CHECK_DEADLOCK FALSE
