SPECIFICATION FSpec
CONSTANTS
    Byte <- MCByte
    Input <- MCByte
    Nul = "nul"
    Lt = "<"
    Gt = ">"
    Slash = "/"
    Bang = "!"
    Quest = "?"
    Apos = "'"
    Quot = "dq"
    XmlDecl <- MCXmlDecl
    CDataOpen <- MCCDataOpen
    CDataClose <- MCCDataClose
    StreamOpen <- MCStreamOpen
    StreamClose <- MCStreamClose
    BufSize = 24
    Scratch <- MCScratch
    Plain <- MCPlain
    Letter = "a"
    Names <- MCNames
    Attributes <- MCAttributes
    Texts <- MCTexts
    CDatas <- MCCDatas
    Declarations <- MCDeclarations
    MaxPieces = 6
INVARIANTS
    StreamIsCutIntoStanzas
    MessageIsTheStanza
    StreamSurvivesWebSocket
    AddressesAreRight
\* the stream ends: after MaxPieces pieces, or at an error
CHECK_DEADLOCK FALSE
