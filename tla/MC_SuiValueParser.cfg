CONSTANTS
    ByteBase  <- MC_ByteBase
    AddrBytes <- MC_AddrBytes
    U64Max    <- MC_U64Max
    Nums      <- MC_Nums
    Names     <- MC_Names
    MaxToks   = 9
    MaxElems  = 3
    NoVersion = NoVersion
    NotANumber = NotANumber

SPECIFICATION Spec

INVARIANT TypeOK
INVARIANT ParseAgreesWithGrammar
INVARIANT FakeIdSyntaxesAgree
INVARIANT CompositesNeverCoerced

\* Parsing one literal ends: the stream stops once the parser needs no more input.
CHECK_DEADLOCK FALSE
