SPECIFICATION ContentSpec
CONSTANTS
    Texts <- AllTexts
    NegativeTakes = "nothing"
    BodyPieces = 5
    HeaderPieces = 6
CHECK_DEADLOCK FALSE
INVARIANTS ContentInv PairsArrive
PROPERTY ParsingEnds
