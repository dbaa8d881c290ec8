SPECIFICATION Spec
CONSTANTS
    Messages <- PlainMessages
    Packets <- PlainPackets
    MaxPackets = 3
    Pieces <- AnyPieces
    Damage = TRUE
CHECK_DEADLOCK FALSE
INVARIANTS
    OnlyIntact
