SPECIFICATION Spec
CONSTANTS
    Messages <- ShortMessages
    Packets <- SoundAndMalformed
    MaxPackets = 2
    Pieces = {1, 2, 7}
    Damage = FALSE
CHECK_DEADLOCK FALSE
INVARIANTS
    NothingHeldBack
PROPERTIES
    ConversationSpec
