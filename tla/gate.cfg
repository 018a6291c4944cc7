\* The shipped constants.
CONSTANTS
    Probs <- Twentieths
    CONFIRM_TICKS = 3
    MIN_MARGIN = 3
    REKEY_COOLDOWN_TICKS = 12
    REKEY_ESCALATES = TRUE
SPECIFICATION Spec
INVARIANT GateInv
PROPERTY ChangesOnFullStreak
PROPERTY WeakensOnlyByChange
PROPERTY RekeysSpacedByCooldown
