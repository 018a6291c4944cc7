SPECIFICATION WireSpec
CONSTANTS
    BASE = 7
    PROTOCOL_VERSION = 1
    ERROR_TYPE = 6
    MAX_PAYLOAD = 14
    SID_LEN = 1
    NONCE_LEN = 1
    KEY_LEN = 2
    TAG_LEN = 1
    IP_LEN = 1
    SIGNATURE_LEN = 1
    mlkem_pub_len <- MCPubLen
    ciphertext_len <- MCCiphertextLen
    Messages <- MCMessages
    MaxSent = 2
INVARIANT ReadIsWritten
INVARIANT AcceptedIsCanonical
CHECK_DEADLOCK FALSE
