SPECIFICATION KbdSpec
INVARIANTS InterruptFindsData ResetHasReply
PROPERTY ReadsEnd
