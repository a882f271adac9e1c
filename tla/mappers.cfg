CONSTANTS
    Adapter = "codex"
    Alphabets <- CodexAlphabets
    Oddities <- CodexOddities
    MaxOdd = 1
    ClaudeMaxOdd = 1
SPECIFICATION MappersSpec
INVARIANTS
    CodexParityPasses
    CodexTurnsDisciplined
    ClaudeParityPasses
    ClaudeOpsDisciplined
CHECK_DEADLOCK FALSE
