SPECIFICATION PSpec
CONSTANTS
    NamePiece = {"x"}
    TextPiece = {"x", " ", "/", ":", "quit", "users", "created"}
    WordPiece = {"x", "secretword", "-n", "-p", "--private", "--public"}
    LongPiece = {"secretword", "--private", "--public"}
    MaxName = 2
    MaxText = 3
    MaxWord = 2
CHECK_DEADLOCK FALSE
INVARIANTS
    TextsAreBroadcast
