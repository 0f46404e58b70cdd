SPECIFICATION Spec
CONSTANTS
    Codes = {"opt", "stray"}
    Known = {"opt"}
    Fields <- AskSide
    Sends <- AskSends
    NoAsk = 999999
    QueueMax = 1
    MaxPosts = 3
    MaxRestarts = 1
INVARIANTS
    QuotedIsEmitted
CHECK_DEADLOCK FALSE
