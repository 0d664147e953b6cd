SPECIFICATION Spec
CONSTANTS
    Exprs <- SomeExprs
    Draws <- SomeDraws
    PanicExprs = {"huge"}
    Threads = {main, other}
    Main = main
    Objects = {a, b}
    CallLimit = 4
    InterruptLimit = 1
INVARIANTS BridgeTypeOK OwnReply HeldForLife
PROPERTY Returns
CHECK_DEADLOCK FALSE
