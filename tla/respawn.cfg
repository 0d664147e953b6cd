SPECIFICATION Spec
CONSTANTS
    Exprs <- SomeExprs
    Draws <- SomeDraws
    PanicExprs = {"huge"}
    Threads = {main}
    Main = main
    Objects = {a, b}
    CallLimit = 4
    InterruptLimit = 0
INVARIANT AnsweredFromItsParse
CHECK_DEADLOCK FALSE
