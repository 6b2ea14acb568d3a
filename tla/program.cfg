SPECIFICATION FairSpec
CONSTANTS
    Thread = {w1, w2, w3}
    First = w1
    Main = Main
    None = None
    Creator = {w1, w2}
    Interrupted = {w1, w2, Main}
    CoreInfo <- Neighbours
    MaxSignal = 2
CHECK_DEADLOCK FALSE
INVARIANT AllTerminated
 
