\* Tasks that spawn tasks, three at a time, with a thread for each.
CONSTANTS
    Tasks = {t1, t2, t3}
    Root = Root
    Workers = 3
    Nested = TRUE
    MaxHandles = 2
    NoTask = NoTask
SPECIFICATION FairSpawnSpec
INVARIANTS JoinsItsTask PanicsPropagate
 
