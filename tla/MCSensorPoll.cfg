SPECIFICATION FairSpec
CONSTANTS
    th = th
    co2 = co2
    Channels = {th, co2}
    SlaveOf <- MCSlaveOf
    RegsOf <- MCRegsOf
    Attempts = 2
    MaxPending = 2
    MaxFrames = 1
INVARIANTS ReadingIsOwn GoodPollIsComplete
PROPERTY CancelEndsPolling
