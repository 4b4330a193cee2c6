\* Two threads, two arenas of 12, three allocations at a time.
CONSTANTS
    Align = 2
    HeaderSize = 1
    StructSize = 3
    Granule = 4
    SizeMax = 40
    Threads = {t1, t2}
    Capacity = 12
    MinSlack = 3
    Sizes = {1, 5}
    Foreign = {1}
    MaxArenas = 2
    MaxLive = 3
SPECIFICATION FairSpec
INVARIANTS NoOverlap Accounted SystemGetsItsOwn
PROPERTIES FailsOnlyWithoutMemory CallsReturn
