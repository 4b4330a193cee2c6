\* One thread, whose second request is larger than a new arena has room for.
CONSTANTS
    Align = 2
    HeaderSize = 1
    StructSize = 3
    Granule = 4
    SizeMax = 40
    Threads = {t1}
    Capacity = 12
    MinSlack = 3
    Sizes = {5, 11}
    Foreign = {1}
    MaxArenas = 3
    MaxLive = 3
SPECIFICATION Spec
INVARIANT GrowthSuffices
