SPECIFICATION Spec
CONSTANTS
    RamEnd = 6
    KmemStart = 2
    BuddyPages = 1
    RegionEnd = 5
    PageSize = 2
    Words = {0}
INVARIANT FreeListClaimed
