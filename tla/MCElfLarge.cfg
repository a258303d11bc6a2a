SPECIFICATION Spec
CONSTANTS
    first_page_directory = first_page_directory
    Tasks = {t}
    RamEnd = 6
    KmemStart = 2
    BuddyPages = 1
    RegionEnd = 5
    PageSize = 2
    Words = {5}
    TableSize = 2
    UserTables = 2
    NameMax = 1
    Files <- LargeFile
    MaxOthers = 2
    PhnumLimit = 3
INVARIANT LoadedExact
