SPECIFICATION CacheSpec
CONSTANTS
    Calls = {c1, c2}
    PageLimit = 1
    Cap = 4
    FirstIds = 3
    MaxId = 4
PROPERTIES NothingSkipped NewestFirst AnnouncedIsShown
CHECK_DEADLOCK FALSE
