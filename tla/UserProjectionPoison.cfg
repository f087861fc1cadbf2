SPECIFICATION UsersFairSpec
CONSTANTS
    UserCount = 2
    SmbUsers <- NoUsers
    Colliding <- NoUsers
    MaxUserRevision = 1
    MaxChanges = 0
    MaxUserRetries = 4
PROPERTIES FeedDrains
CHECK_DEADLOCK FALSE
