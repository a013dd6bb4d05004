SPECIFICATION FairSpec
CONSTANT MaxLen = 4
INVARIANTS TypeOK ZoneCorrect InsideLabel OneCallback CacheTrue
PROPERTIES Succeeds Terminates Implements
CHECK_DEADLOCK FALSE
