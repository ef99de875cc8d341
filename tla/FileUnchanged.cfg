SPECIFICATION FileSpec
CONSTANTS
    TextFiles = {f}
    Talks = {t1, t2}
    MaxReads = 2
    MaxChanges = 3
INVARIANT EarlierResultIsThere
CHECK_DEADLOCK FALSE
