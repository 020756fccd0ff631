SPECIFICATION FairSpec
CONSTANTS
    Feeds = {"dialog"}
    MaxEvents = 1
    Lossy = FALSE
PROPERTIES
    NeverHangs
