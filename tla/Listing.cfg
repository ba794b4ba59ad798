SPECIFICATION Spec
CONSTANTS
    NoWorkspace = NoWorkspace
    Walks <- MCWalks
    Lists <- MCLists
    FirstList <- MCFirstList
    FirstDocs <- MCFirstDocs
    FirstWrites <- MCFirstWrites
    Authors = {2}
    MaxChanges = 2
INVARIANTS
    TypeOK
    NothingMissed
    NothingRepeated
    AsAsked
