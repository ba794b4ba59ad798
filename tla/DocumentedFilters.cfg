SPECIFICATION Spec
CONSTANTS
    NoWorkspace = NoWorkspace
    Walks <- DocumentedWalks
    Lists <- MCLists
    FirstList <- MCFirstList
    FirstDocs <- MCFirstDocs
    FirstWrites <- MCFirstWrites
    Authors = {2}
    MaxChanges = 0
INVARIANTS
    DocumentedFiltersAnswered
