CONSTANTS
    None = None
    c1 = c1
    c2 = c2
    Callers = {c1, c2}
    People = {1, 2}
    MaxRows = 3
    MaxTags = 3
    MaxTime = 1
    MaxEntries = 2
    Pool = 5
    Limit = 2
    Worth <- MCWorth
    Queries <- MCQueries
    Numbers = {0, 2, 5}
    Texts <- MCTexts
    Fold <- MCFold
    Capital <- MCCapital
    Spelled <- MCSpelled
    Known <- MCKnown
    Bare <- MCBare
    Counted <- Unit
    Typeable <- MCTypeable
    MaxWords = 4
    Offered <- MCOffered
    Top = 6
    PageMax = 5
    PageSize = 2
    Null = Null
    Keys = {1, 2, 3, Null}
    Absent = Absent
    MaxListed = 3
    Clients = {c1, c2}
    Authors <- MCAuthors
    Bodies = {0, 1, 2}
    MaxNotes = 4
    MaxDays = 1
    Errands <- MCErrands
    Drawers <- MCDrawers
    Requests <- MCRequests
    Stored <- MCStored
SPECIFICATION MCSpec
INVARIANTS
    ShoppingTypeOK
    NothingTypedIsLost
    OfferIsBest
    WalkMeetsEveryRow
    BoardShowsWhatStayed
PROPERTIES
    SayingItTwiceIsSayingItOnce
    ForetoldByThePhone
    FilingIsLearned
    ImportKeepsEverything
    WhatIsSaidIsListed
    OrdersAreSetWhole
    PagesAddUp
    NotesAreOnesOwn
SYMMETRY Alternatives
CHECK_DEADLOCK FALSE
