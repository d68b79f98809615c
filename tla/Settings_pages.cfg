SPECIFICATION PagesSpec
CONSTANTS
    Slots = {1, 2}
    MaxOps = 3
    MaxEdits = 2
    Names <- SomeNames
    Trim <- SomeTrim
    FirstRows <- SomeRows
    FirstGiven = 2
INVARIANTS RestShowsStored OneRowPerIntegration WipesAreTyped
PROPERTY UntouchedSaveChangesNothing
CHECK_DEADLOCK FALSE
