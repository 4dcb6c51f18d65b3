SPECIFICATION Spec
CONSTANTS
    Contexts <- SomeContexts
    Characters <- SomeCharacters
    Positions <- SomePositions
    MaxEdits = 2
    MaxHops = 2
    None = None
CHECK_DEADLOCK FALSE
INVARIANTS IntactArrives AcceptsGrammar ForwardsSame
