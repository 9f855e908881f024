CONSTANTS
    Image = {out, tex}
    StorageImage = {out}
    Target = {out, tex}
    Mips = 1
    Layers = 1
    Executor = {e1}
    Display = display
    Copy = copy
    Screen = screen
    Depth = depth
    None = None
    MaxCommits = 2
    MaxFrames = 2
    MaxCommands = 2
    MaxRetargets = 0
SPECIFICATION Spec
VIEW Relevant
INVARIANTS
    LayoutsMatch
    BookkeepingExact
    ScreenPresentable
CHECK_DEADLOCK FALSE
