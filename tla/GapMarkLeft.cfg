SPECIFICATION GapSpec
CONSTANTS
    Watched = {1}
    Windowed = {}
    MaxBoots = 0
    MaxDroughts = 1
INVARIANT MarkClearedByFrame
