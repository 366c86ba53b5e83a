SPECIFICATION ShapeSpec
CHECK_DEADLOCK FALSE
CONSTANTS
    Columns = {0, 1, 2, 3}
    LineNumbers = {0, 1, 2, 3}
    ScreenWidth = 244
    ScreenHeight = 68
INVARIANT VerticesAreSorted
