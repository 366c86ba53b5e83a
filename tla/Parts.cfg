SPECIFICATION FairSpec
CHECK_DEADLOCK FALSE
CONSTANTS
    MaxChildren = 3
    MinSizes = {0, 1, 3}
    SetSizes = {0, 3, 5, 7, 8}
    Screen = 243
    TextWidth <- MCTextWidth
    MixWidths = {150}
    ShapeWidth = 20
    Shapes = 7
    MinSpace = 5
    Word = 65536
    QueueSize = 2
    MaxMessages = 5
    Engines = {e1, e2}
    MaxEntries = 3
    Rows = 2
    MaxTurns = 3
    PipeSize = 2
    MaxLines = 4
    Names = {a, b}
    None = None
    Sizes = {119, 120, 125}
    FourBytes = 125
    MaxBytes = 240
    MaxRestarts = 1
    Columns = {0, 1, 2, 3}
    LineNumbers = {0, 1, 3, 10}
    ScreenWidth = 244
    ScreenHeight = 68
    Widths = {1, 2, 3, 4, 5, 6}
    Heights = {1, 2, 3}
    Messages <- MCMessages
    Samples <- MCSamples
    Damages <- MCDamages
INVARIANTS FramesFit SpaceIsShared DrawnOnScreen QuietFrameIsTrue CallbacksMatchPage LossOnlyAtLimit CountedWereAnnounced FlagIsTrue WalkMeetsLive FillsInside PictureIsUpright ChecksumCatches
PROPERTIES TabComesToShow NeverOpensOver PageComesToShow ReturnsWhatFits
