SPECIFICATION SdSpec
CHECK_DEADLOCK FALSE
CONSTANTS
    Names = {a, b}
    None = None
    Sizes = {119, 120, 125}
    FourBytes = 125
    MaxBytes = 240
    MaxRestarts = 1
PROPERTY UploadIsWhole
