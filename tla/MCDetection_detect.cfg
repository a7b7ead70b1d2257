SPECIFICATION Spec
CONSTANTS
    OBJ_CLASS_NUM = 2
    OBJ_NUMB_MAX_SIZE = 2
    CONF_THRESHOLD = 25
    NMS_THRESHOLD = 45
    zp <- MCzp
    scale <- MCscale
    sum_zp <- MCsum_zp
    sum_scale <- MCsum_scale
    grid_len <- MCgrid_len
    target <- MCtarget
    Step <- MCStep
    SumError <- MCSumError
    Pixel = 2
    Box <- MCBox
    ImageSize <- MCImageSize
INVARIANTS
    TypeOK
    CellsJudged
    ResultsGenuine
    ResultsApart
    NothingLost
    DrawnInPlace
