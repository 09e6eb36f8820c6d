SPECIFICATION Spec
CONSTANTS
    Polls = 2
    SensorLag = 1
    Sheets = 2
    ImageLimit = 2
    JobLimit = 2
PROPERTY
    CancelHonoured
CHECK_DEADLOCK FALSE
