CONSTANTS
    XCoords <- MCXCoords
    YCoords <- MCYCoords
    ErrLimit = 10
SPECIFICATION Spec
PROPERTY
    SamplesOfOneTouch
