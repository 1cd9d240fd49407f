\* The real screen, with the crosshair in its corners and its middle.
SPECIFICATION Spec
CONSTANTS
    MouseX = {32, 400, 768}
    MouseY = {32, 300, 568}
    Digits = {1, 3, 10}
    NameLengths = {0, 1, 6}
INVARIANTS
    RowsInPlace
