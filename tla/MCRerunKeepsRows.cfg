SPECIFICATION Spec
CONSTANTS
    Dates = {1, 2}
    Minutes = {1, 2}
    MaxRows = 3
PROPERTIES RerunKeepsRows
