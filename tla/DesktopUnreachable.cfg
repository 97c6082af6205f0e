SPECIFICATION Spec_Desktop
CONSTANTS
    Works = {w1, w2}
    Viewers = {v1, v2}
    Numbers = {1, 2}
    DeskFaults = 2
INVARIANTS ControlIsReachable
