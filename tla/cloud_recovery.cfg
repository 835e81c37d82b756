SPECIFICATION Spec

CONSTANTS
    Clients = {a}
    Ops = {r1}
    NoOp = none
    MaxFaults = 1

PROPERTY
    RebuiltUnused
