SPECIFICATION Spec
CONSTANTS
  Clients = {a}
  Ops = {r1}
  NoOp = NoOp
  MaxFaults = 1
INVARIANTS TypeOK TransitionShown StopsUnused ReadyTold
PROPERTY Settles
