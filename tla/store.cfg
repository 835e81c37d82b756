SPECIFICATION Spec
CONSTANTS
  MaxWrites = 2
  MaxResets = 1
  Failing = {"reset", "pick", "move", "save", "first", "stage", "record", "start", "abort", "halt",
             "close", "capture", "publish", "wipe", "plant", "end", "unnote", "boot", "note",
             "out", "in", "pin", "discard", "mount", "copySystem", "copyHome", "raze",
             "build", "make", "sweep", "unstage", "fenceSimple", "detach", "remove", "fence"}
  Overlap = FALSE
INVARIANTS TypeOK RunsLatest OneWriter HomeKept Paired
PROPERTIES ResetOnce Undisturbed
