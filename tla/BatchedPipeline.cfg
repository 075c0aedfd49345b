SPECIFICATION Spec
CONSTANTS
  Channels = {1, 2}
  Fds = {1}
  Offsets = {0, 1, 2}
  Lens = {1, 2}
  Ops = {"Read", "Write", "Sync", "Close"}
  MaxPending = 3
INVARIANTS FanOut Slices MergesClasses PriorityOrder StreamedPayload
