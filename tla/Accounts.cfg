SPECIFICATION MCSpec
CONSTANTS
  SlotA = SlotA  ProcP = ProcP  ProcQ = ProcQ
  Actors = {"own", "sub"}
  Root = "own"
  Keys = {"k1", "k2"}
  Uploader <- MCUploader
  Legacy = {"k1"}
  Workers = {w1, w2}
  Peers = {p1}
  MaxTokens = 2
  Procs = {ProcP, ProcQ}
  Slots = {SlotA, SlotB}
  MaxOps = 2
  MaxFaults = 1
SYMMETRY Symmetry
INVARIANTS
  DeletedLeavesNothing
  BlobsAccounted
  StoreIntact
PROPERTIES
  EdgesErasedAfterSnapshot
CHECK_DEADLOCK FALSE
