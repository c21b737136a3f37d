SPECIFICATION MCSpec
CONSTANTS
  Local = {Lou}
  Remote = {Peer}
  Group = Group
  Shared = TRUE
  Msgs = {m1, m2}
  Requests = {r1, r2}
  MaxTime = 2
  MaxRev = 2
  Clients = {c1, c2, c3}
  Accounts = {Owner, Ann, Bob}
  Distant = {Pat, Quin}
  Owner = Owner
  Ann = Ann
  Bob = Bob
  Pat = Pat
SYMMETRY Symmetry
INVARIANTS
  TalksSound
  RoomsSound
  GraphSound
  BoardSound
PROPERTIES
  WritesInScope
CHECK_DEADLOCK FALSE
