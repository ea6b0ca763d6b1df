SPECIFICATION Spec
CONSTANTS
  d1 = d1
  d2 = d2
  fa = fa
  fb = fb
  fc = fc
  sub = sub
  p1 = p1
  p2 = p2
  NETDEV_TOTAL = 2
  Dirs = {d1}
  FileNames = {fa, fb}
  DirNames = {sub}
  Share <- MCOne
  RecLen = 2
  BufLen = 3
  PathLen = 2
  MaxSize = 1
  Refuse = {"file", "write", "path"}
  Progs = {p1}
  FILES = 2
  Patterns <- MCPatterns
  Lookups = {fb, sub}
  HowToOpen <- MCHow
  MaxCalls = 3
  Nested = FALSE
INVARIANTS NoHandleLost
