SPECIFICATION Spec
CONSTANTS
  d1 = d1
  d2 = d2
  fa = fa
  fb = fb
  fc = fc
  sub = sub
  p1 = p1
  p2 = p2
  NETDEV_TOTAL = 3
  Dirs = {d1, d2}
  FileNames = {fa, fb, fc}
  DirNames = {sub}
  Share <- MCShare
  RecLen = 2
  BufLen = 3
  PathLen = 2
  MaxSize = 1
  Refuse = {}
  Progs = {p1, p2}
  FILES = 2
  Patterns <- MCPatterns
  Lookups = {fb, sub}
  HowToOpen <- MCHow
  MaxCalls = 2
  Nested = TRUE
INVARIANT SearchKeepsItsPlace
