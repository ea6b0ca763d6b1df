SPECIFICATION Spec
CONSTANTS
  small = small
  large = large
  Units = {0, 1}
  Disks = {small, large}
  Size <- MCSize
  DefaultSize = 1
  MaxCount = 2
  MaxMounts = 2
  MaxReqs = 3
  LineFaults = {}
PROPERTY MediaTruth
