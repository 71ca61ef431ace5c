SPECIFICATION Spec
CONSTANTS
  Procs = {p1, p2, p3}
  Bufs = {b1, b2, b3}
  Data = {d1, d2}
  NUM = 7
  UINT16 = 7
  Nobody = nobody
SYMMETRY DiskSymmetry
INVARIANTS DescriptorsOwned DeviceOwnsBuffer
