SPECIFICATION FairSpec
CONSTANTS
  Procs = {p1, p2}
  Keys = {k1, k2, k3}
  Absent = Absent
  Torn = Torn
  MaxDisturbances = 2
PROPERTY EventuallyDescribed
