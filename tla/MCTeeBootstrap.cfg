SPECIFICATION Spec
CONSTANTS
  Procs = {p1, p2, p3}
  Keys = {k1, k2, k3, k4}
  Absent = Absent
  Torn = Torn
  MaxDisturbances = 2
SYMMETRY Symmetry
INVARIANTS TypeOK NeverTorn CalmRunDescribesKey ReportedKeyDurable
PROPERTIES NoSilentRotation QuietRunsKeepStore
