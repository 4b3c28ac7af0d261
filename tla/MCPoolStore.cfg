SPECIFICATION Spec
CONSTANTS
  Command = {p1, p2}
  Name = {n1, n2}
  Device = {d}
  Absent = Absent
INVARIANTS FileIsBook
