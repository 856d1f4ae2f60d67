SPECIFICATION Spec
CONSTANTS
  Cpus = {c0, c1}
  Tags = {t0, t1}
  Offsets = {o0, o1}
  Vals = {v0, v1}
  Zero = v0
INVARIANTS TypeOK SingleWriter OwnWritesLast
