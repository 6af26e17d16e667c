CONSTANTS
  u1 = u1  u2 = u2
  Users = {u1, u2}
  Nobody = nobody
  Principals <- Everyone
  Stories <- Tales
  Inherited <- Left
  Micros = 2
  Limits = {1, 2}
SPECIFICATION Spec
CHECK_DEADLOCK FALSE
INVARIANTS WalksShowEveryRowOnce EstatesAreKeptApart OwnersReadTheirOwn
