CONSTANTS
  t1 = t1
  t2 = t2
  r1 = r1
  r2 = r2
  k1 = k1
  k2 = k2
  k3 = k3
  Table = {t1, t2}
  Array = {r1, r2}
  Name = {k1, k2, k3}
  Data = {x, y}
  Hash <- MCHash
  HashSize <- MCHashSize
  MaxAlive = 2
SPECIFICATION Spec
INVARIANTS TypeOK ChainsAreSound NothingLeaks VisitMeetsAll FullArrayCopied
PROPERTY ImplementsMap
