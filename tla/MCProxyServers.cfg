SPECIFICATION Spec
CONSTANTS
  a1 = a1 a2 = a2 r1 = r1 r2 = r2 s1 = s1 s2 = s2 s3 = s3 p80 = p80 p443 = p443 none = none
  Ids = {r1, r2}
  Addrs = {p80, p443}
  Taken = {}
  Servers = {s1, s2, s3}
  Admins = {a1, a2}
  Asked <- MCAsked
  None = none
SYMMETRY Symmetry
INVARIANTS NoLostListener EntriesMatchRows
