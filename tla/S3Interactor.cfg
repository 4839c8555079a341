SPECIFICATION S3Spec
CONSTANTS
  l1 = l1
  l2 = l2
  new = new
  old = old
  bn = bn
  bt = bt
  bo = bo
  k1 = k1
  k2 = k2
  d1 = d1
  d2 = d2
  u1 = u1
  u2 = u2
  u3 = u3
  o1 = o1
  n1 = n1
  n2 = n2
  n3 = n3
  Lister = {l1, l2}
  Storage = {new, old}
  Bucket = {bn, bt, bo}
  Key = {k1, k2}
  Root = root
  DirOf <- MCDirOf
  Ask <- MCAsk
  StoragePrefix = {}
  Changing = {bt}
  Mixes = FALSE
  Day = 1
  ListTime = 1
  MaxTime = 3
  MaxAsked = 3
  Own = {u1, u2, u3}
  Foreign = {o1}
  Names = {n1, n2, n3}
  KeyOf <- MCKeyOf
  Sweeps = 2
SYMMETRY MCSymmetry
CHECK_DEADLOCK FALSE
INVARIANTS ListingSound OwnUploadsSafe SweepCleans
