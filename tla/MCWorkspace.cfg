CONSTANTS
  MaxRevisions = 2
  Keys = {k1, k2}
  Sessions = {s1, s2}
  Generators = {g1, g2}
  MaxGenerations = 2
  None = None
  MaxDrafts = 2
  MaxBrands = 2
  MaxStoreAttempts = 2
  StoreWorkers = {w1, w2}
  StoreEditors = {m1, m2}
  Nil = Nil
  Workspaces = {wa, wb}
  Shops = {sa}
  MaxTokens = 3
  MaxUninstalls = 1
  Grants = {o1, o2}
  Callbacks = {c1, c2}
  Resolvers = {r1, r2}
  NoShop = NoShop
  Uploads = {u1, u2, u3}
  Directories = {d1, d2}
  Sizes = {0, 2, 4}
  MaxFileBytes = 3
  MaxFiles = 2
  MaxBytes = 3
  s1 = s1
  s2 = s2
  k1 = k1
  k2 = k2
  g1 = g1
  g2 = g2
  w1 = w1
  w2 = w2
  m1 = m1
  m2 = m2
  wa = wa
  wb = wb
  o1 = o1
  o2 = o2
  c1 = c1
  r1 = r1
  r2 = r2
SPECIFICATION MCSpec
INVARIANTS
  WorkspaceTypes
  RevisionAndJobAgree
  OneApproved
  ReadsStayFresh
  DraftAndJobAgree
  PublishedIsComplete
  OneOwner
  UsedOnce
  QuotaHolds
PROPERTIES
  KeepsHistory
  JobsSettle
  LocksEnd
CHECK_DEADLOCK FALSE
