CONSTANTS
  MaxContents = 2
  MaxDesigns = 2
  MaxTries = 2
  Writers = {w1, w2}
  Renderers = {r1, r2}
  Publishers = {p1, p2}
  Editors = {e1, e2}
  Nil = Nil
  CandidateJobs = {j1}
  CandidateWorkers = {c1, c2}
  MaxCandidateAttempts = 2
  Reviewers = {v1, v2}
  DecisionKeys = {d1, d2}
  Nobody = Nobody
  Shipments = {a1, a2}
  Tracked = {a1}
  Ordered = 2
  MaxReceipts = 3
  MaxShipAttempts = 2
  ShipWorkers = {f1, f2}
  ActionKeys = {k1, k2}
  Variants = {x1, x2}
  Markets = {"US", "JP"}
  Region <- mcRegion
  DecimalPrices <- mcPrices
  Exponent = 2
  Profiles <- mcProfiles
  Seed <- mcSeed
  Styles = 1
  PageLimit = 1
  MaxPages = 2
  MaxChanges = 1
  NoPrice = NoPrice
  w1 = w1
  r1 = r1
  r2 = r2
  j1 = j1
  c1 = c1
  c2 = c2
  e1 = e1
  f1 = f1
  f2 = f2
  a1 = a1
  a2 = a2
  k1 = k1
  x1 = x1
  x2 = x2
SPECIFICATION MCSpec
INVARIANTS
  ProductTypes
  CandidatesAgree
  StagesAgree
  OnlyVettedDesigns
  SentIsQueued
  
  EligibleEarnsMargin
PROPERTIES
  PublicationStaysEnded
  ProductJobsSettle
CHECK_DEADLOCK FALSE
