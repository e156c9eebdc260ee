CONSTANTS
  e1 = e1
  e2 = e2
  j1 = j1
  d1 = d1
  d2 = d2
  t1 = t1
  t2 = t2
  s1 = s1
  s2 = s2
  LastBucket = 3
  Opening = {1}
  Expiring = {1, 2}
  Worth <- MCWorth
  Deliveries = {d1, d2}
  Refs <- MCRefs
  Tasks = {t1, t2}
  Events = {e1, e2}
  Jobs = {j1}
  Price <- MCPrice
  TaskOf <- MCTaskOf
  RefundOf <- MCRefundOf
  Syncs = {s1, s2}
  NoCharge = NoCharge
  NoJob = NoJob
SPECIFICATION Spec
SYMMETRY MCSymmetry
CHECK_DEADLOCK FALSE
INVARIANTS
  NoneForgotten
