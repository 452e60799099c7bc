SPECIFICATION Spec
CONSTANTS
  p1 = p1
  p2 = p2
  v1 = v1
  c1 = c1
  c2 = c2
  e1 = e1
  e2 = e2
  t1 = t1
  t2 = t2
  s1 = s1
  s2 = s2
  Workers = {w1, w2}
  Providers = {p1, p2}
  ProductVersions = {v1}
  Courses = {c1, c2}
  Exams = {e1, e2}
  Topics = {t1, t2}
  Slugs = {s1, s2}
  Seeds <- SomeSeeds
  None = None
SYMMETRY WorkerSymmetry
INVARIANTS TypeOK NoOrphans SlugsApart
PROPERTIES DeletedStays
