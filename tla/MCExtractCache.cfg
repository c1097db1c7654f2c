\* Two archives of one size and one of another; one has a file less, so that files
\* are left over, and one names a file twice.
SPECIFICATION Spec
CONSTANTS
  v1 = v1
  v2 = v2
  v3 = v3
  meta = meta
  main = main
  sibling = sibling
  Absent = Absent
  Torn = Torn
  Versions = {v1, v2, v3}
  Files = {meta, main, sibling}
  Size <- MCSize
  Contents <- MCContents
INVARIANTS TypeOK HitIsWhole RetryIsWhole
