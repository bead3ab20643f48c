CONSTANTS
  a = a
  b = b
  out = out
  s1 = s1
  s2 = s2
  NoKey = NoKey
  Key = {a, b}
  Tag = {out}
  Service = {s1}
  Terms <- MCTerms
  MaxObjects = 3
  MaxCalls = 2
SPECIFICATION Spec
INVARIANTS TypeOK CachedStillHolds NoneLeftBehind
PROPERTIES FindsWhatItSays
CHECK_DEADLOCK FALSE
