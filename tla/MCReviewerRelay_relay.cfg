SPECIFICATION MCSpec
CONSTANTS
  t1 = t1
  s1 = s1
  Task = {t1, t2}
  Instance = {i1, i2}
  First = i1
  Session = {s1, s2}
  Agent = {"asi-review-risk"}
  MaxRelays = 1
  None = None
INVARIANTS DeliveredIsOwn PromptsApart
PROPERTY HooksReturn
