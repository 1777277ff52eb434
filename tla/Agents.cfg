\* One agent, two threads, two messages, any crash.
SPECIFICATION Spec
CONSTANTS
  o1 = o1
  t1 = t1
  t2 = t2
  Objects = {o1}
  Threads = {t1, t2}
  Host <- TwoOfOne
  Messages = {m1, m2}
  Tags = {"a"}
  Tag <- SameTag
  MaxCalls = 2
INVARIANTS
  TypeOK
  ProcessedIsAccounted
  HandledIsMarked
  DeafIsExplained
PROPERTIES
  DeliverySpec
  StoppedLoopsEnd
  ListenersKeepUp
