SPECIFICATION Spec
CONSTANTS
  None = None
  Requests = {r1, r2}
  Events <- AnyEvent
  Names = {"implement", "review"}
  Versions <- AnyVersion
  Keys = {"k1", "k2"}
  MaxTasks = 2
  MaxChanges = 1
SYMMETRY Symmetric
INVARIANT TypeOK
INVARIANT OneActivePerSubject
INVARIANT AnswerIsHonest
INVARIANT TaskIsAuthentic
CHECK_DEADLOCK FALSE
