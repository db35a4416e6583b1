SPECIFICATION Spec
CONSTANTS
  Versions = {1, 2}
  Handlers = {"List", "Create"}
  user = user
  owner = owner
  limit = limit
  Middleware = {user, owner, limit}
  AuthOf <- MCAuthOf
  Bindable = {user, limit}
  InHandler <- MCInHandler
  Readers = {r1}
  None = None
  MaxRegistries = 3
  MaxChanges = 3
INVARIANTS FailureNeedsChange DocumentedAsServed
PROPERTY AnswersAreCurrent
CHECK_DEADLOCK FALSE
