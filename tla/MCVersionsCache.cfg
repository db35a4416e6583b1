SPECIFICATION Spec
CONSTANTS
  Versions = {1, 2}
  Handlers = {"Create"}
  user = user
  owner = owner
  limit = limit
  Middleware = {user, owner, limit}
  AuthOf <- MCAuthOf
  Bindable = {user, limit}
  InHandler <- MCCreate
  Readers = {r1}
  None = None
  MaxRegistries = 3
  MaxChanges = 2
INVARIANT CacheIsCurrent
CHECK_DEADLOCK FALSE
