\* The same instance against the description of get_todo_by_id.
CONSTANTS
  ImportOrder <- Imports
  FanOut = 2
  MaxTries = 2
SPECIFICATION Spec
INVARIANTS
  NullTodoIsUnknown
