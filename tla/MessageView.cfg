SPECIFICATION Spec
CONSTANTS
  a = a
  b = b
  m1 = m1
  m2 = m2
  o1 = o1
  None = None
  Theirs = {m1, m2}
  Own = {o1}
  ConversationOf <- MCConversationOf
  History <- MCHistory
  Edits = {m1, o1}
  Deletes = {m1, o1}
  Scenarios = {{m1, m2}, {m2, o1}}
  MaxSwitches = 2
  MaxFailures = 1
INVARIANTS
  CopiesAccountedFor
  ListAccountedFor
CHECK_DEADLOCK FALSE
