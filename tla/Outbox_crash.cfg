\* A dispatcher dies.
CONSTANTS
  step = step
  other = other
  u1 = u1
  u2 = u2
  Topic = {step, other}
  Keyed = {step}
  Handled = {step}
  User = {u1, u2}
  Recipients <- RecipientsOf
  Dispatcher = {w1, w2}
  Reviewer = {}
  Batch = 1
  MaxAttempts = 2
  MaxEvents = 1
  MaxCrashes = 1
  MaxReplays = 0
SPECIFICATION FairSpec
PROPERTY AtLeastOnce
CHECK_DEADLOCK FALSE
