\* Two dispatchers, a crash and a replay.
CONSTANTS
  step = step
  other = other
  u1 = u1
  u2 = u2
  Topic = {step, other}
  Keyed = {step}
  Handled = {step}
  User = {u1, u2}
  Recipients <- RecipientsOf
  Dispatcher = {w1, w2}
  Reviewer = {r1}
  Batch = 2
  MaxAttempts = 2
  MaxEvents = 2
  MaxCrashes = 1
  MaxReplays = 1
SPECIFICATION FairSpec
INVARIANTS
  ToldOnce
PROPERTY EventuallySettled
CHECK_DEADLOCK FALSE
