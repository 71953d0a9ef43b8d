\* Three actors, two passes: every mix of connect and handle outcomes.
CONSTANTS
  N = 3
  Attempts = 2
SPECIFICATION Spec
INVARIANTS
  TypeOK
  RetryContract
