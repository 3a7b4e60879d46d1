SPECIFICATION Spec
CONSTANTS
  Addresses <- SomeAddresses
  MayFail = TRUE
INVARIANT TypeOK
INVARIANT SecureAsAsked
INVARIANT SidesAgree
INVARIANT ExitHasCause
CHECK_DEADLOCK FALSE
