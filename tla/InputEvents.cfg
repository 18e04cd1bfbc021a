SPECIFICATION FairSpec
CONSTANTS
  Key = {65}
  Cap = 2
  MaxMsg = 3
INVARIANTS
  TypeOK
  GuestFollowsPage
  NoPhantomButton
  KeysFollowUser
PROPERTIES
  QemuEndsWithPage
CHECK_DEADLOCK FALSE
