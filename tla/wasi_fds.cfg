SPECIFICATION Spec
CONSTANTS
  RightSets <- MCRightSets
  FlagSets <- MCFlagSets
  Arguments <- MCArguments
  Opens <- MCOpens
  Failures = {"Io"}
  GuestFds = {3, 4}
  MaxFd = 4
INVARIANTS
  TypeOK RightsDescend NoAmbientAuthority NothingLeaks FlagsAgree
PROPERTIES
  EntriesStay
