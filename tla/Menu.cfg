SPECIFICATION Spec
CONSTANTS
  None = None
  Fold <- MCFold
  Platform = "uefi"
  MaxConfReplace = 2
  MaxInt = 6
  Lists <- MCLists
  Typed = {"p", "q", "w"}
  MaxTries = 3
  MaxAttempts = 2
INVARIANTS
  AuthorizedBoot
  UserStaysInControl
  ChosenExists
PROPERTY
  UnattendedBoots
