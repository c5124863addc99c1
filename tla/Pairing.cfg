SPECIFICATION Spec
CONSTANTS
  MaxStates = 2
  MaxRequests = 2
  Remotes = {r1}
  Tabs = {w1}
  BaseScopes <- TwitchBase
  PublishScopes <- TwitchPublish
  None = None
  MaxPolls = 2
  MaxCallbacks = 2
  MaxSaves = 2
  MaxEvents = 2
INVARIANTS
  CodeIsExchangedOnce
  OutcomeIsTrue
  AccountsAreUsable
  TokensStayRefreshable
PROPERTIES
  WizardIsAnswered
CHECK_DEADLOCK FALSE
