\* What the collectors do not keep (check one at a time; not among the regular
\* runs): raw-text consent for the address in a clipboard text, no runtime left
\* running by the shutdown.
SPECIFICATION WindowSpec
CONSTANTS
  Texts = {t1}
  NoText = NoText
  Workspaces = {w1, w2}
  NoWorkspace = NoWorkspace
  MaxRuns = 2
  MaxClicks = 3
  MaxCards = 1
CHECK_DEADLOCK FALSE
INVARIANT RuntimeStopped
PROPERTY ContentWithRawConsent
