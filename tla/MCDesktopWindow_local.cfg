\* Two briefs, one new card and three clicks of the user, in both modes.
SPECIFICATION WindowSpec
CONSTANTS
  Texts = {t1}
  NoText = NoText
  Workspaces = {w1, w2}
  NoWorkspace = NoWorkspace
  MaxRuns = 2
  MaxClicks = 3
  MaxCards = 1
CHECK_DEADLOCK FALSE
INVARIANTS ConsentHeld CopyGivesShown PanelCurrent
PROPERTIES GenerateAgain TextWithConsent
