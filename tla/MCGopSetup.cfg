CONSTANTS
  Configs <- MCConfigs
  KeyCodes <- MCKeyCodes
  MaxPresses = 3
SPECIFICATION Spec
INVARIANT TypeOK
INVARIANT SetModeArgumentValid
INVARIANT FrameBuffersMatchChoice
PROPERTY KeyEndsMenu
\* InitUEFI_GOP returns (done or failed), and the menu waits once the user
\* has typed every key.
CHECK_DEADLOCK FALSE
