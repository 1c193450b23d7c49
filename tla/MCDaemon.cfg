\* Two torrents, one by magnet, or one added twice; it may crash at any time.
CONSTANTS
  Torrents = {file, link}
  Magnets = {link}
  MaxSessions = 2
SPECIFICATION FairSpec
INVARIANTS
  TypeOK
  RemovalSticks
  PauseObeyed
  NoOrphan
  RestartBringsBack
PROPERTY RemovalsAnswered
CHECK_DEADLOCK FALSE
