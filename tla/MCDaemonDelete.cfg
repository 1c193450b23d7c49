\* A torrent is removed with its files and added again before its session has ended.
CONSTANTS
  Torrents = {file}
  Magnets = {}
  MaxSessions = 2
SPECIFICATION Spec
PROPERTY NoDeleteWhileWriting
CHECK_DEADLOCK FALSE
