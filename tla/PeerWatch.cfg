SPECIFICATION WatchSpec
CONSTANTS
  Node = {n1}
  PeerTtl = 4
  Refresh = 1
  ScanAge = 2
  ListTime = 1
  Behind = 1
  Ahead = 1
  NoScore = NoScore
  Buffer = 1
INVARIANTS WatchTypeOK NoFalseLeft ReaderCatchesUp
PROPERTIES LivePeersListed OlderBuildsListed GoneNodesUnlisted EventsAlternate
