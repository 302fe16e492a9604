SPECIFICATION FairSpec
CONSTANTS
  youtube = youtube
  fonts = fonts
  mail = mail
  other = other
  Modes <- MCModes
  Hosts <- MCHosts
  Rewrite <- MCRewrite
  Google <- MCGoogle
  MaxData = 3
  MaxBack = 2
INVARIANTS
  TypeOK
  AllThroughSocks
  AnswersInOrder
  ClosedBehind
  TunnelDelivers
PROPERTIES
  TunnelEnds
  RelayEnds
CHECK_DEADLOCK FALSE
