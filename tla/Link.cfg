SPECIFICATION LinkSpec
CONSTANTS
  n = 2
  MaxMsg <- MCMaxMsg
  Always = "recvState"
  GaitOut = "gait_out"
  Parts <- MCParts
  Commands <- MCCommands
  Home <- MCHome
  Target <- MCTarget
  Topics <- MCTopics
  Fields <- MCFields
  TopicOf <- MCTopicOf
  Place <- MCPlace
  Size <- MCSize
  Turn <- MCTurn
  Passes <- MCPasses
  PassOf <- MCPassOf
  Length <- MCLength
  Depth <- MCDepth
INVARIANTS
  OnTrack
  SeenByNextPass
  TornOneWay
  WalksWithinCommands
