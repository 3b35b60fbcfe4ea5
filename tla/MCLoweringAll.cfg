CONSTANTS
  Languages = {"branches", "loops", "tries", "rounds", "python", "raises", "arms", "finally", "switch"}
  MaxDepth = 3
  NoBlock = NoBlock
  Grammars <- MCGrammars
SPECIFICATION RunsSpec
INVARIANTS
  LeftStaysLeft
  RunsFollowTheGraph
CHECK_DEADLOCK FALSE
