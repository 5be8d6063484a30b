SPECIFICATION PartsSpec
CONSTANTS
  MaxCopies = 2
  MaxFailed = 2
  Environments <- Everything
  Values = 8
  Sizes = {2, 4, 8, 16, 32}
INVARIANTS ModeIsEffective NoBlackHole NoPileUp
  ClientsUsable RefusedWhenFull
