CONSTANTS
  Axes = {"x"}
  Kinds = {"red", "black", "white"}
  PaintCap = 3
  MaxHealth = 1
  MaxEnemies = 2
  MaxShots = 1
  MaxScore = 1
SPECIFICATION Spec
INVARIANT TypeOK
INVARIANT LatestKeyWins
INVARIANT OnlyZeroScoreIsInvincible
PROPERTY LifeByLife
