SPECIFICATION RenderingSpec
CONSTANTS
  TopLevel = 1
  Width = 2
  Rays <- TwoRays
  Contents <- DataIn
  Dark = {}
  MaxFeedback = 1
  MaxAhead = 3
  MaxReleases = 1
PROPERTY HarvestComes
