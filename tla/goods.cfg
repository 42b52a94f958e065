SPECIFICATION MatchingSpec
CONSTANTS
  Goods = 2
  Regions = 4
  Base = 3
  Chances = 4
  MaxReports = 2
  Images = {0, 1, 2, 3}
  Least = 3
  MaxMatches = 6
  Stray = 99
INVARIANTS ReportFaithful SamplesLoaded LongestRunWins
PROPERTY Reported
