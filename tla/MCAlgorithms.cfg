CONSTANTS
  Bodies <- MCBodies
  MaxSide = 4
  Texts <- MCTexts
  Configs <- MCConfigs
  Gaps <- MCGaps
  Bundles <- MCBundles
  Shuffles <- MCShuffles
  MaxFolds = 6
  Scored <- MCScored
  Columns <- MCColumns
  MaxBins = 4
  MaxLine = 4
  Shortest = 10
  Sides = {0, 1, 2, 3}
  BlockSizes = {1, 2, 3}
SPECIFICATION Spec
INVARIANTS MatrixFits CutRows CheckedTables ConfigReads
INVARIANTS BundleReads FoldsPartition CountsAgree BinsBalanced FillIsMode SameSums
