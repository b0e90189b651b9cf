SPECIFICATION FilesSpec
CONSTANTS
  Texts <- MCTexts
  Broken <- MCBroken
  Beyond <- MCBeyond
  MaxTime = 2
  BlockSize = 11
INVARIANTS
  TypeOK
  RunsSource
  ReadsBack
  InspectorFollows
