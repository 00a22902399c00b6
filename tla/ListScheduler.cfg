CONSTANTS
  Syllables <- MCSyllables
  MaxLen = 4
SPECIFICATION FairSpec
INVARIANTS TypeOK DependencesKept ReadyNodeExists Permutation SameDataflow HeightIsCriticalPath
PROPERTY Terminates
