CONSTANTS
  T = T
  Missing = Missing
  Nil = Nil
  Nowhere = Nowhere
  SeqMax = 3
  SortMax = 6
  MedianAbove = 4
  ChooseMax = 4
  Bits = 6
  TagBits = 2
  CharMax = 6
  Letters = {1, 2}
  Digits = {1}
  TextMax = 3
  BytesMax = 3
  Crash = Crash
  Unopened = Unopened
  LineMax = 3
  FileMax = 3
  Suites = {"coding", "finding", "matching", "numbers", "patterns", "sequences"}
SPECIFICATION Spec
INVARIANTS SequencesExact NumbersExact RegexExact CodingExact PatternsExact
CHECK_DEADLOCK FALSE
