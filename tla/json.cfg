SPECIFICATION TextSpec
CONSTANTS
  MaxDepth = 2
  MaxBytes = 8
  MaxString = 1
  Alphabet <- SomeAlphabet
  Printed <- SomePrinted
  Endings <- SomeEndings
CHECK_DEADLOCK FALSE
INVARIANTS DepthIsNesting AcceptsTheGrammar WrittenIsReadable TruncationIsNoticed
