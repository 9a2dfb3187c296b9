\* Short lines of anything, longer lines of a few words, words of eight bits.
CONSTANTS
  Literals = {"3", "101", "200"}
  DigitsOf <- Typed
  Half = 128
  Blocks <- Addresses
  Vocabularies <- Lines
SPECIFICATION EvaluatorSpec
INVARIANTS
  SyntaxTypeOK
  OneOwner
  EvaluatorTypeOK
  PrintedReadsBack
PROPERTIES
  ProgramSpec
  PrintsMeaning
