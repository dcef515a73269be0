CONSTANTS
  NChare = 3
  NPe = 2
  Home <- TwoPes
  NStep = 3
  Term = 9
  Dt = 1
  StatFreq = 2
  PdfFreq = 2
  Deck <- StatDeck
SPECIFICATION FairSpec
INVARIANTS PdfsOfLastStep
