CONSTANTS
  NChare = 3
  NPe = 2
  Home <- TwoPes
  NStep = 9
  Term = 7
  Dt = 2
  StatFreq = 1
  PdfFreq = 2
  Deck <- AnyDeck
SPECIFICATION FairSpec
INVARIANTS CenAboutAll MomentsOfLastStep PdfFile WaitsMatch
PROPERTIES ImplementsTimeSteps
