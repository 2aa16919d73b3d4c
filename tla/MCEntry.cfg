\* The customer is done when the bound on changes is reached.
SPECIFICATION Spec
CONSTANTS
  NoForm = NoForm
  Forms <- MCForms
  Elsewhere <- MCElsewhere
  MaxEdits = 1
INVARIANTS TypeOK AcceptedAsIssued FormRecovered OneDigitFits
PROPERTIES WrongDigitNoticed SlipNoticed SpellingIgnored
CHECK_DEADLOCK FALSE
