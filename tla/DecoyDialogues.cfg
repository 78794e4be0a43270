\* Every dialogue of up to five items.
SPECIFICATION Spec
CONSTANTS
  Word = {"sh"}
  Verb = {"MAIL"}
  MaxItems = 5
INVARIANTS
  ReportsMatchInput
  AnsweredOnce
CHECK_DEADLOCK FALSE
