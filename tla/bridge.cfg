SPECIFICATION Spec
CONSTANTS
  Settings <- SomeSettings
  RuleFiles <- SomeRules
  TemplateFiles <- SomeTemplates
  Events <- SomeEvents
  TextRelation <- SomeRelation
  MaxSize = 2
  MaxGiven = 5
  MaxStarts = 1
INVARIANTS
  TypeOK
  ExactWindow
  SentInOrder
  Accounts
CHECK_DEADLOCK FALSE
