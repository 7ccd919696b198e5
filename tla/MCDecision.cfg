\* Two calls with one engine: every pair of outcomes of its submissions.
SPECIFICATION Spec
CONSTANTS
  Unit = 4
  MaxQuestions = 3
  MaxOptions = 2
  MinLevels = 2
  MaxLevels = 3
  BadIds = {9}
  MaxCalls = 2
  Submissions <- mcSubmissions
  Category = 1
  Incident = 2
  Severity = 3
  ConfidentEnoughToAct = 3
  SevereEnoughToPage = 3
  Bodies <- mcBodies
INVARIANTS TypeOK EveryQuestionReceipted IdentifiersUnique CallersVocabulary RulesGovern EscalatesOnlyByRule FailureIsRecorded BuiltReceiptsValidate UnknownGoesToAHuman ActsOnlyOnAnswers
PROPERTIES ImplementsTrail CallsReturn
\* A caller may stop calling.
CHECK_DEADLOCK FALSE
