SPECIFICATION MCSpec
CONSTANTS
  s1 = s1
  md = md
  NoQuestion = NoQuestion
  Stems <- MCStems
  OtherFiles <- MCOtherFiles
  Documents <- MCDocuments
  Names = {"a", "b"}
  Moment <- MCMoment
  StepTypes <- MCStepTypes
  Builtins <- MCBuiltins
  NoModule = NoModule
  Absent = Absent
  Blank = Blank
  Broken = Broken
  Unreadable = Unreadable
  MaxMinute = 3
  Scenarios <- MCScenarios
  WorkflowNames <- MCWorkflowNames
  Sorted <- MCSorted
  BuiltinNames = {"a"}
  ReservedNames = {"new"}
  WorkflowBodies = {"body"}
  NoFile = NoFile
  Invalid = Invalid
  Undecodable = Undecodable
  BadDate = BadDate
  NotFound = NotFound
  Raised = Raised
  Specs <- MCSpecs
  NoSpec = NoSpec
  NoKey = NoKey
  Error = Error
INVARIANTS WorkerIsCurrent OncePerMinute FiringsAreDue
           FieldsAgree ModulesServeTheirTypes TextsAreKept NamesAreResolved ValidationIsTrue GuardsBranch
PROPERTIES EditsTakeEffect
CHECK_DEADLOCK FALSE
