SPECIFICATION Spec
CONSTANTS
  Actor = {"pm", "fin"}
  Editor = {"pm", "fin"}
  Approver = {"fin"}
  Submitter = {"pm", "fin"}
  Decider = {"fin"}
  Nobody = Nobody
  MaxVersion = 5
CHECK_DEADLOCK FALSE
INVARIANTS
  DecidedOnce
  SignaturesKept
  DecisionReachesSubmitter
PROPERTIES
  InformedChange
