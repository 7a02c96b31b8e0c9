SPECIFICATION Spec
CONSTANTS
  Given <- SampleGiven
  Replies <- SampleReplies
INVARIANTS
  CmdTypeOK
  SameAgain
  AsTold
  ScriptsAreNotAsked
