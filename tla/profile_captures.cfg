SPECIFICATION Spec
CONSTANTS
  a = a
  p1 = p1
  p2 = p2
  ccall = ccall
  anonymous = anonymous
  Pods <- TracePods
  Mode <- TraceMode
  Pushes = {1, 2}
  Workloads = {"lusearch", "h2"}
  Methods <- TraceMethods
  Needs <- TraceNeeds
  Unportable = {ccall}
  Unreplayable = {anonymous}
  NoMethod = NoMethod
  Missing = Missing
  TraceFaults = 2
  Attempts = 3
  Iterations = 2
  NoCapture = NoCapture
  CaptureFaults = 3
  Bytes <- StreamBytes
  Payloads <- StreamPayloads
CHECK_DEADLOCK FALSE
INVARIANTS StoredTraceIsComplete ReplayedNeverCompiles MergesOwnTraffic
INVARIANTS AnswersAreReplies WritesWhereAsked
