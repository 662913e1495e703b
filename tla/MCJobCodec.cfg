SPECIFICATION Spec
CONSTANTS
  BuffHeadroom = 1
  BuffSize = 3
  Room = 8
  Jobs <- SomeJobs
  OutSize = 3
  MaxJobs = 2
CHECK_DEADLOCK FALSE
INVARIANT ServerSeesJob
INVARIANT ReportedAsDelivered
