SPECIFICATION Spec
CONSTANTS
  Roles = {"superadmin", "DevOps_Engineer"}
  Rows = {r1, r2}
  NoRow = NoRow
  Root = r1
  MaxOps = 2
  MaxCalls = 2
  Subjects = {a, b}
  NoSubject = NoSubject
  MaxAsks = 3
  Guests = {g1, g2}
  NoGuest = NoGuest
  Actions = {"start", "shutdown", "isolate"}
  Policies <- MCPolicies
  Gap = 3
  MaxCmds = 2
  Hosts = {"h1", "h2"}
  Containers <- MCContainers
  Nodes <- MCNodes
  Hypervisors = {"pve"}
  Links <- MCLinks
  Added = {"vm"}
  MaxGen = 2
  MaxRefused = 1
  MaxUploads = 2
  MaxPolls = 2
  MaxKeys = 3
  MaxEdits = 2
  Ids = {1, 2, 3}
  MaxBatch = 2
  Shape <- MCShape
  StoreCap = 3
  LayoutCap = 2
  DashCap = 1
  TTL = 1
  MaxTime = 3
  Layers = {"Phishing"}
  Views <- MCViews
  TopN = 1
  ChartBuckets = 2
  MaxJobs = 2
INVARIANT MapFits AnswerFits ListFits PollFits DeskFits
PROPERTY Settles
CHECK_DEADLOCK FALSE
