---- MODULE Queries ----
(***************************************************************************
 The pages of the console that poll: Logs, Topology, Dashboard and Rules through
 react-query (external: modelled from how the pages use it), and Forensics with
 an interval of its own.

 react-query keeps one datum per key and asks for a key once at a time, whenever
 an enabled observer wants it: at mount, at its interval, at a change of the key.
 What an observer shows is the datum of its present key.  The cache outlives a
 page, so a page may start on what an earlier visit left.

 Abstracted: a datum is what it was asked for and the version of the server's
 state it was built from; text filters, exports and colours are left out.
 ***************************************************************************)
EXTENDS Integers, Sequences, FiniteSets

CONSTANTS Hosts,        \* Docker hosts
          Containers,   \* [host, name]
          Nodes,        \* the topology's nodes
          Hypervisors,  \* those whose dialog lists virtual machines
          Links,        \* its edges, pairs of nodes
          Added,        \* nodes that are there from the second version on
          MaxGen,       \* versions of the server's state
          MaxRefused,   \* refused or lost answers
          MaxUploads, MaxPolls,
          MaxKeys,      \* keys asked for during a visit
          MaxEdits      \* nodes and edges deleted, and edges drawn, between two drawings

VARIABLES page,
          cache,      \* key -> datum
          asking,     \* queries in flight
          gen,        \* version of the server's state
          failures,
          tab, host, container, runningOnly,        \* Logs
          dos, edges, own, removed, cut, drawn, selected,  \* Topology
          wsData, stream, pushed, restAsked,        \* Dashboard
          fstatus, jobId, results, aiAnalysis,      \* Forensics
          uploads, jobState, requests, aiAsked, stray

logVars == <<tab, host, container, runningOnly>>
topoVars == <<dos, edges, own, removed, cut, drawn, selected>>
dashVars == <<wsData, stream, pushed, restAsked>>
jobVars == <<fstatus, jobId, results, aiAnalysis, uploads, jobState, requests, aiAsked, stray>>
queryVars == <<cache, asking, gen, failures>>
pVars == <<page, queryVars, logVars, topoVars, dashVars, jobVars>>

Every == "all"           \* ALL_HOSTS, ALL_CONTAINERS
AllOf == [host |-> Every, name |-> Every]
NodesAt(g) == IF g > 1 THEN Nodes ELSE Nodes \ Added

----------------------------------------------------------------------------
\* Keys and addresses.

Key(q, detail) == [q |-> q, detail |-> detail]
Plain(q) == Key(q, << >>)
ContainersKey == Key("containers", <<host>>)

LogKeyWithoutFlag == Key("container-logs", <<host, container.host, container.name>>)

\* container-logs: everything its address is built from.
LogKey == Key("container-logs", <<host, container.host, container.name, runningOnly>>)

\* The address asked for: all of a host, running or not, or one container.
LogAddress ==
  IF container = AllOf THEN <<"all", host, runningOnly>>
                       ELSE <<"one", container.host, container.name>>

Address(k) == IF k.q = "container-logs" THEN LogAddress ELSE k.detail

\* The keys the page has enabled observers for.
Active ==
  CASE page = "logs" ->
         IF tab = "containers" THEN {Plain("docker-hosts"), ContainersKey, LogKey} ELSE {}
    [] page = "topology" ->
         {Plain("topology")} \cup {Key("proxmoxVms", <<n>>) : n \in selected}
    [] page = "dash" ->
         {Plain("dashboardMetrics"), Plain("slaMetrics")} \cup
         (IF wsData > 0 THEN {Key("proxmoxRrd", <<"node">>)} ELSE {})
    [] page = "rules" -> {Plain("rules")}
    [] OTHER -> {}

\* The queries that throw on an error status; the others keep the error as their data.
Checked == {"topology", "proxmoxVms", "proxmoxRrd", "dashboardMetrics", "slaMetrics"}
Error == <<"error">>
Cached(k) == k \in DOMAIN cache

\* The cache with the datum of key k replaced, or added.
Put(k, datum) == [x \in DOMAIN cache \cup {k} |-> IF x = k THEN datum ELSE cache[x]]

Fetch(k) ==
  /\ k \in Active /\ \A a \in asking : a.key # k
  /\ IF Cached(k) THEN cache[k].v < gen
     ELSE Cardinality(DOMAIN cache \cup {a.key : a \in asking}) < MaxKeys
  /\ asking' = asking \cup {[key |-> k, address |-> Address(k)]}
  /\ UNCHANGED <<page, cache, gen, failures, logVars, topoVars, dashVars, jobVars>>

\* On the other pages no two versions are told apart.
ServerChanges ==
  /\ page \in {"topology", "dash"} /\ gen < MaxGen /\ gen' = gen + 1
  /\ UNCHANGED <<page, cache, asking, failures, logVars, topoVars, dashVars, jobVars>>

----------------------------------------------------------------------------
\* Topology.

\* The label of an edge while the attack is simulated.
Label(e, on) ==
  CASE ~on -> "plain"
    [] e \in {<<"wan", "cloudflare">>, <<"wan", "firewall">>} -> "flood"
    [] e = <<"cloudflare", "firewall">> -> "clean"
    [] OTHER -> "plain"

LabelledEdges(g, on) ==
  {[link |-> e, label |-> Label(e, on)] :
     e \in {x \in Links : {x[1], x[2]} \subseteq NodesAt(g)}}

\* The effect on the data and the switch: nodes and edges start again, what the user
\* has connected is gone, what he has deleted is back.  Places are left out.
Redraw(g, on) ==
  /\ edges' = LabelledEdges(g, on) /\ drawn' = g
  /\ own' = {} /\ removed' = {} /\ cut' = {}

\* Simulate DoS Attack, or stop it.
ToggleDos ==
  /\ page = "topology" /\ dos' = ~dos
  /\ IF drawn > 0 THEN Redraw(drawn, dos') ELSE UNCHANGED <<edges, own, removed, cut, drawn>>
  /\ UNCHANGED <<page, selected, queryVars, logVars, dashVars, jobVars>>

OnScreen(n) == page = "topology" /\ drawn > 0 /\ n \in NodesAt(drawn) \ removed
MayEdit ==
  Cardinality(own) + Cardinality(removed) + Cardinality(cut) < MaxEdits

\* The links that are drawn, those of the server and the user's.
Linked == {e.link : e \in edges} \cup own

\* onNodesChange, onEdgesChange: the key deletes what is selected, a node with the
\* edges on it.
Deleted(gone) ==
  /\ edges' = {e \in edges : e.link \notin gone} /\ own' = own \ gone
  /\ cut' = cut \cup {l \in gone : \E e \in edges : e.link = l}
  /\ UNCHANGED <<page, dos, drawn, selected, queryVars, logVars, dashVars, jobVars>>

DeleteNode(n) ==
  /\ OnScreen(n) /\ MayEdit
  /\ removed' = removed \cup {n} /\ Deleted({l \in Linked : n \in {l[1], l[2]}})

DeleteEdge(l) ==
  /\ page = "topology" /\ l \in Linked /\ MayEdit
  /\ UNCHANGED removed /\ Deleted({l})

\* addEdge draws no second edge from one node to another.
onConnect(l) ==
  /\ OnScreen(l[1]) /\ OnScreen(l[2]) /\ MayEdit /\ l \notin Linked
  /\ own' = own \cup {l}
  /\ UNCHANGED <<page, dos, edges, removed, cut, drawn, selected, queryVars, logVars, dashVars, jobVars>>

\* A hypervisor opens its dialog; the cross closes it.
onNodeClick(n) ==
  /\ OnScreen(n) /\ n \in Hypervisors
  /\ selected' = IF selected = {} THEN {n} ELSE {}
  /\ UNCHANGED <<page, dos, edges, own, removed, cut, drawn, queryVars, logVars, dashVars, jobVars>>

----------------------------------------------------------------------------
\* Answers to queries.

\* An equal datum keeps its identity, so the topology's effect runs on a change only.
Answered(a) ==
  /\ a \in asking /\ asking' = asking \ {a}
  /\ cache' = Put(a.key, [address |-> a.address, v |-> gen])
  /\ IF page = "topology" /\ a.key.q = "topology" /\ drawn # gen
     THEN Redraw(gen, dos)
     ELSE UNCHANGED <<edges, own, removed, cut, drawn>>
  /\ UNCHANGED <<page, gen, failures, dos, selected, logVars, dashVars, jobVars>>

Failed(a) ==
  /\ a \in asking /\ asking' = asking \ {a}
  /\ failures < MaxRefused /\ failures' = failures + 1
  /\ cache' = IF a.key.q \in Checked THEN cache
              ELSE Put(a.key, [address |-> Error, v |-> gen])
  /\ UNCHANGED <<page, gen, logVars, topoVars, dashVars, jobVars>>

----------------------------------------------------------------------------
\* Logs.  The tabs of the audit log, whose one query has a constant key, and of the
\* hunt (module Questions) are one here.

setActiveTab(t) ==
  /\ page = "logs" /\ t # tab /\ tab' = t
  /\ UNCHANGED <<page, host, container, runningOnly, queryVars, topoVars, dashVars, jobVars>>

\* Another host: back to all of its containers.
SelectHost(h) ==
  /\ page = "logs" /\ tab = "containers" /\ h # host
  /\ h = Every \/ Cached(Plain("docker-hosts"))
  /\ host' = h /\ container' = AllOf
  /\ UNCHANGED <<page, tab, runningOnly, queryVars, topoVars, dashVars, jobVars>>

\* The select offers what the list of the host's containers holds.
SelectContainer(c) ==
  /\ page = "logs" /\ tab = "containers" /\ c # container
  /\ c = AllOf \/ (/\ Cached(ContainersKey) /\ cache[ContainersKey].address # Error
                   /\ host \in {Every, c.host})
  /\ container' = c
  /\ UNCHANGED <<page, tab, host, runningOnly, queryVars, topoVars, dashVars, jobVars>>

\* The check box is there for the merged view only.
SetRunningOnly ==
  /\ page = "logs" /\ tab = "containers" /\ container = AllOf
  /\ runningOnly' = IF runningOnly = "running" THEN "any" ELSE "running"
  /\ UNCHANGED <<page, tab, host, container, queryVars, topoVars, dashVars, jobVars>>

\* What the terminal shows: the datum of the present key, if there is one.
Terminal == IF Cached(LogKey) THEN cache[LogKey].address ELSE Error

----------------------------------------------------------------------------
\* Dashboard.

\* The first fetch fills in only what the stream has not brought yet; it may fail.
RestFills ==
  /\ page = "dash" /\ restAsked /\ restAsked' = FALSE
  /\ wsData' \in IF wsData = 0 THEN 0..gen ELSE {wsData}
  /\ UNCHANGED <<page, stream, pushed, queryVars, logVars, topoVars, jobVars>>

\* The page's own socket delivers an overview; when it is lost nobody opens another.
StreamPushes ==
  /\ page = "dash" /\ stream = "open" /\ pushed < gen
  /\ wsData' = gen /\ pushed' = gen
  /\ UNCHANGED <<page, stream, restAsked, queryVars, logVars, topoVars, jobVars>>

StreamLost ==
  /\ page = "dash" /\ stream = "open" /\ failures < MaxRefused /\ failures' = failures + 1
  /\ stream' = "lost"
  /\ UNCHANGED <<page, wsData, pushed, restAsked, cache, asking, gen, logVars, topoVars, jobVars>>

----------------------------------------------------------------------------
\* Forensics.

Req(kind, job, n) == [kind |-> kind, job |-> job, n |-> n]

\* Analyze PCAP: the file input is disabled while a job runs, this button is not.
handleUpload ==
  /\ page = "forensics" /\ uploads < MaxUploads
  /\ uploads' = uploads + 1
  /\ fstatus' = "uploading"
  /\ requests' = requests \cup {Req("upload", uploads + 1, 0)}
  /\ stray' = (stray \/ requests # {})
  /\ UNCHANGED <<page, jobId, results, aiAnalysis, jobState, aiAsked, queryVars, logVars, topoVars, dashVars>>

UploadAnswer(q, ok) ==
  /\ q \in requests /\ q.kind = "upload" /\ requests' = requests \ {q}
  /\ IF ok
     THEN /\ jobId' = q.job /\ fstatus' = "analyzing"
          /\ jobState' = [jobState EXCEPT ![q.job] = "running"]
          /\ UNCHANGED failures
     ELSE /\ fstatus' = "failed" /\ UNCHANGED <<jobId, jobState>>
          /\ failures < MaxRefused /\ failures' = failures + 1
  /\ UNCHANGED <<page, results, aiAnalysis, uploads, aiAsked, stray, cache, asking, gen, logVars, topoVars, dashVars>>

\* analyze_pcap comes to its end; the alert it sends after that raises nothing.
JobEnds(j) ==
  /\ jobState[j] = "running" /\ \E how \in {"completed", "failed"} : jobState' = [jobState EXCEPT ![j] = how]
  /\ UNCHANGED <<page, fstatus, jobId, results, aiAnalysis, uploads, requests, aiAsked, stray,
                 queryVars, logVars, topoVars, dashVars>>

\* The back end starts again: its table of jobs was in memory, and so were the threads.
JobsLost ==
  /\ page = "forensics" /\ failures < MaxRefused /\ failures' = failures + 1
  /\ \E j \in DOMAIN jobState : jobState[j] \in {"running", "completed", "failed"}
  /\ jobState' = [j \in DOMAIN jobState |-> IF jobState[j] = "none" THEN "none" ELSE "lost"]
  /\ UNCHANGED <<page, fstatus, jobId, results, aiAnalysis, uploads, requests, aiAsked, stray,
                 cache, asking, gen, logVars, topoVars, dashVars>>

\* The 2 s interval of the effect on status and job: it does not wait for answers.
PollTick ==
  /\ page = "forensics" /\ fstatus = "analyzing" /\ jobId # 0
  /\ \E n \in 1..MaxPolls : LET q == Req("poll", jobId, n) IN
       q \notin requests /\ requests' = requests \cup {q}
  /\ UNCHANGED <<page, fstatus, jobId, results, aiAnalysis, uploads, jobState, aiAsked, stray,
                 queryVars, logVars, topoVars, dashVars>>

\* An answer is taken whichever job the page is at by then.  That of a job unknown to
\* the back end, a 404, has no status in it, and the interval goes on.
PollAnswer(q) ==
  /\ q \in requests /\ q.kind = "poll" /\ requests' = requests \ {q}
  /\ IF jobState[q.job] \in {"completed", "failed"}
     THEN fstatus' = jobState[q.job] /\ results' = q.job
     ELSE UNCHANGED <<fstatus, results>>
  /\ UNCHANGED <<page, jobId, aiAnalysis, uploads, jobState, aiAsked, stray,
                 queryVars, logVars, topoVars, dashVars>>

PollLost(q) ==
  /\ q \in requests /\ q.kind = "poll" /\ requests' = requests \ {q}
  /\ failures < MaxRefused /\ failures' = failures + 1
  /\ UNCHANGED <<page, fstatus, jobId, results, aiAnalysis, uploads, jobState, aiAsked, stray,
                 cache, asking, gen, logVars, topoVars, dashVars>>

\* The assessment is asked for the results on screen; a new job does not clear it.
handleAIAnalyze ==
  /\ page = "forensics" /\ fstatus = "completed" /\ results # 0 /\ aiAsked = 0
  /\ aiAnalysis # results
  /\ aiAsked' = results
  /\ UNCHANGED <<page, fstatus, jobId, results, aiAnalysis, uploads, jobState, requests, stray,
                 queryVars, logVars, topoVars, dashVars>>

AIAnswer(ok) ==
  /\ aiAsked # 0 /\ aiAsked' = 0
  /\ IF ok THEN aiAnalysis' = aiAsked /\ UNCHANGED failures
     ELSE UNCHANGED aiAnalysis /\ failures < MaxRefused /\ failures' = failures + 1
  /\ UNCHANGED <<page, fstatus, jobId, results, uploads, jobState, requests, stray,
                 cache, asking, gen, logVars, topoVars, dashVars>>

----------------------------------------------------------------------------
QueryPages == {"logs", "topology", "dash", "rules", "forensics"}

NoPage ==
  /\ page = "none" /\ cache = << >> /\ asking = {} /\ gen = 1 /\ failures = 0
  /\ tab = "audit" /\ host = Every /\ container = AllOf /\ runningOnly = "running"
  /\ dos = FALSE /\ edges = {} /\ own = {} /\ removed = {} /\ cut = {} /\ drawn = 0 /\ selected = {}
  /\ wsData = 0 /\ stream = "open" /\ pushed = 0 /\ restAsked = FALSE
  /\ fstatus = "idle" /\ jobId = 0 /\ results = 0 /\ aiAnalysis = 0
  /\ uploads = 0 /\ jobState = [j \in 1..MaxUploads |-> "none"] /\ requests = {}
  /\ aiAsked = 0 /\ stray = FALSE

ClearPage ==
  /\ page' = "none" /\ cache' = << >> /\ asking' = {} /\ gen' = 1 /\ failures' = 0
  /\ tab' = "audit" /\ host' = Every /\ container' = AllOf /\ runningOnly' = "running"
  /\ dos' = FALSE /\ edges' = {} /\ own' = {} /\ removed' = {} /\ cut' = {} /\ drawn' = 0 /\ selected' = {}
  /\ wsData' = 0 /\ stream' = "open" /\ pushed' = 0 /\ restAsked' = FALSE
  /\ fstatus' = "idle" /\ jobId' = 0 /\ results' = 0 /\ aiAnalysis' = 0
  /\ uploads' = 0 /\ jobState' = [j \in 1..MaxUploads |-> "none"] /\ requests' = {}
  /\ aiAsked' = 0 /\ stray' = FALSE

\* A page is mounted; an earlier visit may have left the topology in the cache.
MountPage(p) ==
  /\ page = "none" /\ page' = p
  /\ \/ UNCHANGED <<cache, edges, own, removed, cut, drawn>>
     \/ /\ p = "topology"
        /\ cache' = Put(Plain("topology"), [address |-> << >>, v |-> 1])
        /\ Redraw(1, FALSE)
  /\ restAsked' = (p = "dash")
  /\ UNCHANGED <<asking, gen, failures, logVars, dos, selected, wsData, stream, pushed, jobVars>>

PollingOps ==
  \/ ServerChanges \/ ToggleDos \/ SetRunningOnly \/ handleUpload \/ handleAIAnalyze
  \/ StreamLost
  \/ \E t \in {"audit", "containers"} : setActiveTab(t)
  \/ \E h \in Hosts \cup {Every} : SelectHost(h)
  \/ \E c \in Containers \cup {AllOf} : SelectContainer(c)
  \/ \E n \in Nodes : DeleteNode(n) \/ onNodeClick(n)
  \/ \E l \in Links : DeleteEdge(l) \/ onConnect(l)
  \/ \E a \in asking : Failed(a)
  \/ \E q \in requests : PollLost(q) \/ UploadAnswer(q, FALSE)
  \/ AIAnswer(FALSE) \/ JobsLost

\* What goes on by itself: queries are asked and answered, jobs end, the interval ticks.
PollingWork ==
  \/ \E k \in Active : Fetch(k)
  \/ \E a \in asking : Answered(a)
  \/ RestFills \/ StreamPushes
  \/ \E q \in requests : UploadAnswer(q, TRUE)
  \/ \E j \in DOMAIN jobState : JobEnds(j)
  \/ AIAnswer(TRUE)

PollAnswers == \E q \in requests : PollAnswer(q)

PNext == PollingOps \/ PollingWork \/ PollTick \/ PollAnswers

PollFairness == WF_pVars(PollingWork) /\ WF_pVars(PollTick) /\ WF_pVars(PollAnswers)

PTypeOK ==
  /\ page \in QueryPages \cup {"none"} /\ gen \in 1..MaxGen /\ failures \in 0..MaxRefused
  /\ \A k \in DOMAIN cache : cache[k].v \in 1..gen
  /\ tab \in {"audit", "containers"} /\ host \in Hosts \cup {Every}
  /\ container \in Containers \cup {AllOf} /\ runningOnly \in {"running", "any"}
  /\ {dos, restAsked, stray} \subseteq BOOLEAN /\ {drawn, wsData, pushed} \subseteq 0..MaxGen
  /\ removed \subseteq Nodes /\ own \cup cut \subseteq Links /\ selected \subseteq Nodes
  /\ stream \in {"open", "lost"}
  /\ fstatus \in {"idle", "uploading", "analyzing", "completed", "failed"}
  /\ {jobId, results, aiAnalysis, uploads, aiAsked} \subseteq 0..MaxUploads

\* The terminal shows the selection or an error, never another selection's lines, and
\* a container of another host than the selected one is never selected.
LogsFit ==
  /\ Terminal \in {LogAddress, Error}
  /\ container # AllOf => host \in {Every, container.host}

\* The topology drawn is the latest one in the cache: of its links just those that
\* were deleted since are missing, the others are labelled by the state of the switch,
\* and no edge, the user's neither, hangs on a node that was deleted.
TopologyFits ==
  drawn > 0 =>
    /\ cache[Plain("topology")].v >= drawn
    /\ NodesAt(cache[Plain("topology")].v) = NodesAt(drawn)
    /\ edges = {e \in LabelledEdges(drawn, dos) : e.link \notin cut}
    /\ \A l \in Linked : {l[1], l[2]} \cap removed = {}

\* Completed is said of a job that ended well, whether the back end still knows it or
\* not.  Unless a request outlived the upload that follows it, that is the job of the last
\* upload, the page uploads while an upload is in flight, and it analyzes no job whose
\* results it has.
ForensicsFits ==
  /\ fstatus = "completed" => results # 0 /\ jobState[results] \in {"completed", "lost"}
  /\ ~stray =>
    /\ fstatus = "completed" => results = jobId
    /\ fstatus = "uploading" <=> \E q \in requests : q.kind = "upload"
    /\ fstatus = "analyzing" => results # jobId

\* The Dashboard never goes back from an overview of the stream to an older one.
DashFits == wsData >= pushed

PollFits == LogsFit /\ TopologyFits /\ ForensicsFits /\ DashFits

\* Forensics waits: for an upload, for a job the back end still has, or for the
\* assessment.  For a job that was lost it would wait for ever.
Working ==
  \/ fstatus = "uploading" \/ aiAsked # 0
  \/ fstatus = "analyzing" /\ jobState[jobId] # "lost"
====
