---- MODULE Listings ----
(***************************************************************************
 The pages of the console that list what the server holds and change it:
 UserManagement with its modal, IAMAccessReview, Incidents, Assets, the feed of
 ThreatIntel, Profile with the copy the Header keeps, and the save of Settings,
 which rotates every credential in turn.

 A request is sent, then served or refused by the server, then answered; its
 connection may be lost before or after the server acted.  Answers come in any
 order.  apiFetch throws when no answer comes; it does not throw on an error
 status, and most handlers do not look at it.

 One page is mounted at a time.  Answers to a page that was left set the state
 of nothing.  Abstracted: a row is its value, 0 when absent; on the profile, Name
 and Avatar are the two rows; grants and credentials are one table, whose two
 parallel requests are one.
 ***************************************************************************)
EXTENDS Naturals, FiniteSets

CONSTANTS Rows, NoRow,
          Root,       \* tahnadmin on the users page, the name on the profile
          MaxOps,     \* what the user does after the page has been mounted
          MaxCalls    \* requests in flight when the user sends one more

VARIABLES list,       \* the page
          srv,        \* what the server holds
          rows,       \* what the page shows
          header,     \* what the Header shows (profile page)
          fetched,    \* a list has arrived
          calls,      \* requests in flight
          ops,
          loading,    \* loading, loadingFeed
          denied,     \* error # '', a role that may not see the page, or one that threw
          acting,     \* actionLoading
          form,       \* the modal, the profile's editForm, or the dragged card
          running,    \* runningCorrelation, isSaving
          settle,     \* the 500 ms timer of Settings is pending
          notice,     \* saveMsg is shown
          clears,     \* pending timers that clear it
          overlap,    \* a request left while another was in flight
          bad,        \* an answer was lost, or a list refused
          refused     \* a change was refused

lVars == <<list, srv, rows, header, fetched, calls, ops, loading, denied, acting,
           form, running, settle, notice, clears, overlap, bad, refused>>
shows == <<rows, header, fetched>>
marks == <<loading, denied, acting, form, running>>
timed == <<settle, notice, clears>>
faultsSeen == <<overlap, bad, refused>>

Pages == {"users", "access", "incidents", "assets", "feed", "profile", "settings"}
Vals == 0..2
Lists == {"list", "creds", "header"}
Closed == [mode |-> "closed", row |-> NoRow, val |-> 0]
Absent == [r \in Rows |-> 0]
Present == [r \in Rows |-> 1]
Fresh == CHOOSE k \in 1..(MaxCalls + 1) : \A c \in calls : c.n # k

\* apiFetch: one more request, with what the handler remembers across its await.
Request(op, row, val, kept) ==
  [n |-> Fresh, op |-> op, row |-> row, val |-> val, stage |-> "sent", kept |-> kept]

\* The request of an event handler leaves.
Asks(op, row, val) ==
  /\ ops < MaxOps /\ ops' = ops + 1 /\ Cardinality(calls) < MaxCalls
  /\ overlap' = (overlap \/ calls # {})
  /\ calls' = calls \cup {Request(op, row, val, IF op = "avatar" THEN rows ELSE Absent)}

\* The handler that waited for c goes on and sends these.
Then(c, ops2) ==
  /\ calls' = (calls \ {c}) \cup {Request(op, NoRow, 0, Absent) : op \in ops2}
  /\ overlap' = (overlap \/ (ops2 # {} /\ calls # {c}))
  /\ UNCHANGED <<list, srv, ops>>

----------------------------------------------------------------------------
\* The server, as the pages use it.

Allowed(c) ==
  CASE c.op = "create" -> srv[c.row] = 0
    [] c.op \in {"put", "delete", "rotate", "avatar"} -> srv[c.row] # 0
    [] OTHER -> TRUE

Effects(c) ==
  CASE c.op \in {"create", "put", "rotate", "avatar"} -> {[srv EXCEPT ![c.row] = c.val]}
    [] c.op = "delete" -> {[srv EXCEPT ![c.row] = 0]}
    [] c.op = "correlate" -> {srv} \cup {[srv EXCEPT ![r] = 1] : r \in {x \in Rows : srv[x] = 0}}
    [] OTHER -> {srv}

Serve(c) ==
  /\ c \in calls /\ c.stage = "sent"
  /\ \/ /\ Allowed(c) /\ srv' \in Effects(c)
        /\ calls' = (calls \ {c}) \cup
             {[c EXCEPT !.stage = "ok", !.kept = IF c.op \in Lists THEN srv ELSE @]}
     \/ /\ UNCHANGED srv
        /\ calls' = (calls \ {c}) \cup {[c EXCEPT !.stage = "refused"]}
  /\ UNCHANGED <<list, shows, ops, marks, timed, faultsSeen>>

\* How c ends for the page: "lost" whenever the connection breaks.
Ends(c, kind) ==
  /\ c \in calls
  /\ kind = "lost" \/ kind = c.stage
  /\ bad' = (bad \/ kind = "lost" \/ (kind = "refused" /\ c.op \in Lists))
  /\ refused' = (refused \/ (kind = "refused" /\ c.op \notin Lists))

----------------------------------------------------------------------------
\* Mounting, and the answers to lists.

Spins == list \in {"users", "access", "feed"}
First(p) == IF p = "access" THEN "seed" ELSE "list"

\* What holds while no such page is mounted.
NoList ==
  /\ list = "none" /\ srv = Present /\ rows = Absent /\ header = Absent
  /\ fetched = FALSE /\ calls = {} /\ ops = 0 /\ loading = FALSE /\ denied = FALSE
  /\ acting = NoRow /\ form = Closed /\ running = FALSE /\ settle = FALSE
  /\ notice = FALSE /\ clears = 0 /\ overlap = FALSE /\ bad = FALSE /\ refused = FALSE

ClearList ==
  /\ list' = "none" /\ srv' = Present /\ rows' = Absent /\ header' = Absent
  /\ fetched' = FALSE /\ calls' = {} /\ ops' = 0 /\ loading' = FALSE /\ denied' = FALSE
  /\ acting' = NoRow /\ form' = Closed /\ running' = FALSE /\ settle' = FALSE
  /\ notice' = FALSE /\ clears' = 0 /\ overlap' = FALSE /\ bad' = FALSE /\ refused' = FALSE

\* A page fetches its list; users and access do so for administrators only, access
\* after a request to seed the tables.  The Header has its profile by then.
MountList(p, admin) ==
  /\ list = "none" /\ list' = p
  /\ denied' = (p \in {"users", "access", "settings"} /\ ~admin)
  /\ calls' = IF denied' /\ p # "settings" THEN {} ELSE {Request(First(p), NoRow, 0, Absent)}
  /\ loading' = (p \in {"access", "feed", "profile"} \/ (p = "users" /\ admin))
  /\ header' = srv
  /\ UNCHANGED <<srv, rows, fetched, ops, acting, form, running, timed, faultsSeen>>

\* fetchUsers, fetchAllData, fetchIncidents, fetchAssets, fetchFeed, fetchProfile and
\* the effect of Settings after their await.  The profile resets what is being typed
\* and tells the Header.  An error body is as good as the settings to Settings, which
\* shows its form; the access page takes it for its table, and cannot be drawn then.
ListAnswer(c, kind) ==
  /\ c.op = "list" /\ Ends(c, kind)
  /\ rows' = IF kind = "ok" THEN c.kept ELSE rows
  /\ fetched' = (fetched \/ kind = "ok" \/ (list = "settings" /\ kind = "refused"))
  /\ form' = IF kind = "ok" /\ list = "profile" THEN [form EXCEPT !.val = c.kept[Root]] ELSE form
  /\ Then(c, IF kind = "ok" /\ list = "profile" THEN {"header"} ELSE {})
  /\ loading' = FALSE
  /\ denied' = (denied \/ (list = "users" /\ kind # "ok") \/ (list = "access" /\ kind = "refused"))
  /\ acting' = IF list = "access" THEN NoRow ELSE acting
  /\ running' = IF list = "incidents" THEN FALSE ELSE running
  /\ UNCHANGED <<header, timed>>

\* The Header's own fetch, started by profileUpdated.
HeaderAnswer(c, kind) ==
  /\ c.op = "header" /\ Ends(c, kind) /\ Then(c, {})
  /\ header' = IF kind = "ok" THEN c.kept ELSE header
  /\ UNCHANGED <<rows, fetched, marks, timed>>

\* The seed request: the tables are fetched whatever it gave.
SeedAnswer(c, kind) ==
  /\ c.op = "seed" /\ Ends(c, kind) /\ Then(c, {"list"})
  /\ loading' = TRUE
  /\ UNCHANGED <<shows, denied, acting, form, running, timed>>

----------------------------------------------------------------------------
\* Users.

UsersTable == list = "users" /\ ~denied

openAddModal ==
  /\ UsersTable /\ form = Closed
  /\ \E r \in Rows \ {Root}, v \in 1..2 : form' = [mode |-> "add", row |-> r, val |-> v]
  /\ UNCHANGED <<list, srv, shows, calls, ops, loading, denied, acting, running, timed, faultsSeen>>

\* A row of the table, under no modal.
UserRow(r) == UsersTable /\ ~loading /\ form = Closed /\ rows[r] # 0

openEditModal(r) ==
  /\ UserRow(r)
  /\ form' = [mode |-> "edit", row |-> r, val |-> rows[r]]
  /\ UNCHANGED <<list, srv, shows, calls, ops, loading, denied, acting, running, timed, faultsSeen>>

\* Create User or Save Changes; nothing keeps it from being clicked twice.
saveUser ==
  /\ UsersTable /\ form.mode \in {"add", "edit"}
  /\ Asks(IF form.mode = "add" THEN "create" ELSE "put", form.row, form.val)
  /\ UNCHANGED <<list, srv, shows, marks, timed, bad, refused>>

\* Another role chosen in the modal of a user.
TypeRole(v) ==
  /\ UsersTable /\ form.mode = "edit" /\ v # form.val
  /\ form' = [form EXCEPT !.val = v]
  /\ UNCHANGED <<list, srv, shows, calls, ops, loading, denied, acting, running, timed, faultsSeen>>

\* Cancel, or the cross, leaves what was asked in flight.
closeModal ==
  /\ UsersTable /\ form.mode \in {"add", "edit"}
  /\ form' = Closed
  /\ UNCHANGED <<list, srv, shows, calls, ops, loading, denied, acting, running, timed, faultsSeen>>

handleDelete(r) ==
  /\ UserRow(r) /\ r # Root
  /\ Asks("delete", r, 0)
  /\ UNCHANGED <<list, srv, shows, marks, timed, bad, refused>>

UserAnswerNoRefetch(c, kind) ==
  /\ list = "users" /\ c.op \in {"create", "put", "delete"} /\ Ends(c, kind)
  /\ Then(c, {}) /\ UNCHANGED loading
  /\ form' = IF kind = "ok" /\ c.op # "delete" THEN Closed ELSE form
  /\ UNCHANGED <<shows, denied, acting, running, timed>>

\* A change that was accepted closes the modal, whichever is open, and fetches.
UserAnswer(c, kind) ==
  /\ list = "users" /\ c.op \in {"create", "put", "delete"} /\ Ends(c, kind)
  /\ Then(c, IF kind = "ok" THEN {"list"} ELSE {})
  /\ loading' = (loading \/ kind = "ok")
  /\ form' = IF kind = "ok" /\ c.op # "delete" THEN Closed ELSE form
  /\ UNCHANGED <<shows, denied, acting, running, timed>>

----------------------------------------------------------------------------
\* Access review.

AccessTable == list = "access" /\ ~denied /\ ~loading

\* A row whose button can be clicked.
GrantRow(r) == AccessTable /\ rows[r] # 0 /\ acting # r

\* Mark as Reviewed and Rotate Now: one mark for the whole page.
handleReview(r) ==
  /\ GrantRow(r)
  /\ Asks("rotate", r, 2) /\ acting' = r
  /\ UNCHANGED <<list, srv, shows, loading, denied, form, running, timed, bad, refused>>

ReviewAnswer(c, kind) ==
  /\ list = "access" /\ c.op = "rotate" /\ Ends(c, kind)
  /\ Then(c, IF kind = "lost" THEN {} ELSE {"list"})
  /\ loading' = (loading \/ kind # "lost")
  /\ acting' = IF kind = "lost" THEN NoRow ELSE acting
  /\ UNCHANGED <<shows, denied, form, running, timed>>

----------------------------------------------------------------------------
\* Incidents.

\* A card can be taken from the column of its status.
handleDragStart(r) ==
  /\ list = "incidents" /\ form = Closed /\ rows[r] # 0
  /\ form' = [mode |-> "drag", row |-> r, val |-> 0]
  /\ UNCHANGED <<list, srv, shows, calls, ops, loading, denied, acting, running, timed, faultsSeen>>

\* The card is let go elsewhere.
handleDragEnd ==
  /\ list = "incidents" /\ form.mode = "drag"
  /\ form' = Closed
  /\ UNCHANGED <<list, srv, shows, calls, ops, loading, denied, acting, running, timed, faultsSeen>>

\* The card moves at once; nothing moves it back.
handleDrop(v) ==
  /\ list = "incidents" /\ form.mode = "drag"
  /\ Asks("put", form.row, v)
  /\ rows' = [rows EXCEPT ![form.row] = IF @ = 0 THEN 0 ELSE v]
  /\ form' = Closed
  /\ UNCHANGED <<list, srv, header, fetched, loading, denied, acting, running, timed, bad, refused>>

DropAnswer(c, kind) ==
  /\ list = "incidents" /\ c.op = "put" /\ Ends(c, kind) /\ Then(c, {})
  /\ UNCHANGED <<shows, marks, timed>>

handleRunCorrelation ==
  /\ list = "incidents" /\ ~running /\ form = Closed
  /\ Asks("correlate", NoRow, 0) /\ running' = TRUE
  /\ UNCHANGED <<list, srv, shows, loading, denied, acting, form, timed, bad, refused>>

CorrelationAnswer(c, kind) ==
  /\ c.op = "correlate" /\ Ends(c, kind)
  /\ Then(c, IF kind = "lost" THEN {} ELSE {"list"})
  /\ running' = IF kind = "lost" THEN FALSE ELSE running
  /\ UNCHANGED <<shows, loading, denied, acting, form, timed>>

----------------------------------------------------------------------------
\* Assets.

\* The WAF switch sends the opposite of what the row shows.
toggleWaf(r) ==
  /\ list = "assets" /\ rows[r] # 0
  /\ Asks("put", r, 3 - rows[r])
  /\ UNCHANGED <<list, srv, shows, marks, timed, bad, refused>>

ToggleAnswer(c, kind) ==
  /\ list = "assets" /\ c.op = "put" /\ Ends(c, kind)
  /\ Then(c, IF kind = "ok" THEN {"list"} ELSE {})
  /\ UNCHANGED <<shows, marks, timed>>

----------------------------------------------------------------------------
\* Profile.

ProfileCard == list = "profile" /\ ~loading /\ fetched

\* Edit Profile keeps the name of editForm; Cancel takes the profile's again.
EditProfile ==
  /\ ProfileCard
  /\ form' = IF form.mode = "edit" THEN [Closed EXCEPT !.val = rows[Root]]
             ELSE [form EXCEPT !.mode = "edit"]
  /\ UNCHANGED <<list, srv, shows, calls, ops, loading, denied, acting, running, timed, faultsSeen>>

\* Typing a name into the profile.
TypeValue(v) ==
  /\ ProfileCard /\ form.mode = "edit" /\ v # form.val
  /\ form' = [form EXCEPT !.val = v]
  /\ UNCHANGED <<list, srv, shows, calls, ops, loading, denied, acting, running, timed, faultsSeen>>

saveProfile ==
  /\ ProfileCard /\ form.mode = "edit"
  /\ Asks("put", Root, form.val)
  /\ UNCHANGED <<list, srv, shows, marks, timed, bad, refused>>

ProfileAnswer(c, kind) ==
  /\ list = "profile" /\ c.op = "put" /\ Ends(c, kind)
  /\ Then(c, IF kind = "ok" THEN {"list"} ELSE {})
  /\ form' = IF kind = "ok" THEN [form EXCEPT !.mode = "closed"] ELSE form
  /\ UNCHANGED <<shows, loading, denied, acting, running, timed>>

handleAvatarUpload(r) ==
  /\ ProfileCard /\ form.mode = "edit" /\ r # Root
  /\ Asks("avatar", r, 2)
  /\ UNCHANGED <<list, srv, shows, marks, timed, bad, refused>>

\* The new picture goes into the profile as it was when the upload began.
AvatarAnswer(c, kind) ==
  /\ list = "profile" /\ c.op = "avatar" /\ Ends(c, kind)
  /\ Then(c, IF kind = "ok" THEN {"header"} ELSE {})
  /\ rows' = IF kind = "ok" THEN [c.kept EXCEPT ![c.row] = c.val] ELSE rows
  /\ UNCHANGED <<header, fetched, marks, timed>>

----------------------------------------------------------------------------
\* Settings.

SettingsForm == list = "settings" /\ ~denied /\ fetched

saveSettings ==
  /\ SettingsForm /\ ~running
  /\ Asks("creds", NoRow, 0) /\ running' = TRUE
  /\ UNCHANGED <<list, srv, shows, loading, denied, acting, form, timed, bad, refused>>

\* The next credential of those left, or the 500 ms timer.
Next1(c, left) ==
  /\ IF left = {}
     THEN calls' = calls \ {c} /\ settle' = TRUE
     ELSE /\ UNCHANGED settle
          /\ \E r \in left :
               calls' = (calls \ {c}) \cup
                 {Request("rotate", r, 2, [x \in Rows |-> IF x \in left \ {r} THEN 1 ELSE 0])}
  /\ UNCHANGED <<list, srv, shows, ops, marks, notice, clears, overlap>>

\* The list of credentials, then one answer after another; a status is not looked at,
\* a request that throws ends the loop.
SyncAnswer(c, kind) ==
  /\ list = "settings" /\ c.op \in {"creds", "rotate"} /\ Ends(c, kind)
  /\ Next1(c, IF kind = "lost" \/ (c.op = "creds" /\ kind = "refused") THEN {}
              ELSE {r \in Rows : c.kept[r] # 0})

\* The timers: success is announced however the loop ended, and cleared 3 s later.
Settled ==
  /\ settle /\ settle' = FALSE
  /\ running' = FALSE /\ notice' = TRUE /\ clears' = clears + 1
  /\ UNCHANGED <<list, srv, shows, calls, ops, loading, denied, acting, form, faultsSeen>>

ClearNotice ==
  /\ clears > 0 /\ clears' = clears - 1 /\ notice' = FALSE
  /\ UNCHANGED <<list, srv, shows, calls, ops, marks, settle, faultsSeen>>

----------------------------------------------------------------------------
ListOps ==
  \/ openAddModal \/ saveUser \/ closeModal \/ handleDragEnd \/ handleRunCorrelation
  \/ EditProfile \/ saveProfile \/ saveSettings
  \/ \E v \in 1..2 : TypeRole(v) \/ TypeValue(v) \/ handleDrop(v)
  \/ \E r \in Rows : \/ openEditModal(r) \/ handleDelete(r) \/ handleReview(r)
                     \/ handleDragStart(r) \/ toggleWaf(r) \/ handleAvatarUpload(r)

Handled(c, kind) ==
  \/ ListAnswer(c, kind) \/ HeaderAnswer(c, kind) \/ SeedAnswer(c, kind)
  \/ UserAnswer(c, kind) \/ ReviewAnswer(c, kind) \/ DropAnswer(c, kind)
  \/ CorrelationAnswer(c, kind) \/ ToggleAnswer(c, kind) \/ ProfileAnswer(c, kind)
  \/ AvatarAnswer(c, kind) \/ SyncAnswer(c, kind)

\* Every request ends, and timers fire.
ListWork ==
  \/ Settled \/ ClearNotice
  \/ \E c \in calls : Serve(c) \/ \E kind \in {"ok", "refused", "lost"} : Handled(c, kind)

LNext == ListOps \/ ListWork

ListFairness == WF_lVars(ListWork)

LTypeOK ==
  /\ list \in Pages \cup {"none"}
  /\ {srv, rows, header} \subseteq [Rows -> Vals]
  /\ {fetched, loading, denied, running, settle, notice, overlap, bad, refused} \subseteq BOOLEAN
  /\ \A c \in calls : c.n \in 1..(MaxCalls + 1) /\ c.stage \in {"sent", "ok", "refused"}
                      /\ c.row \in Rows \cup {NoRow} /\ c.kept \in [Rows -> Vals]
  /\ ops \in 0..MaxOps /\ clears \in Nat /\ acting \in Rows \cup {NoRow}
  /\ form \in [mode : {"closed", "add", "edit", "drag"}, row : Rows \cup {NoRow}, val : Vals]

Waiting(kinds) == \E c \in calls : c.op \in kinds

\* Unless requests overlapped: at rest a page shows what the server holds (a page that
\* moves a card before the answer needs the answer to be yes), and so does the Header
\* beside the profile; a spinner, a busy row and a running mark are there exactly while
\* their requests are, whatever these come to; and the message that all credentials
\* are rotated is true when no rotation failed.
ListFits ==
  ~overlap =>
    /\ calls = {} /\ fetched /\ ~bad /\ list # "settings" /\ ~(list = "incidents" /\ refused)
         => rows = srv
    /\ list = "profile" /\ calls = {} /\ ~bad => header = srv
    /\ Spins /\ ~denied => (loading <=> Waiting({"list", "seed"}))
    /\ list = "access" /\ fetched => (acting # NoRow <=> calls # {})
    /\ list = "incidents" /\ fetched => (running <=> Waiting({"correlate", "list"}))
    /\ list = "settings" => (running <=> settle \/ Waiting({"creds", "rotate"}))
    /\ notice /\ ~bad /\ ~refused => \A r \in Rows : srv[r] # 1

\* A spinner or a running mark is on; a page has one of them.
Spinning == (loading /\ ~denied) \/ running
====
