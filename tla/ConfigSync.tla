----------------------------- MODULE ConfigSync -----------------------------
(***************************************************************************)
(* Config sync (internal/reconciler/configsync.go) and the loading of      *)
(* manifests at startup (internal/cli/serve.go).  Each round of the        *)
(* scheduler reads application manifests from three sources in turn, "repo"*)
(* (the manifest repository, synced first), "dir" (ConfigDir) and "apps"   *)
(* (applications/ in the clone the stored applications share), compares    *)
(* them with a list of the store taken in between, and registers, updates, *)
(* or tears down and deletes.  The HTTP API changes the store, and people  *)
(* change the sources, between any two steps.                              *)
(*                                                                         *)
(* A manifest is a version of an application (a file that does not parse   *)
(* or validate is as good as none); a row of the store is its source,      *)
(* "manifest" or "api", and the version stored.                            *)
(***************************************************************************)
EXTENDS FiniteSets, Naturals

CONSTANTS
  Apps,
  Versions,
  NoVersion,    \* no file, no manifest
  Placed,       \* the files at the start: source -> application -> version or none
  MaxEdits      \* bound: changes from outside, outages and restarts

Sources == {"repo", "dir", "apps"}
Files == Versions \cup {NoVersion}
NoRow == [source |-> "none", manifest |-> NoVersion]
Rows == {NoRow} \cup [source : {"manifest", "api"}, manifest : Versions]

ASSUME ConfigAssumption ==
  /\ NoVersion \notin Versions
  /\ Placed \in [Sources -> [Apps -> Files]]
  /\ MaxEdits \in Nat

VARIABLES
  content,      \* source -> application -> version or none
  readable,     \* source -> it can be synced and read
  rows,         \* the store: application -> row
  up,           \* applications whose containers run
  sync,         \* the round: pc, diskApps, storeApps and the names still to visit
  gap,          \* history: applications each source was without at some time of the round
  outage,       \* history: sources that were unreadable at some time of the round
  edits

configVars == <<content, readable, rows, up, sync, gap, outage, edits>>
sourceVars == <<content, readable>>

NoFiles == [a \in Apps |-> NoVersion]
NoRows == [a \in Apps |-> NoRow]
BetweenRounds == [pc |-> "idle", disk |-> NoFiles, listed |-> NoRows, todo |-> {},
                  removing |-> {}]
Missing(c) == [s \in Sources |-> {a \in Apps : c[s][a] = NoVersion}]

ConfigTypeOK ==
  /\ content \in [Sources -> [Apps -> Files]]
  /\ readable \in [Sources -> BOOLEAN]
  /\ rows \in [Apps -> Rows]
  /\ up \subseteq Apps
  /\ sync \in [pc : {"idle", "dir", "list", "apps", "register", "remove"},
               disk : [Apps -> Files], listed : [Apps -> Rows], todo : SUBSET Apps,
               removing : SUBSET Apps]
  /\ gap \in [Sources -> SUBSET Apps] /\ outage \subseteq Sources
  /\ edits \in 0 .. MaxEdits

\* loadApplicationManifests: an application with a file in ConfigDir becomes
\* manifest-sourced with that file's content.  A directory that cannot be read loads none.
Loaded(r, files) ==
  [a \in Apps |-> IF files[a] = NoVersion THEN r[a]
                  ELSE [source |-> "manifest", manifest |-> files[a]]]

ConfigInit ==
  /\ content = Placed /\ readable = [s \in Sources |-> TRUE]
  /\ rows = Loaded(NoRows, Placed["dir"]) /\ up = {}
  /\ sync = BetweenRounds
  /\ gap = Missing(Placed) /\ outage = {} /\ edits = 0

-----------------------------------------------------------------------------
(* Around config sync. *)

Edit == edits < MaxEdits /\ edits' = edits + 1

SetFile(s, a, v) ==
  /\ Edit /\ content[s][a] # v
  /\ content' = [content EXCEPT ![s][a] = v]
  /\ gap' = [gap EXCEPT ![s] = IF v = NoVersion THEN @ \cup {a} ELSE @]
  /\ UNCHANGED <<readable, rows, up, sync, outage>>

\* The remote does not answer, or the directory cannot be read.
SourceFails(s) ==
  /\ Edit /\ readable[s]
  /\ readable' = [readable EXCEPT ![s] = FALSE]
  /\ outage' = outage \cup {s}
  /\ UNCHANGED <<content, rows, up, sync, gap>>

SourceRecovers(s) ==
  /\ ~readable[s]
  /\ readable' = [readable EXCEPT ![s] = TRUE]
  /\ UNCHANGED <<content, rows, up, sync, gap, outage, edits>>

ApiCreates(a, v) ==
  /\ Edit /\ rows[a] = NoRow
  /\ rows' = [rows EXCEPT ![a] = [source |-> "api", manifest |-> v]]
  /\ UNCHANGED <<sourceVars, up, sync, gap, outage>>

\* PUT replaces the manifest whatever the row's source, and leaves the source.
ApiUpdates(a, v) ==
  /\ Edit /\ rows[a] # NoRow /\ rows[a].manifest # v
  /\ rows' = [rows EXCEPT ![a].manifest = v]
  /\ UNCHANGED <<sourceVars, up, sync, gap, outage>>

\* DELETE removes the row and leaves the containers.
ApiDeletes(a) ==
  /\ Edit /\ rows[a] # NoRow
  /\ rows' = [rows EXCEPT ![a] = NoRow]
  /\ UNCHANGED <<sourceVars, up, sync, gap, outage>>

\* A reconciliation deploys what the store holds.
Deploys(a) ==
  /\ rows[a] # NoRow /\ a \notin up
  /\ up' = up \cup {a}
  /\ UNCHANGED <<sourceVars, rows, sync, gap, outage, edits>>

\* The process stops anywhere in a round and serve starts again.
Restart ==
  /\ Edit
  /\ rows' = IF readable["dir"] THEN Loaded(rows, content["dir"]) ELSE rows
  /\ sync' = BetweenRounds
  /\ UNCHANGED <<sourceVars, up, gap, outage>>

-----------------------------------------------------------------------------
(* syncConfigManifests. *)

\* Mutant: a scan replaces what the sources before it gave.
ScannedAlone(disk, s) == IF readable[s] THEN content[s] ELSE disk

\* scanManifestDir into diskApps: a file replaces what an earlier source said; a source
\* that cannot be read adds nothing.
Scanned(disk, s) ==
  [a \in Apps |-> IF readable[s] /\ content[s][a] # NoVersion THEN content[s][a] ELSE disk[a]]

\* Source 0, which opens the round.
SyncManifestRepo ==
  /\ sync.pc = "idle"
  /\ sync' = [sync EXCEPT !.pc = "dir", !.disk = Scanned(NoFiles, "repo")]
  /\ gap' = Missing(content)
  /\ outage' = {s \in Sources : ~readable[s]}
  /\ UNCHANGED <<sourceVars, rows, up, edits>>

ScanConfigDir ==
  /\ sync.pc = "dir"
  /\ sync' = [sync EXCEPT !.pc = "list", !.disk = Scanned(@, "dir")]
  /\ UNCHANGED <<sourceVars, rows, up, gap, outage, edits>>

\* ListApplications, whose result serves until the end of the round; its failure ends it.
ListStore ==
  /\ sync.pc = "list"
  /\ \/ sync' = [sync EXCEPT !.pc = "apps", !.listed = rows] /\ UNCHANGED edits
     \/ Edit /\ sync' = BetweenRounds
  /\ UNCHANGED <<sourceVars, rows, up, gap, outage>>

\* Source 2: only when a listed application refers to the repository.
ScanAppRepos ==
  /\ sync.pc = "apps"
  /\ LET disk == IF sync.listed = NoRows THEN sync.disk ELSE Scanned(sync.disk, "apps")
     IN sync' = [sync EXCEPT !.pc = "register", !.disk = disk,
                             !.todo = {a \in Apps : disk[a] # NoVersion}]
  /\ UNCHANGED <<sourceVars, rows, up, gap, outage, edits>>

\* Mutant: an application the list did not have is not registered.
RegisterNothing(a) ==
  /\ sync.pc = "register" /\ a \in sync.todo
  /\ sync' = [sync EXCEPT !.todo = @ \ {a}]
  /\ rows' = [rows EXCEPT ![a].manifest =
                IF rows[a].source = "manifest" THEN sync.disk[a] ELSE @]
  /\ UNCHANGED <<sourceVars, up, gap, outage, edits>>

\* One turn of the registration loop.  CreateApplication fails on a name the API has
\* taken since; UpdateManifest changes whatever row has the name by then.
RegisterOrUpdate(a) ==
  /\ sync.pc = "register" /\ a \in sync.todo
  /\ sync' = [sync EXCEPT !.todo = @ \ {a}]
  /\ rows' =
       IF sync.listed[a] = NoRow
       THEN [rows EXCEPT ![a] =
               IF @ = NoRow THEN [source |-> "manifest", manifest |-> sync.disk[a]] ELSE @]
       ELSE IF sync.listed[a].source = "manifest" /\ sync.listed[a].manifest # sync.disk[a]
            THEN [rows EXCEPT ![a].manifest = IF rows[a] = NoRow THEN @ ELSE sync.disk[a]]
            ELSE rows
  /\ UNCHANGED <<sourceVars, up, gap, outage, edits>>

RegistrationDone ==
  /\ sync.pc = "register" /\ sync.todo = {}
  /\ sync' = [sync EXCEPT !.pc = "remove",
                !.todo = {a \in Apps : /\ sync.listed[a].source = "manifest"
                                       /\ sync.disk[a] = NoVersion}]
  /\ UNCHANGED <<sourceVars, rows, up, gap, outage, edits>>

\* tearDownApp: Down, whose failure is only logged.
TearDownApp(a) ==
  /\ sync.pc = "remove" /\ a \in sync.todo /\ sync.removing = {}
  /\ \/ up' = up \ {a} /\ UNCHANGED edits
     \/ Edit /\ a \in up /\ UNCHANGED up
  /\ sync' = [sync EXCEPT !.todo = @ \ {a}, !.removing = {a}]
  /\ UNCHANGED <<sourceVars, rows, gap, outage>>

\* DeleteApplication, of whatever row has the name by then, and RemoveApp.
DeleteRemoved(a) ==
  /\ a \in sync.removing
  /\ \/ rows' = [rows EXCEPT ![a] = NoRow] /\ UNCHANGED edits
     \/ Edit /\ UNCHANGED rows
  /\ sync' = [sync EXCEPT !.removing = {}]
  /\ UNCHANGED <<sourceVars, up, gap, outage>>

RoundDone ==
  /\ sync.pc = "remove" /\ sync.todo = {} /\ sync.removing = {}
  /\ sync' = BetweenRounds
  /\ UNCHANGED <<sourceVars, rows, up, gap, outage, edits>>

-----------------------------------------------------------------------------

RoundStep ==
  \/ SyncManifestRepo \/ ScanConfigDir \/ ListStore \/ ScanAppRepos
  \/ \E a \in Apps : RegisterOrUpdate(a)
  \/ RegistrationDone
  \/ \E a \in Apps : TearDownApp(a) \/ DeleteRemoved(a)
  \/ RoundDone

ConfigNext ==
  \/ \E s \in Sources : \/ \E a \in Apps, v \in Files : SetFile(s, a, v)
                        \/ SourceFails(s) \/ SourceRecovers(s)
  \/ \E a \in Apps : \/ \E v \in Versions : ApiCreates(a, v) \/ ApiUpdates(a, v)
                     \/ ApiDeletes(a) \/ Deploys(a)
  \/ Restart
  \/ RoundStep

\* The scheduler runs a round at every tick, and an outage ends.
ConfigFairness ==
  /\ WF_configVars(RoundStep)
  /\ \A s \in Sources : WF_configVars(SourceRecovers(s))

ConfigSpec == ConfigInit /\ [][ConfigNext]_configVars /\ ConfigFairness

-----------------------------------------------------------------------------
(* Properties. *)

\* Containers of an application are torn down only by a round in which each source was
\* without its manifest or unreadable at some time: a manifest that stays in one
\* readable source keeps its application, whatever happens to the others
\* (configsync.go:154).
KeptWhileReadable ==
  [][\A a \in up \ up' : \A s \in Sources : a \in gap[s] \/ s \in outage]_configVars

\* What the last source that has a manifest for `a' says.
Effective(a) ==
  IF rows # NoRows /\ content["apps"][a] # NoVersion THEN content["apps"][a]
  ELSE IF content["dir"][a] # NoVersion THEN content["dir"][a] ELSE content["repo"][a]

\* Once nobody changes anything the store agrees with the sources, from any restart, outage
\* and use of the API in the middle of a round: every manifest has its row, and a row
\* from a manifest has the content of its file and goes when the file is gone
\* (configsync.go:114).
StoreFollowsSources ==
  <>[](\A a \in Apps :
         /\ Effective(a) # NoVersion => rows[a] # NoRow
         /\ rows[a].source = "manifest" => rows[a].manifest = Effective(a))

\* The comment of syncConfigManifests (configsync.go:61): "Manifest-sourced apps whose
\* files have been removed from all sources are torn down and deleted from the store."
\* Violated: an application whose file is in the manifest repository all the time is torn
\* down when one Sync of that repository fails (configsync.go:43).
OnlyRemovedIsTornDown ==
  [][\A a \in up \ up' : \A s \in Sources : a \in gap[s]]_configVars

\* Does not hold: a round leaves the applications of the API alone.  One deleted and
\* created again through the API after ListStore is still on the round's list
\* (configsync.go:79).
ApiRowsAreKept ==
  [][RoundStep => \A a \in Apps : rows[a].source = "api" => rows'[a] = rows[a]]_configVars

\* Does not hold: an application without a row has no containers once things are quiet.
\* A failed Down is not tried again (configsync.go:242), and a DELETE of the API never
\* calls it.
NothingLeftRunning == <>[](\A a \in up : rows[a] # NoRow)
=============================================================================
