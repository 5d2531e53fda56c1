---------------------------- MODULE DaemonProofs -----------------------------
(***************************************************************************)
(* Proofs about four of the daemon's background parts: the circuit breaker *)
(* of a reconciliation, config sync, the image poller and the event        *)
(* watcher.                                                                *)
(***************************************************************************)
EXTENDS CircuitBreaker, ConfigSync, ImagePoller, EventWatcher, TLAPS

-----------------------------------------------------------------------------
(* CircuitBreaker, for every maxFailures. *)

\* What ties the history of outcomes to the breaker: a streak during which
\* RecordSuccess was not called is counted in full, and a breaker that is left
\* half-open was left so by a reconciliation that did not fail.
BreakerInv ==
  /\ TypeOK
  /\ ClosedBelowLimit
  /\ ~reset => streak =< failureCount
  /\ state = "half-open" /\ attempt = "none" => streak = 0

\* BreakerInv is inductive.
LEMMA BreakerInvariant == Spec => []BreakerInv
<1> USE BreakerAssumption DEF BreakerInv, TypeOK, ClosedBelowLimit
<1>1. Init => BreakerInv
  <2>1. Init => cooled \in BOOLEAN /\ reset \in BOOLEAN
    BY Zenon DEF Init
  <2>2. Init => /\ state = "closed" /\ failureCount = 0 /\ attempt = "none" /\ streak = 0
    BY DEF Init
  <2> QED
    BY <2>1, <2>2
<1>2. BreakerInv /\ [Next]_vars => BreakerInv'
  <2> SUFFICES ASSUME BreakerInv, [Next]_vars PROVE BreakerInv'
    OBVIOUS
  <2>1. CASE ResetTimeoutPasses
    BY <2>1 DEF ResetTimeoutPasses
  <2>2. CASE AllowAttempt
    BY <2>2 DEF AllowAttempt
  <2>3. CASE AttemptFails
    <3>1. TypeOK'
      <4>1. cooled' \in BOOLEAN /\ reset' \in BOOLEAN
        BY <2>3, Zenon DEF AttemptFails, RecordFailure
      <4>2. /\ state' \in {"closed", "open", "half-open"}
            /\ failureCount' \in Nat /\ streak' \in Nat
            /\ attempt' \in {"none", "running"}
        BY <2>3 DEF AttemptFails, RecordFailure
      <4> QED
        BY <4>1, <4>2
    <3>2. ClosedBelowLimit'
      BY <2>3 DEF AttemptFails, RecordFailure
    <3>3. /\ ~reset' => streak' =< failureCount'
          /\ state' # "half-open"
      BY <2>3 DEF AttemptFails, RecordFailure
    <3> QED
      BY <3>1, <3>2, <3>3
  <2>4. CASE AttemptSucceeds
    <3>1. cooled' \in BOOLEAN /\ reset' \in BOOLEAN
      BY <2>4, Zenon DEF AttemptSucceeds, RecordSuccess
    <3>2. /\ attempt' = "none" /\ streak' = 0
          /\ state' = "closed" /\ failureCount' = 0
      BY <2>4 DEF AttemptSucceeds, RecordSuccess
    <3> QED
      BY <3>1, <3>2
  <2>5. CASE AttemptSkips
    <3>1. cooled' \in BOOLEAN /\ reset' \in BOOLEAN
      BY <2>5, Zenon DEF AttemptSkips
    <3>2. /\ attempt' = "none" /\ streak' = 0
          /\ state' = state /\ failureCount' = failureCount
      BY <2>5 DEF AttemptSkips
    <3> QED
      BY <3>1, <3>2
  <2>6. CASE BlueGreenFails
    <3>1. TypeOK'
      <4>1. cooled' \in BOOLEAN /\ reset' \in BOOLEAN
        BY <2>6, Zenon DEF BlueGreenFails, RecordFailure
      <4>2. /\ state' \in {"closed", "open", "half-open"}
            /\ failureCount' \in Nat /\ streak' \in Nat
            /\ attempt' \in {"none", "running"}
        BY <2>6 DEF BlueGreenFails, RecordFailure
      <4> QED
        BY <4>1, <4>2
    <3>2. ClosedBelowLimit'
      BY <2>6 DEF BlueGreenFails, RecordFailure
    <3>3. /\ ~reset' => streak' =< failureCount'
          /\ state' # "half-open"
      BY <2>6 DEF BlueGreenFails, RecordFailure
    <3> QED
      BY <3>1, <3>2, <3>3
  <2>7. CASE UNCHANGED vars
    BY <2>7 DEF vars
  <2> QED
    BY <2>1, <2>2, <2>3, <2>4, <2>5, <2>6, <2>7 DEF Next
<1> QED
  BY <1>1, <1>2, PTL DEF Spec

\* The breaker is closed exactly while its count is below the limit, whatever
\* the deployment strategy and the order of outcomes.
THEOREM ClosedExactlyBelowLimit == Spec => []ClosedBelowLimit
  BY BreakerInvariant, PTL DEF BreakerInv

\* maxFailures failures in a row stop every reconciliation until resetTimeout
\* has passed, unless a blue-green inspection failed among them.
THEOREM BackOff == Spec => NoRunaway
<1>1. BreakerInv /\ [Next]_vars =>
        [attempt = "none" /\ attempt' = "running" /\ streak >= MaxFailures /\ ~reset
           => cooled]_vars
  <2> SUFFICES ASSUME BreakerInv, Next, attempt = "none", attempt' = "running",
                      streak >= MaxFailures, ~reset
               PROVE  cooled
    BY DEF vars
  <2>1. AllowAttempt
    BY DEF Next, ResetTimeoutPasses, AttemptFails, AttemptSucceeds, AttemptSkips, BlueGreenFails
  <2>2. state # "closed" /\ state # "half-open"
    BY BreakerAssumption DEF BreakerInv, TypeOK, ClosedBelowLimit
  <2> QED
    BY <2>1, <2>2 DEF AllowAttempt, BreakerInv, TypeOK
<1> QED
  BY <1>1, BreakerInvariant, PTL DEF Spec, NoRunaway

-----------------------------------------------------------------------------
(* ConfigSync. *)

\* The sources whose scan this round has behind it.  A round whose list of the store is
\* empty skips "apps".
Past(s) ==
  CASE s = "repo" -> sync.pc # "idle"
    [] s = "dir" -> sync.pc \in {"list", "apps", "register", "remove"}
    [] OTHER -> sync.pc \in {"register", "remove"} /\ sync.listed # NoRows

RoundStates == [pc : {"idle", "dir", "list", "apps", "register", "remove"},
               disk : [Apps -> Files], listed : [Apps -> Rows], todo : SUBSET Apps,
               removing : SUBSET Apps]

\* gap and outage miss nothing: what is missing or unreadable now is in them.  An
\* application that a scanned source did not give was missing there or the source was
\* unreadable, and what the round removes no scanned source gave.
RoundInv ==
  /\ ConfigTypeOK
  /\ \A s \in Sources : ~readable[s] => s \in outage
  /\ \A s \in Sources, a \in Apps : content[s][a] = NoVersion => a \in gap[s]
  /\ \A s \in Sources, a \in Apps :
       Past(s) /\ sync.disk[a] = NoVersion => a \in gap[s] \/ s \in outage
  /\ sync.pc = "register" => \A a \in sync.todo : sync.disk[a] # NoVersion
  /\ sync.pc = "remove" =>
       \A a \in sync.todo : sync.listed[a].source = "manifest" /\ sync.disk[a] = NoVersion

\* The rows and files the steps build are of their types.
LEMMA RowFacts ==
  /\ NoRow \in Rows /\ NoRows \in [Apps -> Rows] /\ NoFiles \in [Apps -> Files]
  /\ \A v \in Versions : /\ [source |-> "manifest", manifest |-> v] \in Rows
                         /\ [source |-> "api", manifest |-> v] \in Rows
  BY DEF Rows, NoRow, NoRows, NoFiles, Files

\* scanManifestDir keeps diskApps a map from applications to files.
LEMMA ScannedType ==
  ASSUME ConfigTypeOK, NEW disk \in [Apps -> Files], NEW s \in Sources
  PROVE  Scanned(disk, s) \in [Apps -> Files]
  BY DEF Scanned, ConfigTypeOK

\* loadApplicationManifests keeps the rows well-formed.
LEMMA LoadedType ==
  ASSUME NEW r \in [Apps -> Rows], NEW files \in [Apps -> Files]
  PROVE  Loaded(r, files) \in [Apps -> Rows]
<1>1. \A a \in Apps : files[a] # NoVersion => files[a] \in Versions
  BY DEF Files
<1> QED
  BY <1>1, RowFacts, Zenon DEF Loaded

\* So does the end of a round.
LEMMA BetweenType == BetweenRounds \in RoundStates
  BY RowFacts DEF BetweenRounds, RoundStates

\* RoundInv holds when serve starts.
LEMMA RoundInit == ConfigInit => RoundInv
<1> SUFFICES ASSUME ConfigInit PROVE RoundInv
  OBVIOUS
<1> USE ConfigAssumption
<1>1. ConfigTypeOK
  <2>1. Placed["dir"] \in [Apps -> Files]
    BY DEF Sources
  <2>2. rows \in [Apps -> Rows]
    BY <2>1, RowFacts, LoadedType DEF ConfigInit
  <2> QED
    BY <2>2, BetweenType DEF ConfigInit, ConfigTypeOK, RoundStates, Missing
<1>2. \A s \in Sources : readable[s] /\ ~Past(s)
  BY DEF ConfigInit, BetweenRounds, Past, Sources
<1>3. \A s \in Sources, a \in Apps : content[s][a] = NoVersion => a \in gap[s]
  BY DEF ConfigInit, Missing
<1>4. sync.pc = "idle"
  BY DEF ConfigInit, BetweenRounds
<1> QED
  BY <1>1, <1>2, <1>3, <1>4 DEF RoundInv

\* Edits of the sources, outages, the API, deployments and restarts keep RoundInv.
LEMMA AroundKeepsRoundInv ==
  ASSUME RoundInv,
         \/ \E s \in Sources : \/ \E a \in Apps, v \in Files : SetFile(s, a, v)
                               \/ SourceFails(s) \/ SourceRecovers(s)
         \/ \E a \in Apps : \/ \E v \in Versions : ApiCreates(a, v) \/ ApiUpdates(a, v)
                            \/ ApiDeletes(a) \/ Deploys(a)
         \/ Restart
  PROVE  RoundInv'
<1> USE ConfigAssumption DEF RoundInv, ConfigTypeOK, RoundStates, Edit, sourceVars
<1>1. ASSUME NEW s \in Sources, NEW a \in Apps, NEW v \in Files, SetFile(s, a, v)
      PROVE  RoundInv'
  BY <1>1 DEF SetFile, Past
<1>2. ASSUME NEW s \in Sources, SourceFails(s) PROVE RoundInv'
  BY <1>2 DEF SourceFails, Past
<1>3. ASSUME NEW s \in Sources, SourceRecovers(s) PROVE RoundInv'
  BY <1>3 DEF SourceRecovers, Past
<1>4. ASSUME NEW a \in Apps, NEW v \in Versions, ApiCreates(a, v) PROVE RoundInv'
  <2>1. rows' \in [Apps -> Rows]
    BY <1>4, RowFacts, Zenon DEF ApiCreates
  <2> QED
    BY <1>4, <2>1 DEF ApiCreates, Past
<1>5. ASSUME NEW a \in Apps, NEW v \in Versions, ApiUpdates(a, v) PROVE RoundInv'
  <2>1. rows' \in [Apps -> Rows]
    <3>1. rows[a] \in [source : {"manifest", "api"}, manifest : Versions]
      BY <1>5, Zenon DEF ApiUpdates, Rows
    <3>2. [rows[a] EXCEPT !.manifest = v] \in Rows
      BY <3>1, Zenon DEF Rows
    <3>3. rows' = [rows EXCEPT ![a] = [rows[a] EXCEPT !.manifest = v]]
      BY <1>5, Zenon DEF ApiUpdates
    <3> QED
      BY <3>2, <3>3, Zenon
  <2> QED
    BY <1>5, <2>1 DEF ApiUpdates, Past
<1>6. ASSUME NEW a \in Apps, ApiDeletes(a) PROVE RoundInv'
  BY <1>6, RowFacts DEF ApiDeletes, Past
<1>7. ASSUME NEW a \in Apps, Deploys(a) PROVE RoundInv'
  BY <1>7 DEF Deploys, Past
<1>8. CASE Restart
  <2>1. rows' \in [Apps -> Rows]
    BY <1>8, LoadedType DEF Restart, Sources
  <2>2. \A s \in Sources : ~Past(s)'
    BY <1>8 DEF Restart, BetweenRounds, Past, Sources
  <2>3. sync'.pc = "idle"
    BY <1>8, Zenon DEF Restart, BetweenRounds
  <2> QED
    BY <1>8, <2>1, <2>2, <2>3, BetweenType DEF Restart
<1> QED
  BY <1>1, <1>2, <1>3, <1>4, <1>5, <1>6, <1>7, <1>8, Zenon

\* The steps of syncConfigManifests keep RoundInv.
LEMMA RoundKeepsRoundInv == RoundInv /\ RoundStep => RoundInv'
<1> SUFFICES ASSUME RoundInv, RoundStep PROVE RoundInv'
  OBVIOUS
<1> USE ConfigAssumption DEF RoundInv, ConfigTypeOK, RoundStates, Edit, sourceVars
<1>1. CASE SyncManifestRepo
  <2>1. Scanned(NoFiles, "repo") \in [Apps -> Files]
    BY RowFacts, ScannedType DEF Sources
  <2>2. \A a \in Apps : Scanned(NoFiles, "repo")[a] = NoVersion =>
                          a \in Missing(content)["repo"] \/ ~readable["repo"]
    BY DEF Scanned, Missing, Sources
  <2> QED
    BY <1>1, <2>1, <2>2, Zenon DEF SyncManifestRepo, Past, Missing, Sources
<1>2. CASE ScanConfigDir
  <2>1. Scanned(sync.disk, "dir") \in [Apps -> Files]
    BY RowFacts, ScannedType DEF Sources
  <2>2. \A a \in Apps : Scanned(sync.disk, "dir")[a] = NoVersion =>
                          /\ sync.disk[a] = NoVersion
                          /\ a \in gap["dir"] \/ "dir" \in outage
    BY DEF Scanned, Sources
  <2> QED
    BY <1>2, <2>1, <2>2, ZenonT(60) DEF ScanConfigDir, Past, Sources
<1>3. CASE ListStore
  <2>1. CASE sync' = BetweenRounds
    <3>1. \A s \in Sources : ~Past(s)'
      BY <2>1 DEF BetweenRounds, Past, Sources
    <3>2. sync'.pc = "idle"
      BY <2>1 DEF BetweenRounds
    <3> QED
      BY <1>3, <2>1, <3>1, <3>2, BetweenType DEF ListStore
  <2>2. CASE sync' = [sync EXCEPT !.pc = "apps", !.listed = rows]
    <3>1. /\ sync' \in RoundStates
          /\ sync'.pc = "apps" /\ sync'.disk = sync.disk
      BY <2>2, Zenon
    <3>2. \A s \in Sources : Past(s)' => Past(s)
      BY <1>3, <3>1 DEF ListStore, Past, Sources
    <3> QED
      BY <1>3, <2>2, <3>1, <3>2 DEF ListStore
  <2> QED
    BY <1>3, <2>1, <2>2 DEF ListStore
<1>4. CASE ScanAppRepos
  <2> DEFINE disk == IF sync.listed = NoRows THEN sync.disk ELSE Scanned(sync.disk, "apps")
  <2>1. disk \in [Apps -> Files]
    BY RowFacts, ScannedType, Zenon DEF Sources
  <2>2. \A a \in Apps : disk[a] = NoVersion =>
                          /\ sync.disk[a] = NoVersion
                          /\ \/ a \in gap["apps"] \/ "apps" \in outage
                             \/ sync.listed = NoRows
    BY DEF Scanned, Sources
  <2>3. /\ sync' = [sync EXCEPT !.pc = "register", !.disk = disk,
                             !.todo = {a \in Apps : disk[a] # NoVersion}]
        /\ sync.pc = "apps"
    BY <1>4 DEF ScanAppRepos
  <2> HIDE DEF disk
  <2> QED
    <3>1. /\ sync' \in RoundStates
          /\ sync'.pc = "register" /\ sync'.disk = disk /\ sync'.listed = sync.listed
          /\ sync'.todo = {a \in Apps : disk[a] # NoVersion}
      BY <2>1, <2>3, Zenon
    <3>2. \A s \in Sources : Past(s)' => Past(s) \/ (s = "apps" /\ sync.listed # NoRows)
      BY <2>3, <3>1, Zenon DEF Past, Sources
    <3>3. UNCHANGED <<content, readable, rows, up, gap, outage, edits>>
      BY <1>4 DEF ScanAppRepos
    <3> QED
      BY <2>2, <3>1, <3>2, <3>3
<1>5. ASSUME NEW a \in Apps, RegisterOrUpdate(a) PROVE RoundInv'
  <2>1. sync.disk[a] \in Versions
    BY <1>5 DEF RegisterOrUpdate, Files
  <2>2. rows' \in [Apps -> Rows]
    <3>1. \A r \in Rows : r # NoRow => [r EXCEPT !.manifest = sync.disk[a]] \in Rows
      BY <2>1 DEF Rows
    <3>2. rows[a] \in Rows /\ [rows[a] EXCEPT !.manifest = rows[a].manifest] = rows[a]
      BY DEF Rows, NoRow
    <3>3. CASE sync.listed[a] = NoRow
      BY <1>5, <2>1, <3>3, RowFacts, Zenon DEF RegisterOrUpdate
    <3>4. CASE sync.listed[a] # NoRow
      BY <1>5, <3>1, <3>2, <3>4 DEF RegisterOrUpdate
    <3> QED
      BY <3>3, <3>4
  <2> QED
    BY <1>5, <2>2, Zenon DEF RegisterOrUpdate, Past
<1>6. CASE RegistrationDone
  BY <1>6, Zenon DEF RegistrationDone, Past
<1>7. ASSUME NEW a \in Apps, TearDownApp(a) PROVE RoundInv'
  <2>1. /\ sync' \in RoundStates
        /\ sync.pc = "remove" /\ sync'.pc = "remove" /\ sync'.todo \subseteq sync.todo
        /\ sync'.disk = sync.disk /\ sync'.listed = sync.listed
    BY <1>7, Zenon DEF TearDownApp
  <2>2. UNCHANGED <<content, readable, rows, gap, outage>> /\ up' \subseteq up
    BY <1>7 DEF TearDownApp
  <2>3. edits' \in 0 .. MaxEdits
    BY <1>7 DEF TearDownApp
  <2>4. \A s \in Sources : Past(s)' => Past(s)
    BY <2>1 DEF Past, Sources
  <2> QED
    BY <2>1, <2>2, <2>3, <2>4, Zenon
<1>8. ASSUME NEW a \in Apps, DeleteRemoved(a) PROVE RoundInv'
  <2>1. /\ sync' \in RoundStates
        /\ sync'.pc = sync.pc /\ sync'.todo = sync.todo
        /\ sync'.disk = sync.disk /\ sync'.listed = sync.listed
    BY <1>8, Zenon DEF DeleteRemoved
  <2>2. UNCHANGED <<content, readable, up, gap, outage>> /\ rows' \in [Apps -> Rows]
    BY <1>8, RowFacts, SMTT(60) DEF DeleteRemoved
  <2>3. edits' \in 0 .. MaxEdits
    BY <1>8 DEF DeleteRemoved
  <2>4. \A s \in Sources : Past(s)' => Past(s)
    BY <2>1 DEF Past, Sources
  <2> QED
    BY <2>1, <2>2, <2>3, <2>4, Zenon
<1>9. CASE RoundDone
  <2>1. \A s \in Sources : ~Past(s)'
    BY <1>9 DEF RoundDone, BetweenRounds, Past, Sources
  <2>2. sync'.pc = "idle"
    BY <1>9, Zenon DEF RoundDone, BetweenRounds
  <2> QED
    BY <1>9, <2>1, <2>2, BetweenType, Zenon DEF RoundDone
<1> QED
  BY <1>1, <1>2, <1>3, <1>4, <1>5, <1>6, <1>7, <1>8, <1>9, Zenon DEF RoundStep

\* RoundInv is an invariant: config sync knows of each application it removes that every
\* source it has scanned was without it or unreadable.
THEOREM RoundsAreConsistent == ConfigSpec => []RoundInv
<1>1. RoundInv /\ [ConfigNext]_configVars => RoundInv'
  <2> SUFFICES ASSUME RoundInv, [ConfigNext]_configVars PROVE RoundInv'
    OBVIOUS
  <2>1. CASE UNCHANGED configVars
    BY <2>1 DEF RoundInv, ConfigTypeOK, Past, configVars
  <2>2. CASE RoundStep
    BY <2>2, RoundKeepsRoundInv
  <2> QED
    BY <2>1, <2>2, AroundKeepsRoundInv DEF ConfigNext
<1> QED
  BY <1>1, RoundInit, PTL DEF ConfigSpec

\* A step that takes containers down is TearDownApp of an application that no source gave,
\* and the store listed it, so that "apps" was scanned too.
LEMMA TearDownHasCause ==
  ASSUME RoundInv, [ConfigNext]_configVars, NEW a \in up \ up', NEW s \in Sources
  PROVE  a \in gap[s] \/ s \in outage
<1>1. TearDownApp(a)
  <2>1. ASSUME NEW b \in Apps, TearDownApp(b) PROVE TearDownApp(a)
    BY <2>1, Zenon DEF TearDownApp
  <2> QED
    BY <2>1, Zenon DEF ConfigNext, RoundStep, configVars, SetFile, SourceFails, SourceRecovers,
       ApiCreates, ApiUpdates, ApiDeletes, Deploys, Restart, SyncManifestRepo, ScanConfigDir,
       ListStore, ScanAppRepos, RegisterOrUpdate, RegistrationDone, DeleteRemoved, RoundDone
<1>2. /\ sync.pc = "remove" /\ sync.disk[a] = NoVersion
      /\ sync.listed[a].source = "manifest" /\ a \in Apps
  BY <1>1 DEF TearDownApp, RoundInv, ConfigTypeOK
<1>3. sync.listed # NoRows
  BY <1>2 DEF NoRows, NoRow
<1> QED
  BY <1>2, <1>3 DEF RoundInv, Past, Sources

\* syncConfigManifests tears an application down only when each of the three sources was
\* without its manifest, or unreadable, at some time of the round.
THEOREM ManifestsKeepTheirApps == ConfigSpec => KeptWhileReadable
<1>1. RoundInv /\ [ConfigNext]_configVars =>
        [\A a \in up \ up' : \A s \in Sources : a \in gap[s] \/ s \in outage]_configVars
  BY TearDownHasCause
<1> QED
  BY <1>1, RoundsAreConsistent, PTL DEF ConfigSpec, KeptWhileReadable

\* What a round that only scanned the manifest repository and ConfigDir has for `a'.
FromFirstTwo(a) == IF content["dir"][a] # NoVersion THEN content["dir"][a] ELSE content["repo"][a]

\* The store agrees with the sources, and the round that may be under way has read nothing else.
InAgreement ==
  /\ \A s \in Sources : readable[s]
  /\ \A a \in Apps : /\ Effective(a) # NoVersion => rows[a] # NoRow
                     /\ rows[a].source = "manifest" => rows[a].manifest = Effective(a)
  /\ sync.removing = {}
  /\ sync.pc = "dir" => \A a \in Apps : sync.disk[a] = content["repo"][a]
  /\ sync.pc \in {"list", "apps"} => \A a \in Apps : sync.disk[a] = FromFirstTwo(a)
  /\ sync.pc \in {"apps", "register"} => sync.listed = rows
  /\ sync.pc = "register" => \A a \in Apps : sync.disk[a] = Effective(a)
  /\ sync.pc = "remove" => sync.todo = {}

\* The half of StoreFollowsSources that is about staying there: rounds over a store that agrees
\* with its sources change no row and take no container down, and the agreement lasts until
\* somebody edits a source or uses the API, or something fails (configsync.go:62).
RoundsAreIdempotent ==
  [][InAgreement /\ edits' = edits => InAgreement' /\ rows' = rows /\ up \subseteq up']_configVars

\* A step that touches neither the sources nor the rows, and moves the round on as InAgreement
\* has it, keeps the agreement.
LEMMA AgreementFrame ==
  ASSUME InAgreement, UNCHANGED <<content, readable, rows>>, sync'.removing = {},
         sync'.pc = "dir" => \A a \in Apps : sync'.disk[a] = content["repo"][a],
         sync'.pc \in {"list", "apps"} => \A a \in Apps : sync'.disk[a] = FromFirstTwo(a),
         sync'.pc \in {"apps", "register"} => sync'.listed = rows,
         sync'.pc = "register" => \A a \in Apps : sync'.disk[a] = Effective(a),
         sync'.pc = "remove" => sync'.todo = {}
  PROVE  InAgreement'
<1>1. \A a \in Apps : Effective(a)' = Effective(a) /\ FromFirstTwo(a)' = FromFirstTwo(a)
  BY Zenon DEF Effective, FromFirstTwo
<1> QED
  BY <1>1, Zenon DEF InAgreement

\* Every step of a round keeps the agreement and leaves the rows and the containers alone.
LEMMA RoundKeepsAgreement ==
  ASSUME RoundInv, InAgreement, RoundStep, edits' = edits
  PROVE  InAgreement' /\ rows' = rows /\ up \subseteq up'
<1> USE DEF sourceVars
<1>t. /\ sync \in RoundStates /\ rows \in [Apps -> Rows] /\ edits \in Nat
      /\ "repo" \in Sources /\ "dir" \in Sources /\ "apps" \in Sources
  BY ConfigAssumption DEF RoundInv, ConfigTypeOK, RoundStates, Sources
<1>r. \A s \in Sources : readable[s]
  BY Zenon DEF InAgreement
<1>e. ~Edit
  BY <1>t DEF Edit
<1>1. CASE SyncManifestRepo
  <2>1. sync'.pc = "dir" /\ sync'.removing = {} /\ sync'.disk = Scanned(NoFiles, "repo")
    BY <1>1, <1>t, Zenon DEF SyncManifestRepo, RoundStates, InAgreement
  <2>2. \A a \in Apps : Scanned(NoFiles, "repo")[a] = content["repo"][a]
    BY <1>r, <1>t, Zenon DEF Scanned, NoFiles
  <2>3. UNCHANGED <<content, readable, rows, up>>
    BY <1>1, Zenon DEF SyncManifestRepo
  <2> QED
    BY <2>1, <2>2, <2>3, AgreementFrame
<1>2. CASE ScanConfigDir
  <2>1. /\ sync.pc = "dir" /\ sync'.pc = "list" /\ sync'.removing = {}
        /\ sync'.disk = Scanned(sync.disk, "dir")
    BY <1>2, <1>t, Zenon DEF ScanConfigDir, RoundStates, InAgreement
  <2>2. \A a \in Apps : Scanned(sync.disk, "dir")[a] = FromFirstTwo(a)
    BY <1>r, <1>t, <2>1, Zenon DEF Scanned, FromFirstTwo, InAgreement
  <2>3. UNCHANGED <<content, readable, rows, up>>
    BY <1>2, Zenon DEF ScanConfigDir
  <2> QED
    BY <2>1, <2>2, <2>3, AgreementFrame
<1>3. CASE ListStore
  <2>1. /\ sync.pc = "list" /\ sync'.pc = "apps" /\ sync'.removing = {}
        /\ sync'.disk = sync.disk /\ sync'.listed = rows
    BY <1>3, <1>e, <1>t, Zenon DEF ListStore, RoundStates, InAgreement
  <2>2. \A a \in Apps : sync.disk[a] = FromFirstTwo(a)
    BY <2>1 DEF InAgreement
  <2>3. UNCHANGED <<content, readable, rows, up>>
    BY <1>3, Zenon DEF ListStore
  <2> QED
    BY <2>1, <2>2, <2>3, AgreementFrame
<1>4. CASE ScanAppRepos
  <2>1. /\ sync.pc = "apps" /\ sync'.pc = "register" /\ sync'.removing = {}
        /\ sync'.disk = IF sync.listed = NoRows THEN sync.disk ELSE Scanned(sync.disk, "apps")
        /\ sync'.listed = sync.listed
    BY <1>4, <1>t, Zenon DEF ScanAppRepos, RoundStates, InAgreement
  <2>2. sync.listed = rows /\ \A a \in Apps : sync.disk[a] = FromFirstTwo(a)
    BY <2>1 DEF InAgreement
  <2>3. \A a \in Apps : sync'.disk[a] = Effective(a)
    BY <1>r, <1>t, <2>1, <2>2, Zenon DEF Scanned, FromFirstTwo, Effective
  <2>4. UNCHANGED <<content, readable, rows, up>>
    BY <1>4, Zenon DEF ScanAppRepos
  <2> QED
    BY <2>1, <2>2, <2>3, <2>4, AgreementFrame
<1>5. ASSUME NEW a \in Apps, RegisterOrUpdate(a)
      PROVE  InAgreement' /\ rows' = rows /\ up \subseteq up'
  <2>1. /\ sync.pc = "register" /\ sync'.pc = "register" /\ sync'.removing = {}
        /\ sync'.disk = sync.disk /\ sync'.listed = sync.listed /\ a \in sync.todo
    BY <1>5, <1>t, Zenon DEF RegisterOrUpdate, RoundStates, InAgreement
  <2>2. sync.listed = rows /\ \A b \in Apps : sync.disk[b] = Effective(b)
    BY <2>1 DEF InAgreement
  <2>3. /\ sync.listed[a] = NoRow => sync.disk[a] = NoVersion
        /\ sync.listed[a].source = "manifest" => sync.listed[a].manifest = sync.disk[a]
    BY <2>2, Zenon DEF InAgreement
  <2>4. UNCHANGED <<content, readable, up>>
    BY <1>5, Zenon DEF RegisterOrUpdate
  <2>5. rows' = rows
    <3>1. CASE sync.listed[a] # NoRow
      BY <1>5, <2>3, <3>1, Zenon DEF RegisterOrUpdate
    <3>2. CASE sync.listed[a] = NoRow
      BY <2>1, <2>3, <3>2, Zenon DEF RoundInv
    <3> QED
      BY <3>1, <3>2, Zenon
  <2> QED
    BY <2>1, <2>2, <2>4, <2>5, AgreementFrame
<1>6. CASE RegistrationDone
  <2>1. /\ sync.pc = "register" /\ sync'.pc = "remove" /\ sync'.removing = {}
        /\ sync'.todo = {a \in Apps : sync.listed[a].source = "manifest" /\ sync.disk[a] = NoVersion}
    BY <1>6, <1>t, Zenon DEF RegistrationDone, RoundStates, InAgreement
  <2>2. sync.listed = rows /\ \A b \in Apps : sync.disk[b] = Effective(b)
    BY <2>1 DEF InAgreement
  <2>3. ASSUME NEW a \in Apps, rows[a].source = "manifest" PROVE rows[a].manifest # NoVersion
    BY <1>t, <2>3, ConfigAssumption DEF Rows, NoRow
  <2>4. sync'.todo = {}
    <3>1. \A a \in Apps : rows[a].source = "manifest" => rows[a].manifest = sync.disk[a]
      BY <2>2, Zenon DEF InAgreement
    <3> QED
      BY <2>1, <2>2, <2>3, <3>1
  <2>5. UNCHANGED <<content, readable, rows, up>>
    BY <1>6, Zenon DEF RegistrationDone
  <2> QED
    BY <2>1, <2>4, <2>5, AgreementFrame
<1>7. \A a \in Apps : ~TearDownApp(a) /\ ~DeleteRemoved(a)
  BY Zenon DEF TearDownApp, DeleteRemoved, InAgreement
<1>8. CASE RoundDone
  <2>1. sync'.pc = "idle" /\ sync'.removing = {}
    BY <1>8, Zenon DEF RoundDone, BetweenRounds
  <2>2. UNCHANGED <<content, readable, rows, up>>
    BY <1>8, Zenon DEF RoundDone
  <2> QED
    BY <2>1, <2>2, AgreementFrame
<1> QED
  BY <1>1, <1>2, <1>3, <1>4, <1>5, <1>6, <1>7, <1>8, Zenon DEF RoundStep

\* A round of syncConfigManifests over a store that agrees with its sources does nothing, for
\* any set of applications and any placement of their files: with TLC's StoreFollowsSources,
\* which says that the agreement is reached, it is kept.
THEOREM QuietRoundsChangeNothing == ConfigSpec => RoundsAreIdempotent
<1>1. RoundInv /\ [ConfigNext]_configVars =>
        [InAgreement /\ edits' = edits => InAgreement' /\ rows' = rows /\ up \subseteq up']_configVars
  <2> SUFFICES ASSUME RoundInv, ConfigNext, InAgreement, edits' = edits
               PROVE  InAgreement' /\ rows' = rows /\ up \subseteq up'
    BY Zenon
  <2>e. ~Edit
    BY ConfigAssumption DEF Edit, RoundInv, ConfigTypeOK
  <2>1. CASE RoundStep
    BY <2>1, RoundKeepsAgreement, Zenon
  <2>2. ASSUME NEW a \in Apps, Deploys(a) PROVE InAgreement' /\ rows' = rows /\ up \subseteq up'
    <3>1. UNCHANGED <<content, readable, rows, sync>> /\ up \subseteq up'
      BY <2>2, Zenon DEF Deploys, sourceVars
    <3>2. InAgreement'
      BY <3>1, AgreementFrame, Zenon DEF InAgreement
    <3> QED
      BY <3>1, <3>2, Zenon
  <2>3. \A s \in Sources : ~SourceRecovers(s)
    BY Zenon DEF SourceRecovers, InAgreement
  <2> QED
    BY <2>e, <2>1, <2>2, <2>3, Zenon DEF ConfigNext, SetFile, SourceFails, ApiCreates, ApiUpdates,
       ApiDeletes, Restart
<1> QED
  BY <1>1, RoundsAreConsistent, PTL DEF ConfigSpec, RoundsAreIdempotent

-----------------------------------------------------------------------------
(* ImagePoller. *)

ListedSoFar == UNION {TagLists[i] : i \in 1 .. listed}

\* The applications of the clone all give the same RepoURL, so that one worker has them.
OneRepoURL == \A u, w \in RepoURLs : u = w

\* The poll whose workers have something to do holds pollRunning, alone.
SinglePoll ==
  /\ \A p \in Polls, u \in RepoURLs : worker[p][u] # Resting => p \in polling
  /\ \A p \in polling : pollRunning
  /\ \A p, q \in polling : p = q

\* What a check has written is in the file until it is committed, and then at HEAD until it
\* is pushed; a Sync in between takes it out of both.
WrittenInv ==
  \A p \in Polls, u \in RepoURLs :
    /\ worker[p][u].pc = "commit" => file = worker[p][u].next \/ file = head
    /\ worker[p][u].pc = "push" => ~ahead \/ head = worker[p][u].next

\* While nobody else has pushed, the remote branch, HEAD, the file and the tag to write
\* follow each other by the policy, what is new in each was listed, and the file is still
\* the one the check has read.
ChainInv ==
  pushes = {} =>
    /\ ~unseen
    /\ head = remote \/ (head \in ListedSoFar /\ Accepts(head, remote))
    /\ file = head \/ (file \in ListedSoFar /\ Accepts(file, head))
    /\ \A p \in Polls, u \in RepoURLs :
         /\ worker[p][u].pc \in {"list", "write"} => worker[p][u].read = file
         /\ worker[p][u].pc = "write" =>
              worker[p][u].next \in ListedSoFar /\ Accepts(worker[p][u].next, worker[p][u].read)

PollInv == PollerTypeOK /\ SinglePoll /\ WrittenInv /\ ChainInv

\* Every tag of the model is one ParseSemVer accepts.
LEMMA AllTagsAreTags == AllTags \subseteq Tags /\ FirstTag \in AllTags
<1>1. \A i \in DOMAIN TagLists : TagLists[i] \subseteq Tags
  BY PollerAssumption
<1> QED
  BY <1>1, PollerAssumption DEF AllTags

\* The registry lists such tags only.
LEMMA ListedIsATag ==
  ASSUME NEW i \in DOMAIN TagLists
  PROVE  TagLists[i] \subseteq AllTags
  BY DEF AllTags

\* What follows a tag that follows another follows that one.
LEMMA AcceptsIsTransitive ==
  ASSUME NEW u \in AllTags, NEW v \in AllTags, NEW w \in AllTags, Accepts(u, v), Accepts(v, w)
  PROVE  Accepts(u, w)
<1>1. /\ u[1] \in Nat /\ u[2] \in Nat /\ u[3] \in Nat /\ u[4] \in BOOLEAN
      /\ v[1] \in Nat /\ v[2] \in Nat /\ v[3] \in Nat /\ v[4] \in BOOLEAN
      /\ w[1] \in Nat /\ w[2] \in Nat /\ w[3] \in Nat /\ w[4] \in BOOLEAN
  BY AllTagsAreTags DEF Tags
<1>2. Above(u, w)
  BY <1>1 DEF Accepts, Above
<1> QED
  BY <1>1, <1>2, Zenon DEF Accepts

\* FindLatestTag gives a tag of the list that the policy accepts.
LEMMA FoundIsAccepted ==
  ASSUME NEW tags, NEW cur, NEW t \in FindLatestTag(tags, cur)
  PROVE  t \in tags /\ Accepts(t, cur)
  BY DEF FindLatestTag

\* A worker at rest, and one that is handed a group.
LEMMA WorkerStarts ==
  /\ Resting \in WorkerStates /\ Resting.pc = "idle" /\ Resting.left = 0
  /\ \A n \in Nat : /\ [Resting EXCEPT !.left = n] \in WorkerStates
                    /\ [Resting EXCEPT !.left = n].pc = "idle"
  BY AllTagsAreTags DEF Resting, WorkerStates

\* Type correctness of the poller and the clone it works in.
LEMMA PollTypeInit == PollerInit => PollerTypeOK
<1> SUFFICES ASSUME PollerInit PROVE PollerTypeOK
  OBVIOUS
<1>1. 1 \in DOMAIN TagLists /\ 0 \in 0 .. MaxFaults
  BY PollerAssumption
<1> QED
  BY <1>1, WorkerStarts, AllTagsAreTags, Zenon DEF PollerInit, PollerTypeOK

\* The workers of a poll that starts have yet to begin.
LEMMA HandedOutIsIdle ==
  ASSUME PollerTypeOK, NEW p \in Polls, HandOut(p), NEW u \in RepoURLs
  PROVE  worker'[p][u].pc = "idle"
<1>1. worker'[p] = [w \in RepoURLs |-> [Resting EXCEPT !.left = Groups[w]]]
  BY DEF HandOut, PollerTypeOK
<1>2. Groups[u] \in Nat
  BY PollerAssumption DEF RepoURLs
<1>3. worker'[p][u] = [Resting EXCEPT !.left = Groups[u]]
  BY <1>1, Zenon
<1> QED
  BY <1>2, <1>3, WorkerStarts, Zenon

\* A step of a worker gives it a new state and leaves the other workers as they are.
LEMMA WorkerMoves ==
  ASSUME PollerTypeOK, NEW p \in Polls, NEW u \in RepoURLs, NEW r \in WorkerStates,
         worker' = [worker EXCEPT ![p][u] = r]
  PROVE  /\ worker' \in [Polls -> [RepoURLs -> WorkerStates]]
         /\ worker'[p][u] = r
         /\ \A q \in Polls, w \in RepoURLs : q # p \/ w # u => worker'[q][w] = worker[q][w]
  BY DEF PollerTypeOK

\* The states a check goes to.
LEMMA GotoMoves ==
  ASSUME PollerTypeOK, NEW p \in Polls, NEW u \in RepoURLs,
         NEW pc \in {"commit", "push", "trigger"}, Goto(p, u, pc)
  PROVE  /\ worker' \in [Polls -> [RepoURLs -> WorkerStates]]
         /\ worker'[p][u].pc = pc /\ worker'[p][u].next = worker[p][u].next
         /\ \A q \in Polls, w \in RepoURLs : q # p \/ w # u => worker'[q][w] = worker[q][w]
<1>1. worker[p][u] \in WorkerStates
  BY DEF PollerTypeOK
<1>2. PICK r : r = [worker[p][u] EXCEPT !.pc = pc]
  OBVIOUS
<1>3. r \in WorkerStates /\ r.pc = pc /\ r.next = worker[p][u].next
  BY <1>1, <1>2, ZenonT(40) DEF WorkerStates
<1>4. worker' = [worker EXCEPT ![p][u] = r]
  BY <1>2, Zenon DEF Goto
<1>5. /\ worker' \in [Polls -> [RepoURLs -> WorkerStates]]
      /\ worker'[p][u] = r
      /\ \A q \in Polls, w \in RepoURLs : q # p \/ w # u => worker'[q][w] = worker[q][w]
  <2>1. r \in WorkerStates
    BY <1>3, Zenon
  <2> QED
    BY <2>1, <1>4, WorkerMoves, ZenonT(40)
<1> QED
  BY <1>3, <1>5, Zenon

\* A check that ends leaves its worker between two applications, or at rest.
LEMMA EndCheckMoves ==
  ASSUME PollerTypeOK, NEW p \in Polls, NEW u \in RepoURLs, EndCheck(p, u)
  PROVE  /\ worker' \in [Polls -> [RepoURLs -> WorkerStates]]
         /\ worker'[p][u].pc = "idle"
         /\ \A q \in Polls, w \in RepoURLs : q # p \/ w # u => worker'[q][w] = worker[q][w]
<1>1. worker[p][u].left \in Nat
  BY DEF PollerTypeOK, WorkerStates
<1>2. PICK r : r = [Resting EXCEPT !.left = worker[p][u].left]
  OBVIOUS
<1>3. r \in WorkerStates /\ r.pc = "idle"
  BY <1>1, <1>2, WorkerStarts, ZenonT(40)
<1>4. worker' = [worker EXCEPT ![p][u] = r]
  BY <1>2, Zenon DEF EndCheck
<1>5. /\ worker' \in [Polls -> [RepoURLs -> WorkerStates]]
      /\ worker'[p][u] = r
      /\ \A q \in Polls, w \in RepoURLs : q # p \/ w # u => worker'[q][w] = worker[q][w]
  BY <1>3, <1>4, WorkerMoves, ZenonT(40)
<1> QED
  BY <1>3, <1>5, Zenon

\* What one step of one worker does: it was not at rest, and no other worker moves.
LEMMA UpdateMoves ==
  ASSUME PollerTypeOK, NEW p \in Polls, NEW u \in RepoURLs, UpdateStep(p, u)
  PROVE  /\ worker' \in [Polls -> [RepoURLs -> WorkerStates]]
         /\ worker[p][u] # Resting
         /\ \A q \in Polls, w \in RepoURLs : q # p \/ w # u => worker'[q][w] = worker[q][w]
         /\ UNCHANGED <<pollRunning, polling, pushes, listed>>
<1>1. worker[p][u] # Resting
  <2>1. worker[p][u].pc # "idle" \/ worker[p][u].left > 0
    BY Zenon DEF UpdateStep, ReadComposeFile, ListTags, WriteComposeFile, Commit, Push,
       TriggerReconcile
  <2>2. Resting.pc = "idle" /\ ~(Resting.left > 0)
    BY WorkerStarts
  <2> QED
    BY <2>1, <2>2, Zenon
<1>2. UNCHANGED <<pollRunning, polling, pushes, listed>>
  BY Zenon DEF UpdateStep, ReadComposeFile, ListTags, WriteComposeFile, Commit, Push,
       TriggerReconcile
<1>3. CASE ReadComposeFile(p, u)
  <2>1. [pc |-> "list", read |-> file, next |-> file, left |-> worker[p][u].left - 1] \in WorkerStates
    <3>1. worker[p][u].left \in Nat /\ worker[p][u].left > 0 /\ file \in AllTags
      BY <1>3 DEF ReadComposeFile, PollerTypeOK, WorkerStates
    <3>2. worker[p][u].left - 1 \in Nat
      BY <3>1
    <3> QED
      BY <3>1, <3>2, Zenon DEF WorkerStates
  <2>2. PICK r \in WorkerStates : worker' = [worker EXCEPT ![p][u] = r]
    BY <1>3, <2>1, Zenon DEF ReadComposeFile
  <2>3. /\ worker' \in [Polls -> [RepoURLs -> WorkerStates]]
        /\ \A q \in Polls, w \in RepoURLs : q # p \/ w # u => worker'[q][w] = worker[q][w]
    BY <2>2, WorkerMoves, ZenonT(40)
  <2> QED
    BY <1>1, <1>2, <2>3, Zenon
<1>4. CASE ListTags(p, u)
  <2>1. CASE EndCheck(p, u)
    BY <1>1, <1>2, <2>1, EndCheckMoves
  <2>2. ASSUME NEW t \in FindLatestTag(TagLists[listed], worker[p][u].read),
               worker' = [worker EXCEPT ![p][u] = [@ EXCEPT !.pc = "write", !.next = t]]
        PROVE  /\ worker' \in [Polls -> [RepoURLs -> WorkerStates]]
               /\ \A q \in Polls, w \in RepoURLs : q # p \/ w # u => worker'[q][w] = worker[q][w]
    <3>1. t \in AllTags
      BY FoundIsAccepted, ListedIsATag DEF PollerTypeOK
    <3>2. worker[p][u] \in WorkerStates
      BY DEF PollerTypeOK
    <3>3. PICK r : r = [worker[p][u] EXCEPT !.pc = "write", !.next = t]
      OBVIOUS
    <3>4. r \in WorkerStates
      BY <3>1, <3>2, <3>3, Zenon DEF WorkerStates
    <3>5. worker' = [worker EXCEPT ![p][u] = r]
      BY <2>2, <3>3, Zenon
    <3> QED
      BY <3>4, <3>5, WorkerMoves, ZenonT(40)
  <2> QED
    BY <1>1, <1>2, <1>4, <2>1, <2>2, Zenon DEF ListTags
<1>5. CASE WriteComposeFile(p, u) \/ Commit(p, u) \/ Push(p, u) \/ TriggerReconcile(p, u)
  <2>1. EndCheck(p, u) \/ \E pc \in {"commit", "push", "trigger"} : Goto(p, u, pc)
    BY <1>5, Zenon DEF WriteComposeFile, Commit, Push, TriggerReconcile
  <2> QED
    BY <1>1, <1>2, <2>1, EndCheckMoves, GotoMoves
<1> QED
  BY <1>3, <1>4, <1>5 DEF UpdateStep

\* Every step keeps the types.
LEMMA PollTypeStep == PollerTypeOK /\ [PollerNext]_pollerVars => PollerTypeOK'
<1> SUFFICES ASSUME PollerTypeOK, [PollerNext]_pollerVars PROVE PollerTypeOK'
  OBVIOUS
<1> USE DEF PollerTypeOK, cloneVars, pollVars, faultVars
<1>a. Fault => faults' \in 0 .. MaxFaults
  BY PollerAssumption DEF Fault
<1>1. CASE UNCHANGED pollerVars
  BY <1>1 DEF pollerVars
<1>2. CASE NewTagsAppear
  BY <1>2 DEF NewTagsAppear
<1>3. CASE Sync
  BY <1>3, Zenon DEF Sync
<1>4. ASSUME NEW t \in Pushed, SomebodyPushes(t) PROVE PollerTypeOK'
  BY <1>4, Zenon DEF SomebodyPushes, AllTags
<1>5. ASSUME NEW p \in Polls, StartPoll(p) PROVE PollerTypeOK'
  <2>1. [u \in RepoURLs |-> [Resting EXCEPT !.left = Groups[u]]] \in [RepoURLs -> WorkerStates]
    BY WorkerStarts, PollerAssumption DEF RepoURLs
  <2>2. worker' \in [Polls -> [RepoURLs -> WorkerStates]]
    BY <1>5, <2>1, Zenon DEF StartPoll, HandOut
  <2>3. pollRunning' \in BOOLEAN /\ polling' \subseteq Polls
    BY <1>5, Zenon DEF StartPoll, HandOut
  <2> QED
    BY <1>5, <2>2, <2>3 DEF StartPoll, HandOut
<1>6. ASSUME NEW p \in Polls, EndPoll(p) PROVE PollerTypeOK'
  BY <1>6, Zenon DEF EndPoll
<1>7. ASSUME NEW p \in Polls, NEW u \in RepoURLs, UpdateStep(p, u) PROVE PollerTypeOK'
  <2>1. /\ worker' \in [Polls -> [RepoURLs -> WorkerStates]]
        /\ UNCHANGED <<pollRunning, polling, pushes, listed>>
    BY <1>7, UpdateMoves
  <2>2. faults' \in 0 .. MaxFaults
    BY <1>7, <1>a, Zenon DEF UpdateStep, ReadComposeFile, ListTags, WriteComposeFile, Commit, Push,
       TriggerReconcile
  <2>3. remote' \in {remote, head} /\ head' \in {head, file} /\ file' \in {file, worker[p][u].next}
    BY <1>7, Zenon DEF UpdateStep, ReadComposeFile, ListTags, WriteComposeFile, Commit, Push,
       TriggerReconcile
  <2>4. unseen' \in BOOLEAN /\ ahead' \in BOOLEAN /\ triggered' \in BOOLEAN /\ stranded' \in BOOLEAN
    BY <1>7, Zenon DEF UpdateStep, ReadComposeFile, ListTags, WriteComposeFile, Commit, Push,
       TriggerReconcile
  <2>5. worker[p][u].next \in AllTags
    BY DEF WorkerStates
  <2> QED
    BY <2>1, <2>2, <2>3, <2>4, <2>5
<1> QED
  BY <1>1, <1>2, <1>3, <1>4, <1>5, <1>6, <1>7, Zenon DEF PollerNext, PollStep

\* pollRunning keeps a second poll from starting.
LEMMA SinglePollStep == PollerTypeOK /\ SinglePoll /\ [PollerNext]_pollerVars => SinglePoll'
<1> SUFFICES ASSUME PollerTypeOK, SinglePoll, [PollerNext]_pollerVars PROVE SinglePoll'
  OBVIOUS
<1>1. CASE \/ UNCHANGED pollerVars \/ NewTagsAppear \/ Sync
           \/ \E t \in Pushed : SomebodyPushes(t)
  <2>1. UNCHANGED <<worker, polling, pollRunning>>
    BY <1>1 DEF pollerVars, pollVars, NewTagsAppear, Sync, SomebodyPushes
  <2> QED
    BY <2>1, Zenon DEF SinglePoll
<1>2. ASSUME NEW p \in Polls, StartPoll(p) PROVE SinglePoll'
  <2>1. polling = {} /\ polling' = {p} /\ pollRunning'
    BY <1>2, Zenon DEF SinglePoll, StartPoll, HandOut
  <2>2. \A q \in Polls : q # p => worker'[q] = worker[q]
    BY <1>2 DEF StartPoll, HandOut, PollerTypeOK
  <2> QED
    BY <2>1, <2>2, Zenon DEF SinglePoll
<1>3. ASSUME NEW p \in Polls, EndPoll(p) PROVE SinglePoll'
  <2>1. polling' = {} /\ UNCHANGED worker
    BY <1>3, Zenon DEF SinglePoll, EndPoll
  <2>2. \A q \in Polls, u \in RepoURLs : worker[q][u] = Resting
    BY <1>3, Zenon DEF SinglePoll, EndPoll
  <2> QED
    BY <2>1, <2>2, Zenon DEF SinglePoll
<1>4. ASSUME NEW p \in Polls, NEW u \in RepoURLs, UpdateStep(p, u) PROVE SinglePoll'
  <2>1. /\ worker[p][u] # Resting
        /\ \A q \in Polls, w \in RepoURLs : q # p \/ w # u => worker'[q][w] = worker[q][w]
        /\ UNCHANGED <<pollRunning, polling>>
    BY <1>4, UpdateMoves, Zenon
  <2>2. p \in polling
    BY <2>1, Zenon DEF SinglePoll
  <2>3. \A q \in Polls, w \in RepoURLs : worker'[q][w] # Resting => q \in polling
    BY <2>1, <2>2 DEF SinglePoll
  <2> QED
    BY <2>1, <2>3, Zenon DEF SinglePoll
<1> QED
  BY <1>1, <1>2, <1>3, <1>4, Zenon DEF PollerNext, PollStep

\* While one worker moves, all others are between applications.
LEMMA OthersWait ==
  ASSUME OneRepoURL, PollerTypeOK, SinglePoll, NEW p \in Polls, NEW u \in RepoURLs,
         UpdateStep(p, u), NEW q \in Polls, NEW w \in RepoURLs, q # p \/ w # u
  PROVE  worker'[q][w].pc = "idle"
<1>1. worker[p][u] # Resting /\ worker'[q][w] = worker[q][w]
  BY UpdateMoves, ZenonT(40)
<1>2. w = u
  BY DEF OneRepoURL
<1>3. worker[q][w] = Resting
  BY <1>1, <1>2, Zenon DEF SinglePoll
<1> QED
  BY <1>1, <1>3, WorkerStarts, Zenon

\* Every step keeps what a check has written in its place.
LEMMA WrittenStep ==
  ASSUME OneRepoURL
  PROVE  PollerTypeOK /\ SinglePoll /\ WrittenInv /\ [PollerNext]_pollerVars => WrittenInv'
<1> SUFFICES ASSUME PollerTypeOK, SinglePoll, WrittenInv, [PollerNext]_pollerVars
             PROVE  WrittenInv'
  OBVIOUS
<1> USE DEF cloneVars, pollVars, faultVars
<1>1. CASE UNCHANGED pollerVars \/ NewTagsAppear \/ \E t \in Pushed : SomebodyPushes(t)
  <2>1. UNCHANGED <<worker, file, head, ahead>>
    BY <1>1 DEF pollerVars, NewTagsAppear, SomebodyPushes
  <2> QED
    BY <2>1, Zenon DEF WrittenInv
<1>2. CASE Sync
  BY <1>2, Zenon DEF Sync, WrittenInv
<1>3. ASSUME NEW p \in Polls, StartPoll(p) PROVE WrittenInv'
  <2>1. \A u \in RepoURLs : worker'[p][u].pc = "idle"
    BY <1>3, HandedOutIsIdle, Zenon DEF StartPoll
  <2>2. \A q \in Polls : q # p => worker'[q] = worker[q]
    BY <1>3 DEF StartPoll, HandOut, PollerTypeOK
  <2>3. UNCHANGED <<file, head, ahead>>
    BY <1>3 DEF StartPoll, HandOut
  <2> QED
    BY <2>1, <2>2, <2>3 DEF WrittenInv
<1>4. ASSUME NEW p \in Polls, EndPoll(p) PROVE WrittenInv'
  <2>1. UNCHANGED <<worker, file, head, ahead>>
    BY <1>4 DEF EndPoll
  <2> QED
    BY <2>1, Zenon DEF WrittenInv
<1>5. ASSUME NEW p \in Polls, NEW u \in RepoURLs, UpdateStep(p, u) PROVE WrittenInv'
  <2>1. \A q \in Polls, w \in RepoURLs : q # p \/ w # u => worker'[q][w].pc = "idle"
    BY <1>5, OthersWait, Zenon
  <2>2. ASSUME worker'[p][u].pc = "commit" => file' = worker'[p][u].next \/ file' = head',
               worker'[p][u].pc = "push" => ~ahead' \/ head' = worker'[p][u].next
        PROVE  WrittenInv'
    <3> SUFFICES ASSUME NEW q \in Polls, NEW w \in RepoURLs
                 PROVE  /\ worker'[q][w].pc = "commit" => file' = worker'[q][w].next \/ file' = head'
                        /\ worker'[q][w].pc = "push" => ~ahead' \/ head' = worker'[q][w].next
      BY Zenon DEF WrittenInv
    <3>1. CASE q = p /\ w = u
      BY <2>2, <3>1
    <3>2. CASE q # p \/ w # u
      BY <2>1, <3>2
    <3> QED
      BY <3>1, <3>2
  <2>3. CASE EndCheck(p, u)
    BY <2>2, <2>3, EndCheckMoves
  <2>4. CASE ReadComposeFile(p, u)
    <3>1. worker'[p][u].pc = "list"
      BY <2>4 DEF ReadComposeFile, PollerTypeOK
    <3> QED
      BY <2>2, <3>1
  <2>5. CASE ListTags(p, u) /\ ~EndCheck(p, u)
    <3>1. PICK t : worker' = [worker EXCEPT ![p][u] = [@ EXCEPT !.pc = "write", !.next = t]]
      BY <2>5, Zenon DEF ListTags
    <3>2. worker'[p][u] = [worker[p][u] EXCEPT !.pc = "write", !.next = t]
      BY <3>1, ZenonT(40) DEF PollerTypeOK
    <3>3. worker[p][u] \in WorkerStates
      BY DEF PollerTypeOK
    <3>4. worker'[p][u].pc = "write"
      BY <3>2, <3>3, Zenon DEF WorkerStates
    <3> QED
      BY <2>2, <3>4
  <2>6. CASE WriteComposeFile(p, u) /\ ~EndCheck(p, u)
    <3>1. file' = worker[p][u].next /\ Goto(p, u, "commit")
      BY <2>6, Zenon DEF WriteComposeFile
    <3> QED
      BY <2>2, <3>1, GotoMoves
  <2>7. CASE Commit(p, u) /\ ~EndCheck(p, u)
    <3>1. file # head /\ head' = file /\ Goto(p, u, "push") /\ worker[p][u].pc = "commit"
      BY <2>7, Zenon DEF Commit
    <3>2. head' = worker[p][u].next
      BY <3>1 DEF WrittenInv
    <3> QED
      BY <2>2, <3>1, <3>2, GotoMoves
  <2>8. CASE Push(p, u) /\ ~EndCheck(p, u)
    <3>1. Goto(p, u, "trigger")
      BY <2>8, Zenon DEF Push
    <3> QED
      BY <2>2, <3>1, GotoMoves
  <2>9. CASE TriggerReconcile(p, u)
    BY <2>3, <2>9 DEF TriggerReconcile
  <2> QED
    BY <1>5, <2>3, <2>4, <2>5, <2>6, <2>7, <2>8, <2>9 DEF UpdateStep
<1> QED
  BY <1>1, <1>2, <1>3, <1>4, <1>5, Zenon DEF PollerNext, PollStep

\* Every step keeps the chain from the remote branch to the tag being written.
LEMMA ChainStep ==
  ASSUME OneRepoURL
  PROVE  PollerTypeOK /\ SinglePoll /\ ChainInv /\ [PollerNext]_pollerVars => ChainInv'
<1> SUFFICES ASSUME PollerTypeOK, SinglePoll, ChainInv, [PollerNext]_pollerVars, pushes' = {}
             PROVE  ChainInv'
  BY Zenon DEF ChainInv
<1> USE DEF cloneVars, pollVars, faultVars
<1>1. ASSUME NEW t \in Pushed, SomebodyPushes(t) PROVE FALSE
  BY <1>1 DEF SomebodyPushes
<1>2. pushes = {}
  BY <1>1, ZenonT(40) DEF PollerNext, PollStep, pollerVars, NewTagsAppear, Sync, StartPoll, HandOut, EndPoll,
     UpdateStep, ReadComposeFile, ListTags, WriteComposeFile, Commit, Push, TriggerReconcile
<1>3. /\ ~unseen
      /\ head = remote \/ (head \in ListedSoFar /\ Accepts(head, remote))
      /\ file = head \/ (file \in ListedSoFar /\ Accepts(file, head))
      /\ \A p \in Polls, u \in RepoURLs :
           /\ worker[p][u].pc \in {"list", "write"} => worker[p][u].read = file
           /\ worker[p][u].pc = "write" =>
                worker[p][u].next \in ListedSoFar /\ Accepts(worker[p][u].next, worker[p][u].read)
  BY <1>2, Zenon DEF ChainInv
<1>4. CASE UNCHANGED pollerVars
  BY <1>4, <1>3, Zenon DEF ChainInv, pollerVars, ListedSoFar
<1>5. CASE NewTagsAppear
  <2>1. ListedSoFar \subseteq ListedSoFar'
    BY <1>5, PollerAssumption DEF NewTagsAppear, ListedSoFar, PollerTypeOK
  <2> QED
    BY <1>5, <1>3, <2>1, Zenon DEF ChainInv, NewTagsAppear
<1>6. CASE Sync
  BY <1>6, <1>3, Zenon DEF Sync
<1>7. ASSUME NEW p \in Polls, StartPoll(p) PROVE ChainInv'
  <2>1. \A u \in RepoURLs : worker'[p][u].pc = "idle"
    BY <1>7, HandedOutIsIdle, Zenon DEF StartPoll
  <2>2. \A q \in Polls : q # p => worker'[q] = worker[q]
    BY <1>7 DEF StartPoll, HandOut, PollerTypeOK
  <2>3. UNCHANGED <<file, head, remote, unseen, listed>>
    BY <1>7 DEF StartPoll, HandOut
  <2> QED
    BY <1>3, <2>1, <2>2, <2>3 DEF ChainInv, ListedSoFar
<1>8. ASSUME NEW p \in Polls, EndPoll(p) PROVE ChainInv'
  BY <1>8, <1>3, Zenon DEF ChainInv, EndPoll, ListedSoFar
<1>9. ASSUME NEW p \in Polls, NEW u \in RepoURLs, UpdateStep(p, u) PROVE ChainInv'
  <2>1. \A q \in Polls, w \in RepoURLs : q # p \/ w # u => worker'[q][w].pc = "idle"
    BY <1>9, OthersWait, Zenon
  <2>2. UNCHANGED <<unseen, listed>>
    BY <1>9, <1>3, Zenon DEF UpdateStep, ReadComposeFile, ListTags, WriteComposeFile, Commit, Push,
       TriggerReconcile
  <2>3. ListedSoFar' = ListedSoFar
    BY <2>2, Zenon DEF ListedSoFar
  <2>4. ASSUME head' = remote' \/ (head' \in ListedSoFar /\ Accepts(head', remote')),
               file' = head' \/ (file' \in ListedSoFar /\ Accepts(file', head')),
               worker'[p][u].pc \in {"list", "write"} => worker'[p][u].read = file',
               worker'[p][u].pc = "write" =>
                 worker'[p][u].next \in ListedSoFar /\ Accepts(worker'[p][u].next, worker'[p][u].read)
        PROVE  ChainInv'
    <3>1. ASSUME NEW q \in Polls, NEW w \in RepoURLs
          PROVE  /\ worker'[q][w].pc \in {"list", "write"} => worker'[q][w].read = file'
                 /\ worker'[q][w].pc = "write" =>
                      /\ worker'[q][w].next \in ListedSoFar
                      /\ Accepts(worker'[q][w].next, worker'[q][w].read)
      <4>1. CASE q = p /\ w = u
        BY <2>4, <4>1, Zenon
      <4>2. CASE q # p \/ w # u
        <5>1. worker'[q][w].pc = "idle"
          BY <2>1, <4>2, Zenon
        <5> QED
          BY <5>1
      <4> QED
        BY <4>1, <4>2, Zenon
    <3> QED
      BY <1>3, <2>2, <2>3, <2>4, <3>1, Zenon DEF ChainInv
  <2>5. ASSUME worker'[p][u].pc \notin {"list", "write"}, UNCHANGED <<head, file>>,
               remote' = remote \/ remote' = head
        PROVE  ChainInv'
    BY <1>3, <2>4, <2>5
  <2>6. CASE EndCheck(p, u) /\ UNCHANGED <<remote, head, file>>
    <3>1. worker'[p][u].pc = "idle"
      BY <2>6, EndCheckMoves, Zenon
    <3> QED
      BY <2>5, <2>6, <3>1
  <2>7. CASE ReadComposeFile(p, u)
    <3>1. worker'[p][u] = [pc |-> "list", read |-> file, next |-> file,
                           left |-> worker[p][u].left - 1]
      BY <2>7 DEF ReadComposeFile, PollerTypeOK
    <3>2. worker'[p][u].pc = "list" /\ worker'[p][u].read = file
      BY <3>1
    <3>3. UNCHANGED <<remote, head, file>>
      BY <2>7 DEF ReadComposeFile
    <3> QED
      BY <1>3, <2>4, <3>2, <3>3
  <2>8. CASE ListTags(p, u) /\ ~EndCheck(p, u)
    <3>1. PICK t \in FindLatestTag(TagLists[listed], worker[p][u].read) :
            worker' = [worker EXCEPT ![p][u] = [@ EXCEPT !.pc = "write", !.next = t]]
      BY <2>8, Zenon DEF ListTags
    <3>2. t \in ListedSoFar /\ Accepts(t, worker[p][u].read)
      BY FoundIsAccepted, PollerAssumption DEF ListedSoFar, PollerTypeOK
    <3>3. worker'[p][u] = [worker[p][u] EXCEPT !.pc = "write", !.next = t]
      BY <3>1, ZenonT(40) DEF PollerTypeOK
    <3>4. worker[p][u] \in WorkerStates
      BY DEF PollerTypeOK
    <3>5. /\ worker'[p][u].pc = "write" /\ worker'[p][u].next = t
          /\ worker'[p][u].read = worker[p][u].read
      BY <3>3, <3>4, Zenon DEF WorkerStates
    <3>6. UNCHANGED <<remote, head, file>> /\ worker[p][u].read = file
      BY <1>3, <2>8, ZenonT(40) DEF ListTags
    <3> QED
      BY <1>3, <2>4, <3>2, <3>5, <3>6
  <2>9. CASE WriteComposeFile(p, u) /\ ~(EndCheck(p, u) /\ UNCHANGED file)
    <3>1. /\ file' = worker[p][u].next /\ Goto(p, u, "commit") /\ UNCHANGED <<remote, head>>
          /\ worker[p][u].pc = "write"
      BY <2>9, Zenon DEF WriteComposeFile
    <3>2. file' \in ListedSoFar /\ Accepts(file', file)
      BY <1>3, <3>1
    <3>3. Accepts(file', head)
      <4>1. file' \in AllTags /\ file \in AllTags /\ head \in AllTags
        BY <3>1 DEF PollerTypeOK, WorkerStates
      <4>2. file = head \/ Accepts(file, head)
        BY <1>3, Zenon
      <4> QED
        BY <3>2, <4>1, <4>2, AcceptsIsTransitive
    <3>4. worker'[p][u].pc = "commit"
      BY <3>1, GotoMoves
    <3> QED
      BY <1>3, <2>4, <3>1, <3>2, <3>3, <3>4
  <2>10. CASE Commit(p, u) /\ ~(EndCheck(p, u) /\ UNCHANGED head)
    <3>1. file # head /\ head' = file /\ Goto(p, u, "push") /\ UNCHANGED <<remote, file>>
      BY <2>10, Zenon DEF Commit
    <3>2. head' \in ListedSoFar /\ Accepts(head', remote)
      BY <1>3, <3>1, AcceptsIsTransitive, Zenon DEF PollerTypeOK
    <3>3. worker'[p][u].pc = "push"
      BY <3>1, GotoMoves
    <3> QED
      BY <2>4, <3>1, <3>2, <3>3
  <2>11. CASE Push(p, u)
    <3>1. UNCHANGED <<head, file>> /\ (remote' = remote \/ remote' = head)
      BY <2>11, Zenon DEF Push
    <3>2. EndCheck(p, u) \/ Goto(p, u, "trigger")
      BY <2>11, Zenon DEF Push
    <3>3. worker'[p][u].pc \in {"idle", "trigger"}
      BY <3>2, EndCheckMoves, GotoMoves
    <3> QED
      BY <2>5, <3>1, <3>3
  <2>12. ListTags(p, u) \/ TriggerReconcile(p, u) => UNCHANGED <<remote, head, file>>
    BY ZenonT(40) DEF ListTags, TriggerReconcile
  <2>13. WriteComposeFile(p, u) => UNCHANGED <<remote, head>>
    BY DEF WriteComposeFile
  <2>14. Commit(p, u) => UNCHANGED <<remote, file>>
    BY DEF Commit
  <2>15. TriggerReconcile(p, u) => EndCheck(p, u)
    BY DEF TriggerReconcile
  <2> QED
    BY <1>9, <2>6, <2>7, <2>8, <2>9, <2>10, <2>11, <2>12, <2>13, <2>14, <2>15 DEF UpdateStep
<1> QED
  BY <1>1, <1>4, <1>5, <1>6, <1>7, <1>8, <1>9, Zenon DEF PollerNext, PollStep

\* PollInv is an invariant of the poller in a clone whose applications give one RepoURL.
\* With two, neither its chain nor what a check has written holds (WorktreeExclusive).
THEOREM PollsAreConsistent == ASSUME OneRepoURL PROVE PollerSpec => []PollInv
<1>1. PollerInit => PollInv
  <2> SUFFICES ASSUME PollerInit PROVE PollInv
    OBVIOUS
  <2>1. \A p \in Polls, u \in RepoURLs : worker[p][u] = Resting
    BY Zenon DEF PollerInit
  <2>2. SinglePoll
    BY <2>1, Zenon DEF PollerInit, SinglePoll
  <2>3. WrittenInv /\ ChainInv
    BY <2>1, WorkerStarts DEF PollerInit, WrittenInv, ChainInv
  <2> QED
    BY <2>2, <2>3, PollTypeInit, Zenon DEF PollInv
<1>2. PollInv /\ [PollerNext]_pollerVars => PollInv'
  BY PollTypeStep, SinglePollStep, WrittenStep, ChainStep, Zenon DEF PollInv
<1> QED
  BY <1>1, <1>2, PTL DEF PollerSpec

\* A push puts on the remote branch the tag that its own check has written, whatever polls,
\* Syncs and failed steps came before it, as long as one worker has the whole clone.
THEOREM ChecksPublishTheirOwn == ASSUME OneRepoURL PROVE PollerSpec => PublishesWhatItWrote
<1> DEFINE Own == \A p \in Polls, u \in RepoURLs :
                    worker[p][u].pc = "push" /\ worker'[p][u].pc = "trigger" /\ remote' # remote
                      => remote' = worker[p][u].next
<1>1. PollInv /\ [PollerNext]_pollerVars => [Own]_pollerVars
  <2> SUFFICES ASSUME PollInv, [PollerNext]_pollerVars, remote' # remote,
                      NEW p \in Polls, NEW u \in RepoURLs,
                      worker[p][u].pc = "push", worker'[p][u].pc = "trigger"
               PROVE  remote' = worker[p][u].next
    BY Zenon
  <2>1. PICK q \in Polls, w \in RepoURLs : Push(q, w)
    <3>1. ASSUME NEW t \in Pushed, SomebodyPushes(t) PROVE FALSE
      <4>1. worker' = worker
        BY <3>1 DEF SomebodyPushes, pollVars
      <4> QED
        BY <4>1
    <3> QED
      BY <3>1, ZenonT(40) DEF PollerNext, PollStep, UpdateStep, pollerVars, cloneVars, NewTagsAppear, Sync,
         StartPoll, HandOut, EndPoll, ReadComposeFile, ListTags, WriteComposeFile, Commit,
         TriggerReconcile
  <2>2. q = p /\ w = u
    <3>1. UpdateStep(q, w)
      BY <2>1, Zenon DEF UpdateStep
    <3>2. q # p \/ w # u => worker'[p][u] = worker[p][u]
      BY <3>1, UpdateMoves, ZenonT(40) DEF PollInv
    <3> QED
      BY <3>2
  <2>3. ahead /\ remote' = head
    BY <2>1, Zenon DEF Push
  <2> QED
    BY <2>3, Zenon DEF PollInv, WrittenInv
<1> QED
  BY <1>1, PollsAreConsistent, PTL DEF PollerSpec, PublishesWhatItWrote

\* Where nobody else pushes, a push of the poller moves the remote branch up, inside the
\* policy and to a tag the registry has listed, also when commits and pushes before it
\* failed and their tags are still in the file or at HEAD.
THEOREM UpdatesStayInPolicy == ASSUME OneRepoURL PROVE PollerSpec => UpdatesFollowPolicy
<1> DEFINE InPolicy ==
      remote' # remote /\ pushes = {} /\ pushes' = {}
       => /\ Above(remote', remote)
          /\ \E i \in 1 .. listed : remote' \in TagLists[i]
          /\ Policy = "minor" => remote'[1] = remote[1] /\ remote'[2] = remote[2]
          /\ Policy = "major" => remote'[1] = remote[1]
          /\ ~remote[4] => ~remote'[4]
<1>1. PollInv /\ [PollerNext]_pollerVars => [InPolicy]_pollerVars
  <2> SUFFICES ASSUME PollInv, [PollerNext]_pollerVars, remote' # remote,
                      pushes = {}, pushes' = {}
               PROVE  InPolicy
    OBVIOUS
  <2>1. remote' = head
    <3>1. \A t \in Pushed : ~SomebodyPushes(t)
      BY Zenon DEF SomebodyPushes
    <3> QED
      BY <3>1, ZenonT(40) DEF PollerNext, PollStep, UpdateStep, pollerVars, cloneVars, NewTagsAppear, Sync,
         StartPoll, HandOut, EndPoll, ReadComposeFile, ListTags, WriteComposeFile, Commit, Push,
         TriggerReconcile
  <2>2. remote' \in ListedSoFar /\ Accepts(remote', remote)
    BY <2>1, Zenon DEF PollInv, ChainInv
  <2> QED
    BY <2>2, Zenon DEF Accepts, ListedSoFar
<1> QED
  BY <1>1, PollsAreConsistent, PTL DEF PollerSpec, UpdatesFollowPolicy

-----------------------------------------------------------------------------
(* EventWatcher, for every set of hosts and every number of events. *)

\* A timer that has triggered or still will.
Live(n) == timers[n] \in {"armed", "fired", "calling", "done"}

\* The map holds the newest timer or none, the timers of the events so far have been armed
\* and the others have not, and the newest is live until the watcher is being stopped.
WatcherInv ==
  /\ WatcherTypeOK
  /\ stopCalled => rootDone
  /\ \A d \in Daemons : queue[d] =< deaths
  /\ entry \in {0, events}
  /\ \A n \in Timers : timers[n] = "unused" <=> events < n
  /\ events = 0 \/ rootDone \/ Live(events)

\* The promise behind EventIsFollowed: as long as the watcher is not being stopped, the
\* timer of every event, or of a later event, is live.  A timer is stopped only for a newer
\* one, and a callback that deletes another timer's entry does not stop it (debounce.go:35).
EventIsCarried ==
  \A n \in Timers : timers[n] # "unused" => rootDone \/ \E m \in n .. MaxEvents : Live(m)

\* A step that leaves the debouncer and the events in the streams alone.
LEMMA WatcherIdles ==
  ASSUME WatcherInv, WatcherTypeOK', UNCHANGED <<queue, deaths, events, timers, entry>>,
         rootDone => rootDone', stopCalled' => rootDone'
  PROVE  WatcherInv'
  BY Zenon DEF WatcherInv, Live

\* A step that takes events from the streams, or puts one in, and leaves the debouncer alone.
LEMMA WatcherStreams ==
  ASSUME WatcherInv, WatcherTypeOK', UNCHANGED <<rootDone, stopCalled, events, timers, entry>>,
         \A d \in Daemons : queue'[d] =< deaths'
  PROVE  WatcherInv'
  BY Zenon DEF WatcherInv, Live

\* A step that changes the state of one timer, which stays armed or triggers, and at most
\* clears the map's entry.
LEMMA TimerMoves ==
  ASSUME WatcherInv, WatcherTypeOK', UNCHANGED <<rootDone, stopCalled, queue, deaths, events>>,
         NEW n \in Timers, NEW v \in {"fired", "calling", "done"}, timers[n] # "unused",
         timers' = [timers EXCEPT ![n] = v], entry' \in {0, entry}
  PROVE  WatcherInv'
<1>1. \A m \in Timers : timers'[m] = IF m = n THEN v ELSE timers[m]
  BY Zenon DEF WatcherInv, WatcherTypeOK
<1>2. \A m \in Timers : timers'[m] = "unused" <=> events < m
  BY <1>1, Zenon DEF WatcherInv
<1>3. events = 0 \/ rootDone \/ Live(events)'
  <2>1. events # 0 => events \in Timers
    BY WatcherAssumption DEF WatcherInv, WatcherTypeOK, Timers
  <2> QED
    BY <1>1, <2>1, Zenon DEF WatcherInv, Live
<1> QED
  BY <1>2, <1>3, Zenon DEF WatcherInv

\* The streams, the loops and the timers keep their types.
LEMMA WatcherTyped == WatcherInv /\ [WatcherNext]_watcherVars => WatcherTypeOK'
<1> SUFFICES ASSUME WatcherInv, [WatcherNext]_watcherVars PROVE WatcherTypeOK'
  OBVIOUS
<1> USE WatcherAssumption DEF WatcherInv, WatcherTypeOK, Daemons, lifeVars
<1>1. ASSUME NEW b \in BOOLEAN, StoreContext \/ StartLoop(b) \/ Signal \/ Stop \/ StartReturns
      PROVE  WatcherTypeOK'
  <2>1. CASE StoreContext
    BY <2>1, Zenon DEF StoreContext
  <2>2. CASE StartLoop(b)
    BY <2>2, Zenon DEF StartLoop
  <2>3. CASE Signal \/ Stop
    BY <2>3, Zenon DEF Signal, Stop
  <2>4. CASE StartReturns
    BY <2>4, Zenon DEF StartReturns
  <2> QED
    BY <1>1, <2>1, <2>2, <2>3, <2>4, Zenon
<1>2. CASE StopTimers
  <2>1. timers' \in [Timers -> {"unused", "armed", "fired", "calling", "done", "stopped"}]
    BY <1>2, Zenon DEF StopTimers
  <2>2. 0 \in 0 .. MaxEvents
    OBVIOUS
  <2> QED
    BY <1>2, <2>1, <2>2, Zenon DEF StopTimers
<1>3. ASSUME NEW h \in Hosts, WatchHost(h) PROVE WatcherTypeOK'
  BY <1>3, Zenon DEF WatchHost
<1>4. ASSUME NEW d \in Daemons, Connect(d) \/ Reconnect(d) PROVE WatcherTypeOK'
  BY <1>4, Zenon DEF Connect, Reconnect
<1>5. ASSUME NEW d \in Daemons, LoopExits(d) PROVE WatcherTypeOK'
  <2>1. 0 \in 0 .. MaxEvents
    OBVIOUS
  <2> QED
    BY <1>5, <2>1, Zenon DEF LoopExits
<1>6. ASSUME NEW d \in Daemons, Disconnect(d) PROVE WatcherTypeOK'
  <2>1. 0 \in 0 .. MaxEvents /\ drops' \in 0 .. MaxDrops
    BY <1>6 DEF Disconnect
  <2> QED
    BY <1>6, <2>1, Zenon DEF Disconnect
<1>7. ASSUME NEW d \in Daemons, ContainerDies(d) PROVE WatcherTypeOK'
  <2>1. queue[d] + 1 \in 0 .. MaxEvents /\ deaths' \in 0 .. MaxEvents
    BY <1>7 DEF ContainerDies
  <2> QED
    BY <1>7, <2>1, Zenon DEF ContainerDies
<1>8. ASSUME NEW d \in Daemons, NEW b \in BOOLEAN, ReceiveEvent(d, b) PROVE WatcherTypeOK'
  <2>1. queue[d] - 1 \in 0 .. MaxEvents
    BY <1>8 DEF ReceiveEvent
  <2>2. (projects /\ ~b) \in BOOLEAN
    BY Zenon
  <2> QED
    BY <1>8, <2>1, <2>2, Zenon DEF ReceiveEvent
<1>9. ASSUME NEW d \in Daemons, Debounce(d) PROVE WatcherTypeOK'
  <2>1. events + 1 \in 0 .. MaxEvents
    BY <1>9 DEF Debounce
  <2>2. timers' \in [Timers -> {"unused", "armed", "fired", "calling", "done", "stopped"}]
    BY <1>9, Zenon DEF Debounce
  <2> QED
    BY <1>9, <2>1, <2>2, Zenon DEF Debounce
<1>10. ASSUME NEW n \in Timers, TimerStep(n) PROVE WatcherTypeOK'
  <2>1. 0 \in 0 .. MaxEvents
    OBVIOUS
  <2> QED
    BY <1>10, <2>1, ZenonT(60) DEF TimerStep, TimerFires, CallbackDeletes, CallbackTriggers
<1>11. CASE UNCHANGED watcherVars
  BY <1>11, Zenon DEF watcherVars
<1> QED
  BY <1>1, <1>2, <1>3, <1>4, <1>5, <1>6, <1>7, <1>8, <1>9, <1>10, <1>11, ZenonT(60)
     DEF WatcherNext, StartStep, ServeStep, LoopStep

\* WatcherInv is an invariant of the watcher: the shutdown, broken streams and bursts of
\* events included.
THEOREM WatcherIsConsistent == WatcherSpec => []WatcherInv
<1>1. WatcherInit => WatcherInv
  <2> SUFFICES ASSUME WatcherInit PROVE WatcherInv
    OBVIOUS
  <2>1. 0 \in 0 .. MaxEvents /\ 0 \in 0 .. MaxDrops /\ 0 =< 0 /\ \A n \in Timers : 0 < n
    BY WatcherAssumption DEF Timers
  <2>2. WatcherTypeOK
    BY <2>1, Zenon DEF WatcherInit, WatcherTypeOK
  <2>3. /\ stopCalled = FALSE /\ deaths = 0 /\ events = 0 /\ entry = 0
        /\ \A d \in Daemons : queue[d] = 0
    BY Zenon DEF WatcherInit
  <2>4. \A n \in Timers : timers[n] = "unused" /\ events < n
    BY <2>1, <2>3, Zenon DEF WatcherInit
  <2> QED
    BY <2>2, <2>3, <2>4 DEF WatcherInv
<1>2. WatcherInv /\ [WatcherNext]_watcherVars => WatcherInv'
  <2> SUFFICES ASSUME WatcherInv, [WatcherNext]_watcherVars PROVE WatcherInv'
    OBVIOUS
  <2>t. WatcherTypeOK /\ WatcherTypeOK' /\ (stopCalled => rootDone)
    BY WatcherTyped, Zenon DEF WatcherInv
  <2>1. ASSUME NEW b \in BOOLEAN, StoreContext \/ StartLoop(b) \/ Signal \/ Stop \/ StartReturns
        PROVE  WatcherInv'
    <3>1. UNCHANGED <<queue, deaths, events, timers, entry>>
      BY <2>1, Zenon DEF StoreContext, StartLoop, Signal, Stop, StartReturns
    <3>2. (rootDone => rootDone') /\ (stopCalled' => rootDone')
      BY <2>t, <2>1 DEF StoreContext, StartLoop, Signal, Stop, StartReturns, WatcherTypeOK
    <3> QED
      BY <2>t, <3>1, <3>2, WatcherIdles, Zenon
  <2>2. CASE StopTimers
    <3>1. /\ rootDone' /\ UNCHANGED <<rootDone, stopCalled, queue, deaths, events>> /\ entry' = 0
          /\ \A n \in Timers : timers'[n] = "unused" <=> timers[n] = "unused"
      BY <2>t, <2>2, Zenon DEF StopTimers
    <3> QED
      BY <2>t, <3>1, Zenon DEF WatcherInv
  <2>3. ASSUME NEW h \in Hosts, WatchHost(h) PROVE WatcherInv'
    BY <2>t, <2>3, WatcherIdles, Zenon DEF WatchHost
  <2>4. ASSUME NEW d \in Daemons, Connect(d) \/ Reconnect(d) PROVE WatcherInv'
    <3>1. UNCHANGED <<rootDone, stopCalled, queue, deaths, events, timers, entry>>
      BY <2>4 DEF Connect, Reconnect, lifeVars
    <3> QED
      BY <2>t, <3>1, WatcherIdles, Zenon
  <2>5. ASSUME NEW d \in Daemons, LoopExits(d) \/ Disconnect(d) PROVE WatcherInv'
    <3>1. /\ UNCHANGED <<rootDone, stopCalled, deaths, events, timers, entry>>
          /\ \A e \in Daemons : queue'[e] \in {0, queue[e]}
      BY <2>t, <2>5, ZenonT(60) DEF LoopExits, Disconnect, lifeVars, WatcherTypeOK
    <3>2. deaths \in Nat /\ \A e \in Daemons : queue[e] =< deaths
      BY <2>t, WatcherAssumption DEF WatcherTypeOK, WatcherInv
    <3>3. \A e \in Daemons : queue'[e] =< deaths'
      BY <3>1, <3>2
    <3> QED
      BY <2>t, <3>1, <3>3, WatcherStreams, Zenon
  <2>6. ASSUME NEW d \in Daemons, ContainerDies(d) PROVE WatcherInv'
    <3>1. /\ UNCHANGED <<rootDone, stopCalled, events, timers, entry>> /\ deaths' = deaths + 1
          /\ \A e \in Daemons : queue'[e] \in {queue[e] + 1, queue[e]}
      BY <2>t, <2>6, Zenon DEF ContainerDies, lifeVars, WatcherTypeOK
    <3>2. deaths \in Nat /\ \A e \in Daemons : queue[e] \in Nat /\ queue[e] =< deaths
      BY <2>t, WatcherAssumption DEF WatcherTypeOK, WatcherInv
    <3>3. \A e \in Daemons : queue'[e] =< deaths'
      BY <3>1, <3>2
    <3> QED
      BY <2>t, <3>1, <3>3, WatcherStreams, Zenon
  <2>7. ASSUME NEW d \in Daemons, NEW b \in BOOLEAN, ReceiveEvent(d, b) PROVE WatcherInv'
    <3>1. /\ UNCHANGED <<rootDone, stopCalled, deaths, events, timers, entry>>
          /\ \A e \in Daemons : queue'[e] \in {queue[e] - 1, queue[e]}
      BY <2>t, <2>7, Zenon DEF ReceiveEvent, lifeVars, WatcherTypeOK
    <3>2. deaths \in Nat /\ \A e \in Daemons : queue[e] \in Nat /\ queue[e] =< deaths
      BY <2>t, WatcherAssumption DEF WatcherTypeOK, WatcherInv
    <3>3. \A e \in Daemons : queue'[e] =< deaths'
      BY <3>1, <3>2
    <3> QED
      BY <2>t, <3>1, <3>3, WatcherStreams, Zenon
  <2>8. ASSUME NEW d \in Daemons, Debounce(d) PROVE WatcherInv'
    <3>1. /\ UNCHANGED <<rootDone, stopCalled, queue, deaths>>
          /\ events' = events + 1 /\ entry' = events + 1 /\ events < MaxEvents
          /\ \A n \in Timers : timers'[n] = IF n = events + 1 THEN "armed"
               ELSE IF n = entry /\ timers[n] = "armed" THEN "stopped" ELSE timers[n]
      BY <2>8, Zenon DEF Debounce, lifeVars
    <3>2. events \in Nat /\ events + 1 \in Timers
      BY <2>t, <3>1, WatcherAssumption DEF WatcherTypeOK, Timers
    <3>3. Live(events)'
      BY <3>1, <3>2, Zenon DEF Live
    <3>4. ASSUME NEW n \in Timers PROVE timers'[n] = "unused" <=> events' < n
      <4>1. n \in Nat /\ (timers[n] = "unused" <=> events < n)
        BY WatcherAssumption DEF WatcherInv, Timers
      <4>2. n # events + 1 => (timers'[n] = "unused" <=> timers[n] = "unused")
        BY <3>1, Zenon
      <4>3. n = events + 1 => timers'[n] = "armed"
        BY <3>1, Zenon
      <4> QED
        BY <3>1, <3>2, <4>1, <4>2, <4>3
    <3> QED
      BY <2>t, <3>1, <3>3, <3>4, Zenon DEF WatcherInv
  <2>9. ASSUME NEW n \in Timers, TimerStep(n) PROVE WatcherInv'
    BY <2>t, <2>9, TimerMoves, Zenon
       DEF TimerStep, TimerFires, CallbackDeletes, CallbackTriggers, lifeVars
  <2>10. CASE UNCHANGED watcherVars
    BY <2>t, <2>10, WatcherIdles, Zenon DEF watcherVars
  <2> QED
    BY <2>1, <2>2, <2>3, <2>4, <2>5, <2>6, <2>7, <2>8, <2>9, <2>10, ZenonT(60)
       DEF WatcherNext, StartStep, ServeStep, LoopStep
<1> QED
  BY <1>1, <1>2, PTL DEF WatcherSpec

\* Until the watcher is being stopped no event that reached the debouncer is lost: its
\* timer, or that of a later event, has triggered a reconcile or still will.
THEOREM NoEventIsLost == WatcherSpec => []EventIsCarried
<1>1. WatcherInv => EventIsCarried
  <2> SUFFICES ASSUME WatcherInv, NEW n \in Timers, timers[n] # "unused", ~rootDone
               PROVE  \E m \in n .. MaxEvents : Live(m)
    BY Zenon DEF EventIsCarried
  <2>1. ~(events < n)
    BY Zenon DEF WatcherInv
  <2>2. events \in n .. MaxEvents /\ events # 0
    BY <2>1, WatcherAssumption DEF WatcherInv, WatcherTypeOK, Timers
  <2> QED
    BY <2>2, Zenon DEF WatcherInv
<1> QED
  BY <1>1, WatcherIsConsistent, PTL
=============================================================================
