-------------------------------- MODULE Drift --------------------------------
(***************************************************************************)
(* What makes an application "in sync": the compose parser                 *)
(* (internal/parser) reads the desired state from the clone, docker        *)
(* compose, run by the deployer on the same files, makes containers of     *)
(* them, the inspector (internal/inspector) reads the containers back, and *)
(* the differ (internal/differ) compares.  The diff decides whether        *)
(* reconcileApp deploys, so the parser and the differ together have to     *)
(* agree with docker compose on what the files mean.                       *)
(*                                                                         *)
(* Compose and docker are external: ComposeService and the images describe *)
(* what they do with the parts of a file modelled here.  Strings that the  *)
(* code takes apart (image references, ports, volumes, variables, restart  *)
(* policies with a number of retries) are records of their parts, the mode *)
(* of a mount is the set of its options.  One container runs per service, and a command  *)
(* that is given is not empty.                                             *)
(***************************************************************************)
EXTENDS Naturals, Sequences, FiniteSets, SequencesExt

CONSTANTS
  Clones,       \* contents the clone may have
  FirstClone,
  OsEnv,        \* dockercd's own environment
  Prune,        \* the sync policy's prune
  MaxTampers    \* bound: changes made behind dockercd's back, and commits

NoKeys == [k \in {} |-> ""]
OneKey(key, value) == [k \in {key} |-> value]

\* The keys of both, with the values of f where both have one.
Over(f, g) == [k \in DOMAIN f \cup DOMAIN g |-> IF k \in DOMAIN f THEN f[k] ELSE g[k]]

\* Keys that docker compose and Docker Desktop add, and those that dockercd reads.
ComposeKey == "com.docker.compose.project"
DesktopKey == "desktop.docker.io/binds"
IgnoreDriftLabel == "com.dockercd.ignore-drift"
HookLabel == "com.dockercd.hook"

VARIABLES
  clone,        \* what the application's path in the clone holds
  containers,   \* service -> container of the project
  clean,        \* history: deployed from this clone
  tampered,     \* history: <<service, aspect>> changed since
  tampers

driftVars == <<clone, containers, clean, tampered, tampers>>

-----------------------------------------------------------------------------
(* The parser. *)

lookupVar(v, vars) ==
  IF v \in DOMAIN vars THEN vars[v] ELSE IF v \in DOMAIN OsEnv THEN OsEnv[v] ELSE ""

\* A value of a file: its text, or a reference to a variable with an operator.
resolveExpr(e, vars) ==
  LET val == lookupVar(e.var, vars) IN
  CASE e.op = "text" -> e.text
    [] e.op = "plain" -> val
    [] e.op = ":-" -> IF val = "" THEN e.text ELSE val
    [] e.op = "-" -> IF e.var \in DOMAIN vars \cup DOMAIN OsEnv THEN val ELSE e.text
    [] e.op = ":?" -> IF val = "" THEN "marker" ELSE val

\* Mutant: the keys of the base file win.
mergeMapsBase(base, override) == Over(base, override)

mergeMaps(base, override) == Over(override, base)

\* Scalars are replaced, maps are merged, lists are appended.
mergeService(base, override) ==
  [image |-> IF override.image.name # "" THEN override.image ELSE base.image,
   restart |-> IF override.restart.name # "" THEN override.restart ELSE base.restart,
   command |-> IF override.command.words # << >> THEN override.command ELSE base.command,
   entrypoint |-> IF override.entrypoint.words # << >> THEN override.entrypoint
                  ELSE base.entrypoint,
   environment |-> mergeMaps(base.environment, override.environment),
   labels |-> mergeMaps(base.labels, override.labels),
   ports |-> base.ports \o override.ports,
   volumes |-> base.volumes \o override.volumes,
   networks |-> base.networks \cup override.networks]

mergeCompose(base, override) ==
  [n \in DOMAIN base \cup DOMAIN override |->
     IF n \notin DOMAIN override THEN base[n]
     ELSE IF n \notin DOMAIN base THEN override[n]
     ELSE mergeService(base[n], override[n])]

\* "8080:80/udp" and "127.0.0.1:8080:80"; the address is dropped.
parsePortString(p) ==
  [host |-> p.host, container |-> p.container, proto |-> IF p.proto = "" THEN "tcp" ELSE p.proto]

\* The mode is read-only if it is "ro" and nothing else.
parseVolumeString(v) == [source |-> v.source, target |-> v.target, ro |-> v.mode = {"ro"}]

\* A command given as one string is one word.
parseCommand(cmd) ==
  IF cmd.form = "string" /\ Len(cmd.words) > 1 THEN <<"the whole string">> ELSE cmd.words

\* Variables are replaced in images and in environment values only.
toServiceSpec(svc, vars) ==
  [image |-> [svc.image EXCEPT !.tag = resolveExpr(@, vars)],
   environment |-> [k \in DOMAIN svc.environment |-> resolveExpr(svc.environment[k], vars)],
   ports |-> [i \in DOMAIN svc.ports |-> parsePortString(svc.ports[i])],
   volumes |-> [i \in DOMAIN svc.volumes |-> parseVolumeString(svc.volumes[i])],
   networks |-> {<<"", n>> : n \in svc.networks},
   labels |-> svc.labels,
   restart |-> svc.restart,
   command |-> parseCommand(svc.command),
   entrypoint |-> parseCommand(svc.entrypoint)]

\* The files one after the other.
Merged(c) ==
  LET upTo[i \in 1 .. Len(c.files)] ==
        IF i = 1 THEN c.files[1] ELSE mergeCompose(upTo[i - 1], c.files[i]) IN
  upTo[Len(c.files)]

\* Values that refer to a secret are replaced by it.
Resolved(env, vault) ==
  [k \in DOMAIN env |-> IF env[k] \in DOMAIN vault THEN vault[env[k]] ELSE env[k]]

\* Parse: decrypted variables take precedence over those of .env.
Parse(c) ==
  [n \in DOMAIN Merged(c) |->
     [toServiceSpec(Merged(c)[n], Over(c.secrets, c.dotenv)) EXCEPT
        !.environment = Resolved(@, c.vault)]]

-----------------------------------------------------------------------------
(* docker compose up on the same files, external.  The environment of the  *)
(* command is dockercd's own; variables it sets win over .env, and nothing *)
(* that dockercd decrypted reaches it.                                     *)

ComposeVars(c) == Over(OsEnv, c.dotenv)

Interpolate(e, env) ==
  LET val == IF e.var \in DOMAIN env THEN env[e.var] ELSE "" IN
  CASE e.op = "text" -> e.text
    [] e.op \in {"plain", ":?"} -> val
    [] e.op = ":-" -> IF val = "" THEN e.text ELSE val
    [] e.op = "-" -> IF e.var \in DOMAIN env THEN val ELSE e.text

\* How the files given with -f are put together, attribute by attribute.
Attributes ==
  {"image", "restart", "command", "entrypoint", "environment", "labels", "ports", "volumes",
   "networks"}
MergeAttribute(k, b, o) ==
  CASE k \in {"environment", "labels"} -> Over(o, b)
    [] k \in {"ports", "volumes"} -> b \o o
    [] k = "networks" -> b \cup o
    [] k \in {"command", "entrypoint"} -> IF o.words = << >> THEN b ELSE o
    [] k = "image" -> IF o.name = "" THEN b ELSE o
    [] k = "restart" -> IF o.name = "" THEN b ELSE o
ComposeMerge(base, override) ==
  [n \in DOMAIN base \cup DOMAIN override |->
     IF n \in DOMAIN base \cap DOMAIN override
     THEN [k \in Attributes |-> MergeAttribute(k, base[n][k], override[n][k])]
     ELSE IF n \in DOMAIN base THEN base[n] ELSE override[n]]

\* Mounts of the override replace those of the base with the same target.
ComposeVolumes(vols) ==
  {vols[i] : i \in {i \in DOMAIN vols : \A j \in DOMAIN vols : j > i => vols[j].target # vols[i].target}}

\* A volume, named or not, and a relative path become a path of the host.
HostPath(source) ==
  CASE source.kind \in {"named", "none"} -> [kind |-> "absolute", at |-> "/var/lib/docker/volumes/"]
    [] source.kind = "relative" -> [kind |-> "absolute", at |-> "/clone/"]
    [] OTHER -> source

\* The image brings an environment, a label only if it is labelled, and an exposed port.
ComposeService(svc, vars, external) ==
  [image |-> [svc.image EXCEPT !.tag = Interpolate(@, vars)],
   env |-> Over([k \in DOMAIN svc.environment |-> Interpolate(svc.environment[k], vars)],
                OneKey("PATH", "/bin")),
   bindings |-> {[host |-> IF p.host = "" THEN "32768" ELSE p.host,
                  container |-> p.container, proto |-> IF p.proto = "" THEN "tcp" ELSE p.proto] :
                    p \in ToSet(svc.ports)}
                \cup {[host |-> "", container |-> "9", proto |-> "tcp"]},
   mounts |-> {[source |-> HostPath(v.source), target |-> v.target, rw |-> "ro" \notin v.mode] :
                 v \in ComposeVolumes(svc.volumes)},
   nets |-> IF svc.networks = {} THEN {<<"project", "default">>}
            ELSE {IF n \in external THEN <<"", n>> ELSE <<"project", n>> : n \in svc.networks},
   labels |-> Over(svc.labels,
                   Over(OneKey(ComposeKey, "p"),
                        IF svc.image.labelled THEN OneKey("vendor", "acme") ELSE OneKey(DesktopKey, "d"))),
   restart |-> IF svc.restart.name = "" THEN [name |-> "no", retries |-> ""] ELSE svc.restart,
   command |-> IF svc.command.words = << >> THEN <<"serve">> ELSE svc.command.words,
   entrypoint |-> svc.entrypoint.words]

ComposeMerged(c) ==
  LET upTo[i \in 1 .. Len(c.files)] ==
        IF i = 1 THEN c.files[1] ELSE ComposeMerge(upTo[i - 1], c.files[i]) IN
  upTo[Len(c.files)]
ComposeContainers(c) ==
  [n \in DOMAIN ComposeMerged(c) |-> ComposeService(ComposeMerged(c)[n], ComposeVars(c), c.external)]

-----------------------------------------------------------------------------
(* The inspector. *)

\* The number of retries is not read.
PolicyName(restart) == [name |-> restart.name, retries |-> ""]

filterComposeLabels(labels) == [k \in DOMAIN labels \ {ComposeKey} |-> labels[k]]

mapContainerToState(c) ==
  [image |-> c.image, environment |-> c.env, command |-> c.command,
   entrypoint |-> c.entrypoint,
   ports |-> c.bindings,
   volumes |-> {[source |-> m.source, target |-> m.target, ro |-> ~m.rw] : m \in c.mounts},
   networks |-> c.nets,
   labels |-> filterComposeLabels(c.labels),
   restart |-> PolicyName(c.restart)]

-----------------------------------------------------------------------------
(* The differ. *)

\* A reference with a port in its registry contains ":" and gets no default tag.
normalizeImage(i) ==
  [i EXCEPT !.tag = IF @ = "" /\ i.domain # "registry:5000" THEN "latest" ELSE @,
            !.ns = IF i.domain = "" /\ @ = "" THEN "library" ELSE @,
            !.domain = IF @ = "" THEN "docker.io" ELSE @]

compareEnvironment(desired, live) ==
  {<<"environment", k>> : k \in {k \in DOMAIN desired :
                                   k \notin DOMAIN live \/ live[k] # desired[k]}}

isDockerManagedLabel(k) == k \in {ComposeKey, DesktopKey}

compareLabels(desired, live) ==
  {<<"labels", k>> :
     k \in {k \in DOMAIN desired \cup DOMAIN live :
              IF k \in DOMAIN desired THEN k \notin DOMAIN live \/ live[k] # desired[k]
              ELSE ~isDockerManagedLabel(k)}}

portsEqual(desired, live) == ToSet(desired) \subseteq live

isNamedVolume(source) == source.kind = "named"
isDockerSocket(target) == target \in {"/var/run/docker.sock", "/run/docker.sock"}

\* Mutant: mounts are compared by their target only.
volumesEqualByTarget(desired, live) ==
  \A dv \in ToSet(desired) : \E lv \in live : lv.target = dv.target /\ lv.ro = dv.ro

\* Every desired mount is there; its source counts when it is a path.
volumesEqual(desired, live) ==
  \A dv \in ToSet(desired) : \E lv \in live :
    /\ lv.target = dv.target /\ lv.ro = dv.ro
    /\ isNamedVolume(dv.source) \/ isDockerSocket(dv.target) \/ dv.source = lv.source

filterDefaultNetworks(nets) == {n \in nets : n # <<"project", "default">>}

\* Restart policy, command and entrypoint count when they are given.
compareService(d, l) ==
  (IF normalizeImage(d.image) # normalizeImage(l.image) THEN {<<"image", "">>} ELSE {})
  \cup compareEnvironment(d.environment, l.environment)
  \cup (IF portsEqual(d.ports, l.ports) THEN {} ELSE {<<"ports", "">>})
  \cup (IF volumesEqual(d.volumes, l.volumes) THEN {} ELSE {<<"volumes", "">>})
  \cup (IF d.networks = filterDefaultNetworks(l.networks) THEN {} ELSE {<<"networks", "">>})
  \cup compareLabels(d.labels, l.labels)
  \cup (IF d.restart.name = "" \/ d.restart = l.restart THEN {} ELSE {<<"restartPolicy", "">>})
  \cup (IF d.command \in {<< >>, l.command} THEN {} ELSE {<<"command", "">>})
  \cup (IF d.entrypoint \in {<< >>, l.entrypoint} THEN {} ELSE {<<"entrypoint", "">>})

\* Services whose drift is ignored, and hooks.
Ignored(spec) ==
  LET Has(n, key) == key \in DOMAIN spec[n].labels IN
  {n \in DOMAIN spec : (Has(n, IgnoreDriftLabel) /\ spec[n].labels[IgnoreDriftLabel] = "true")
                       \/ Has(n, HookLabel)}

Diff(desired, live) ==
  LET wanted == DOMAIN desired \ Ignored(desired)
      found == DOMAIN live \ Ignored(desired) IN
  [toCreate |-> wanted \ found,
   toRemove |-> found \ wanted,
   toUpdate |-> {n \in wanted \cap found : compareService(desired[n], live[n]) # {}}]

InSync(diff) == diff.toCreate = {} /\ diff.toRemove = {} /\ diff.toUpdate = {}

Inspect(cs) == [n \in DOMAIN cs |-> mapContainerToState(cs[n])]
CurrentDiff == Diff(Parse(clone), Inspect(containers))

-----------------------------------------------------------------------------

\* Nothing has been deployed yet.
DriftInit ==
  /\ clone = FirstClone /\ containers = NoKeys
  /\ clean = FALSE /\ tampered = {} /\ tampers = 0

\* A commit arrives with the next sync of the clone.
CommitArrives(c) ==
  /\ tampers < MaxTampers /\ tampers' = tampers + 1
  /\ c # clone
  /\ clone' = c /\ clean' = FALSE /\ tampered' = {}
  /\ UNCHANGED containers

\* reconcileApp deploys exactly when the diff is not empty; up removes orphans when the
\* policy prunes and the diff has some.
DeployDrift ==
  /\ ~InSync(CurrentDiff)
  /\ containers' = Over(ComposeContainers(clone),
                        IF Prune /\ CurrentDiff.toRemove # {} THEN NoKeys ELSE containers)
  /\ clean' = TRUE /\ tampered' = {}
  /\ UNCHANGED <<clone, tampers>>

\* Somebody runs docker compose by hand on an altered file: one aspect of a container is
\* different.
Aspects == {"image", "environment", "ports", "volumes", "networks", "labels", "restart", "command",
            "entrypoint"}
Altered(c, aspect) ==
  CASE aspect = "image" -> [c EXCEPT !.image.tag = "by hand"]
    [] aspect = "environment" -> [c EXCEPT !.env = [k \in DOMAIN @ |-> "by hand"]]
    [] aspect = "ports" -> [c EXCEPT !.bindings = {}]
    [] aspect = "volumes" -> [c EXCEPT !.mounts = {[m EXCEPT !.source.at = "/by/hand"] : m \in @}]
    [] aspect = "networks" -> [c EXCEPT !.nets = @ \cup {<<"", "by hand">>}]
    [] aspect = "labels" -> [c EXCEPT !.labels = Over(@, OneKey("by hand", ""))]
    [] aspect = "restart" -> [c EXCEPT !.restart = [name |-> "by hand", retries |-> ""]]
    [] aspect = "command" -> [c EXCEPT !.command = <<"by hand">>]
    [] aspect = "entrypoint" -> [c EXCEPT !.entrypoint = <<"by hand">>]

Tamper(n, aspect) ==
  /\ tampers < MaxTampers /\ tampers' = tampers + 1
  /\ n \in DOMAIN containers
  /\ containers' = [containers EXCEPT ![n] = Altered(@, aspect)]
  /\ tampered' = IF containers' # containers THEN tampered \cup {<<n, aspect>>} ELSE tampered
  /\ UNCHANGED <<clone, clean>>

\* docker rm, and a service of the project that only the altered file has.
RemoveContainer(n) ==
  /\ tampers < MaxTampers /\ tampers' = tampers + 1
  /\ n \in DOMAIN containers
  /\ containers' = [m \in DOMAIN containers \ {n} |-> containers[m]]
  /\ tampered' = {t \in tampered : t[1] # n}
                   \cup IF n \in DOMAIN Parse(clone) THEN {<<n, "container">>} ELSE {}
  /\ UNCHANGED <<clone, clean>>

AddContainer(n) ==
  /\ tampers < MaxTampers /\ tampers' = tampers + 1
  /\ "stray" \notin DOMAIN containers /\ n \in DOMAIN containers
  /\ containers' = Over(containers, OneKey("stray", containers[n]))
  /\ tampered' = tampered \cup {<<"stray", "container">>}
  /\ UNCHANGED <<clone, clean>>

DriftNext ==
  \/ \E c \in Clones : CommitArrives(c)
  \/ DeployDrift
  \/ \E n \in DOMAIN containers :
       \/ \E aspect \in Aspects : Tamper(n, aspect)
       \/ RemoveContainer(n)
       \/ AddContainer(n)

DriftSpec == DriftInit /\ [][DriftNext]_driftVars

-----------------------------------------------------------------------------
(* Properties. *)

\* "The reconciliation loop must never produce false diffs" (docs/design.md:53): what docker
\* compose has just made of the files is in sync with what the parser reads in them
\* (parser.go, compare.go).
NoFalseDiff == clean /\ tampered = {} => InSync(CurrentDiff)

\* What the files say about a service that can be found changed: declared aspects, networks
\* and labels at any time, and the container itself.
Declares(spec, aspect) ==
  CASE aspect \in {"image", "networks", "labels", "container"} -> TRUE
    [] aspect = "environment" -> DOMAIN spec.environment # {}
    [] aspect = "ports" -> spec.ports # << >>
    [] aspect = "volumes" -> \E v \in ToSet(spec.volumes) :
                               ~isNamedVolume(v.source) /\ ~isDockerSocket(v.target)
    [] aspect = "restart" -> spec.restart.name # ""
    [] aspect = "command" -> spec.command # << >>
    [] aspect = "entrypoint" -> spec.entrypoint # << >>

\* A container that was removed, added or changed by hand in what the files declare shows in
\* the diff, so that self-heal repairs it, unless its service asks to be ignored
\* (Diff, compareService).
TamperIsSeen ==
  \A t \in tampered :
    LET spec == Parse(clone) IN
    \/ t[1] \in Ignored(spec)
    \/ t[1] \in DOMAIN spec /\ ~Declares(spec[t[1]], t[2])
    \/ ~InSync(CurrentDiff)

\* Does not hold: an application in sync has the containers that docker compose would make
\* of the files.  A variable, port or mount that a commit takes away is not looked for
\* (compare.go:123), so the commit is reported as synced without being deployed.
NoSkippedChange ==
  InSync(CurrentDiff) /\ tampered = {} =>
    \A n \in DOMAIN Parse(clone) \ Ignored(Parse(clone)) : containers[n] = ComposeContainers(clone)[n]

-----------------------------------------------------------------------------
(* The files that the theorems of DriftProofs are about.  Each conjunct     *)
(* excludes a way in which the parser and docker compose read a file       *)
(* differently.                                                            *)

\* The expressions in which variables are replaced.
Expressions(svc) == {svc.image.tag} \cup {svc.environment[k] : k \in DOMAIN svc.environment}

\* Required variables are there.
PlainExpression(e, env) ==
  /\ e.op \in {"text", "plain", ":-", "-", ":?"}
  /\ e.op = ":?" => Interpolate(e, env) # ""

\* The host port of each port is given; mounts have a path or a name, read-only ones no
\* other option, and one that a later one replaces is the same; networks are external; no
\* label is one that the inspector hides, nor does the image bring one; the restart policy
\* has no number of retries; commands of several words are lists.
PlainService(svc, c) ==
  /\ \A e \in Expressions(svc) : PlainExpression(e, ComposeVars(c))
  /\ \A i \in DOMAIN svc.ports : svc.ports[i].host # ""
  /\ \A i \in DOMAIN svc.volumes :
       /\ svc.volumes[i].source.kind \notin {"none", "relative"}
       /\ "ro" \in svc.volumes[i].mode => svc.volumes[i].mode = {"ro"}
       /\ \E v \in ComposeVolumes(svc.volumes) : parseVolumeString(v) = parseVolumeString(svc.volumes[i])
  /\ svc.networks \subseteq c.external
  /\ ComposeKey \notin DOMAIN svc.labels
  /\ svc.image.labelled => "vendor" \in DOMAIN svc.labels
  /\ svc.restart = PolicyName(svc.restart)
  /\ \A cmd \in {svc.command, svc.entrypoint} : ~(cmd.form = "string" /\ Len(cmd.words) > 1)

\* No secrets, no variable of .env that dockercd's environment also has with another value,
\* and a plain service wherever drift counts.
Plain(c) ==
  /\ DOMAIN c.secrets = {} /\ DOMAIN c.vault = {}
  /\ \A v \in DOMAIN c.dotenv \cap DOMAIN OsEnv : c.dotenv[v] = OsEnv[v]
  /\ \A n \in DOMAIN Merged(c) \ Ignored(Parse(c)) : PlainService(Merged(c)[n], c)

\* The values that stand for changes made by hand are new: no file has them.
ByHandIsNew(spec) ==
  /\ "tag" \in DOMAIN spec.image /\ spec.image.tag # "by hand"
  /\ \A k \in DOMAIN spec.environment : spec.environment[k] # "by hand"
  /\ \A v \in ToSet(spec.volumes) : v.source.at # "/by/hand"
  /\ <<"", "by hand">> \notin spec.networks
  /\ "by hand" \notin DOMAIN spec.labels
  /\ spec.restart.name # "by hand"
  /\ spec.command # <<"by hand">> /\ spec.entrypoint # <<"by hand">>
Recognisable(c) ==
  /\ "stray" \notin DOMAIN Parse(c)
  /\ \A n \in DOMAIN Parse(c) : ByHandIsNew(Parse(c)[n])
  /\ \A n \in DOMAIN ComposeMerged(c) :
       /\ "tag" \in DOMAIN ComposeMerged(c)[n].image
       /\ \A v \in ToSet(ComposeMerged(c)[n].volumes) : {"kind", "at"} \subseteq DOMAIN v.source
=============================================================================
