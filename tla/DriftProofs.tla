----------------------------- MODULE DriftProofs -----------------------------
(***************************************************************************)
(* Proofs about Drift: for every set of plain commits, what docker compose *)
(* has just made of the files is in sync, and for every set of commits     *)
(* what is changed by hand shows.                                          *)
(***************************************************************************)
EXTENDS Drift, TLAPS

AllClones == Clones \cup {FirstClone}

\* No one has touched the container of service n since it was deployed.
Untouched(n) == \A t \in tampered : t[1] # n

\* After a deploy each container that nobody touched is the one docker compose makes of the
\* files, and a service without a container has lost it to somebody.
DeployedInv ==
  /\ clone \in AllClones
  /\ clean =>
       /\ \A n \in DOMAIN containers :
            Untouched(n) => /\ n \in DOMAIN ComposeContainers(clone)
                            /\ containers[n] = ComposeContainers(clone)[n]
       /\ \A n \in DOMAIN ComposeContainers(clone) : n \in DOMAIN containers \/ ~Untouched(n)

\* The trace that a change by hand leaves in a container.
Marked(c, aspect) ==
  CASE aspect = "image" -> c.image.tag = "by hand"
    [] aspect = "environment" -> \A k \in DOMAIN c.env : c.env[k] = "by hand"
    [] aspect = "ports" -> c.bindings = {}
    [] aspect = "volumes" -> \A m \in c.mounts : m.source.at = "/by/hand"
    [] aspect = "networks" -> <<"", "by hand">> \in c.nets
    [] aspect = "labels" -> "by hand" \in DOMAIN c.labels
    [] aspect = "restart" -> c.restart.name = "by hand"
    [] aspect = "command" -> c.command = <<"by hand">>
    [] aspect = "entrypoint" -> c.entrypoint = <<"by hand">>

ContainerFields ==
  {"image", "env", "bindings", "mounts", "nets", "labels", "restart", "command", "entrypoint"}
IsContainer(c) ==
  /\ DOMAIN c = ContainerFields
  /\ "tag" \in DOMAIN c.image
  /\ \A m \in c.mounts : {"source", "target", "rw"} \subseteq DOMAIN m /\ "at" \in DOMAIN m.source

\* Every change by hand that was not undone is there to be seen: a container that lacks, a
\* container too many, or the trace in the one that was changed.
TraceInv ==
  /\ clone \in AllClones
  /\ \A n \in DOMAIN containers : IsContainer(containers[n])
  /\ \A t \in tampered :
       \/ /\ t[2] = "container"
          /\ t[1] \in DOMAIN Parse(clone) <=> t[1] \notin DOMAIN containers
       \/ t[2] \in Aspects /\ t[1] \in DOMAIN containers /\ Marked(containers[t[1]], t[2])

-----------------------------------------------------------------------------
(* What the operators of the model return. *)

\* Over has the keys of both, and the values of the first where it has one.
LEMMA OverFacts ==
  ASSUME NEW f, NEW g
  PROVE /\ DOMAIN Over(f, g) = DOMAIN f \cup DOMAIN g
        /\ \A k \in DOMAIN f : Over(f, g)[k] = f[k]
        /\ \A k \in DOMAIN g \ DOMAIN f : Over(f, g)[k] = g[k]
  BY SMTT(60) DEF Over

LEMMA OneKeyFacts ==
  ASSUME NEW key, NEW value
  PROVE DOMAIN OneKey(key, value) = {key} /\ OneKey(key, value)[key] = value
  BY DEF OneKey

LEMMA OneKeyAdded ==
  ASSUME NEW f, NEW key, NEW value
  PROVE /\ DOMAIN Over(f, OneKey(key, value)) = DOMAIN f \cup {key}
        /\ \A k \in DOMAIN f : Over(f, OneKey(key, value))[k] = f[k]
        /\ key \notin DOMAIN f => Over(f, OneKey(key, value))[key] = value
  BY DEF Over, OneKey

-----------------------------------------------------------------------------
(* The merge of files. *)

\* Attribute by attribute, the parser merges a service as docker compose does.
LEMMA ServicesMergeAlike ==
  ASSUME NEW b, NEW o
  PROVE mergeService(b, o) = [k \in Attributes |-> MergeAttribute(k, b[k], o[k])]
<1> DEFINE m == mergeService(b, o)
<1>1. m = [k \in Attributes |-> m[k]]
  BY ZenonT(60) DEF mergeService, Attributes
<1>2. m.image = MergeAttribute("image", b.image, o.image)
  BY Zenon DEF mergeService, MergeAttribute
<1>3. m.restart = MergeAttribute("restart", b.restart, o.restart)
  BY Zenon DEF mergeService, MergeAttribute
<1>4. m.command = MergeAttribute("command", b.command, o.command)
  BY Zenon DEF mergeService, MergeAttribute
<1>5. m.entrypoint = MergeAttribute("entrypoint", b.entrypoint, o.entrypoint)
  BY Zenon DEF mergeService, MergeAttribute
<1>6. m.environment = MergeAttribute("environment", b.environment, o.environment)
  BY Zenon DEF mergeService, MergeAttribute, mergeMaps
<1>7. m.labels = MergeAttribute("labels", b.labels, o.labels)
  BY Zenon DEF mergeService, MergeAttribute, mergeMaps
<1>8. m.ports = MergeAttribute("ports", b.ports, o.ports)
  BY Zenon DEF mergeService, MergeAttribute
<1>9. m.volumes = MergeAttribute("volumes", b.volumes, o.volumes)
  BY ZenonT(60) DEF mergeService, MergeAttribute
<1>10. m.networks = MergeAttribute("networks", b.networks, o.networks)
  BY Zenon DEF mergeService, MergeAttribute
<1> HIDE DEF m
<1>11. \A k \in Attributes : m[k] = MergeAttribute(k, b[k], o[k])
  BY <1>2, <1>3, <1>4, <1>5, <1>6, <1>7, <1>8, <1>9, <1>10 DEF Attributes
<1>12. m = [k \in Attributes |-> MergeAttribute(k, b[k], o[k])]
  BY <1>1, <1>11, Zenon
<1> QED
  BY <1>12, Zenon DEF m

LEMMA TwoFilesMergeAlike ==
  ASSUME NEW base, NEW override
  PROVE mergeCompose(base, override) = ComposeMerge(base, override)
<1> DEFINE names == DOMAIN base \cup DOMAIN override
           Ours(n) == IF n \notin DOMAIN override THEN base[n]
                      ELSE IF n \notin DOMAIN base THEN override[n]
                      ELSE mergeService(base[n], override[n])
           Theirs(n) == IF n \in DOMAIN base \cap DOMAIN override
                        THEN [k \in Attributes |-> MergeAttribute(k, base[n][k], override[n][k])]
                        ELSE IF n \in DOMAIN base THEN base[n] ELSE override[n]
<1>1. \A n : mergeService(base[n], override[n]) =
                [k \in Attributes |-> MergeAttribute(k, base[n][k], override[n][k])]
  BY ServicesMergeAlike, Zenon
<1>2. \A n \in names : Ours(n) = Theirs(n)
  BY <1>1, Zenon
<1>3. mergeCompose(base, override) = [n \in names |-> Ours(n)] /\ ComposeMerge(base, override) = [n \in names |-> Theirs(n)]
  BY Zenon DEF mergeCompose, ComposeMerge
<1> HIDE DEF names, Ours, Theirs
<1> QED
  BY <1>2, <1>3

\* mergeCompose puts any number of files together as docker compose does (merge.go): the
\* equations of the two recursions have the same solutions, since each step agrees.
THEOREM FilesMergeAlike ==
  ASSUME NEW c
  PROVE Merged(c) = ComposeMerged(c)
<1> DEFINE files == c.files
           Ours(f) == f = [i \in 1 .. Len(files) |->
                             IF i = 1 THEN files[1] ELSE mergeCompose(f[i - 1], files[i])]
           Theirs(f) == f = [i \in 1 .. Len(files) |->
                               IF i = 1 THEN files[1] ELSE ComposeMerge(f[i - 1], files[i])]
<1>1. \A f : Ours(f) <=> Theirs(f)
  BY TwoFilesMergeAlike
<1>2. (CHOOSE f : Ours(f)) = (CHOOSE f : Theirs(f))
  <2> HIDE DEF Ours, Theirs
  <2> QED
    BY <1>1
<1> QED
  BY <1>2, Zenon DEF Merged, ComposeMerged

LEMMA ComposeContainersFacts ==
  ASSUME NEW c
  PROVE /\ DOMAIN ComposeContainers(c) = DOMAIN Merged(c)
        /\ \A n \in DOMAIN Merged(c) :
             ComposeContainers(c)[n] = ComposeService(Merged(c)[n], ComposeVars(c), c.external)
  BY FilesMergeAlike, Zenon DEF ComposeContainers

\* Parse leaves everything but the environment as toServiceSpec makes it.
LEMMA ParseFacts ==
  ASSUME NEW c, NEW n \in DOMAIN Merged(c)
  PROVE LET t == toServiceSpec(Merged(c)[n], Over(c.secrets, c.dotenv)) IN
        /\ Parse(c)[n].image = t.image
        /\ Parse(c)[n].environment = Resolved(t.environment, c.vault)
        /\ Parse(c)[n].ports = t.ports
        /\ Parse(c)[n].volumes = t.volumes
        /\ Parse(c)[n].networks = t.networks
        /\ Parse(c)[n].labels = t.labels
        /\ Parse(c)[n].restart = t.restart
        /\ Parse(c)[n].command = t.command
        /\ Parse(c)[n].entrypoint = t.entrypoint
<1> DEFINE t == toServiceSpec(Merged(c)[n], Over(c.secrets, c.dotenv))
           fields == {"image", "environment", "ports", "volumes", "networks", "labels", "restart",
                      "command", "entrypoint"}
<1>1. Parse(c)[n] = [t EXCEPT !.environment = Resolved(@, c.vault)]
  BY DEF Parse
<1>2. DOMAIN t = fields
  BY DEF toServiceSpec
<1>3. \A r, v : DOMAIN r = fields =>
        LET u == [r EXCEPT !.environment = v] IN
        /\ u.environment = v
        /\ \A f \in fields \ {"environment"} : u[f] = r[f]
  OBVIOUS
<1> HIDE DEF t
<1>4. Parse(c)[n].environment = Resolved(t.environment, c.vault)
  BY <1>1, <1>2, <1>3, Zenon
<1>5. \A f \in fields \ {"environment"} : Parse(c)[n][f] = t[f]
  BY <1>1, <1>2, <1>3, Zenon
<1> QED
  BY <1>4, <1>5, SMTT(60) DEF t

LEMMA ParseDomain ==
  ASSUME NEW c
  PROVE DOMAIN Parse(c) = DOMAIN Merged(c)
  BY Zenon DEF Parse

\* Where dockercd's environment and .env do not disagree and there are no secrets, the
\* parser and docker compose give a variable the same value.
LEMMA SameValue ==
  ASSUME NEW c, Plain(c), NEW e, PlainExpression(e, ComposeVars(c))
  PROVE resolveExpr(e, Over(c.secrets, c.dotenv)) = Interpolate(e, ComposeVars(c))
<1> DEFINE vars == Over(c.secrets, c.dotenv)
           env == ComposeVars(c)
<1>0. DOMAIN c.secrets = {} /\ \A v \in DOMAIN c.dotenv \cap DOMAIN OsEnv : c.dotenv[v] = OsEnv[v]
  BY Zenon DEF Plain
<1>1. DOMAIN vars = DOMAIN c.dotenv /\ \A v \in DOMAIN c.dotenv : vars[v] = c.dotenv[v]
  <2>1. \A f, g : DOMAIN f = {} => /\ DOMAIN Over(f, g) = DOMAIN g
                                   /\ \A v \in DOMAIN g : Over(f, g)[v] = g[v]
    BY DEF Over
  <2> QED
    BY <1>0, <2>1, ZenonT(60)
<1>2. /\ DOMAIN env = DOMAIN OsEnv \cup DOMAIN c.dotenv
      /\ \A v \in DOMAIN OsEnv : env[v] = OsEnv[v]
      /\ \A v \in DOMAIN c.dotenv : env[v] = c.dotenv[v]
  <2> DEFINE f == OsEnv
             g == c.dotenv
  <2>1. \A v \in DOMAIN g \cap DOMAIN f : g[v] = f[v]
    BY <1>0, Zenon
  <2>2. env = Over(f, g)
    BY Zenon DEF ComposeVars
  <2> HIDE DEF f, g, env
  <2>3. DOMAIN env = DOMAIN f \cup DOMAIN g /\ \A v \in DOMAIN f : env[v] = f[v]
    BY <2>2, Zenon DEF Over
  <2>4. \A v \in DOMAIN g : env[v] = g[v]
    BY <2>1, <2>2, Zenon DEF Over
  <2> QED
    BY <2>3, <2>4, Zenon DEF f, g
<1>3. /\ e.op \in {"text", "plain", ":-", "-", ":?"}
      /\ e.op = ":?" => Interpolate(e, env) # ""
  BY Zenon DEF PlainExpression
<1> HIDE DEF vars, env
<1>4. lookupVar(e.var, vars) = IF e.var \in DOMAIN env THEN env[e.var] ELSE ""
  <2> DEFINE v == e.var
  <2> HIDE DEF v
  <2>1. lookupVar(v, vars) = IF v \in DOMAIN env THEN env[v] ELSE ""
    BY <1>1, <1>2, Zenon DEF lookupVar
  <2> QED
    BY <2>1, Zenon DEF v
<1>5. DOMAIN vars \cup DOMAIN OsEnv = DOMAIN env
  BY <1>1, <1>2
<1>6. resolveExpr(e, vars) = Interpolate(e, env)
  BY <1>3, <1>4, <1>5, Zenon DEF resolveExpr, Interpolate
<1> QED
  BY <1>6 DEF vars, env

-----------------------------------------------------------------------------
(* What is read back of a container that docker compose made is what the   *)
(* parser reads in the file.                                               *)

LEMMA ImageRoundTrip ==
  ASSUME NEW c, Plain(c), NEW svc, PlainService(svc, c)
  PROVE toServiceSpec(svc, Over(c.secrets, c.dotenv)).image
          = ComposeService(svc, ComposeVars(c), c.external).image
<1>1. PlainExpression(svc.image.tag, ComposeVars(c))
  BY Zenon DEF PlainService, Expressions
<1>2. resolveExpr(svc.image.tag, Over(c.secrets, c.dotenv)) = Interpolate(svc.image.tag, ComposeVars(c))
  BY <1>1, SameValue, Zenon
<1> QED
  BY <1>2, Zenon DEF toServiceSpec, ComposeService

LEMMA EnvironmentRoundTrip ==
  ASSUME NEW c, Plain(c), NEW svc, PlainService(svc, c)
  PROVE compareEnvironment(
          Resolved(toServiceSpec(svc, Over(c.secrets, c.dotenv)).environment, c.vault),
          ComposeService(svc, ComposeVars(c), c.external).env) = {}
<1> DEFINE vars == Over(c.secrets, c.dotenv)
           env == ComposeVars(c)
           se == svc.environment
           parsed == [k \in DOMAIN se |-> resolveExpr(se[k], vars)]
           made == [k \in DOMAIN se |-> Interpolate(se[k], env)]
           path == OneKey("PATH", "/bin")
<1>1. \A k \in DOMAIN se : resolveExpr(se[k], vars) = Interpolate(se[k], env)
  <2> TAKE k \in DOMAIN se
  <2>1. PlainExpression(se[k], env)
    BY Zenon DEF PlainService, Expressions
  <2> QED
    BY <2>1, SameValue, Zenon
<1>2. DOMAIN c.vault = {}
  BY Zenon DEF Plain
<1>3. toServiceSpec(svc, vars).environment = parsed
  BY Zenon DEF toServiceSpec
<1>4. ComposeService(svc, env, c.external).env = Over(made, path)
  BY Zenon DEF ComposeService
<1>5. DOMAIN parsed = DOMAIN se /\ DOMAIN made = DOMAIN se /\ \A k \in DOMAIN se : parsed[k] = made[k]
  BY <1>1, Zenon
<1> HIDE DEF vars, env, se, parsed, made, path
<1>6. \A f, v : DOMAIN v = {} => /\ DOMAIN Resolved(f, v) = DOMAIN f
                                 /\ \A k \in DOMAIN f : Resolved(f, v)[k] = f[k]
  BY DEF Resolved
<1>7. \A f, g, h : DOMAIN f = DOMAIN g /\ (\A k \in DOMAIN f : f[k] = g[k])
                     => compareEnvironment(f, Over(g, h)) = {}
  BY ZenonT(60) DEF compareEnvironment, Over
<1>8. compareEnvironment(Resolved(parsed, c.vault), Over(made, path)) = {}
  <2> DEFINE r == Resolved(parsed, c.vault)
  <2>1. DOMAIN r = DOMAIN made /\ \A k \in DOMAIN r : r[k] = made[k]
    <3>1. DOMAIN r = DOMAIN parsed /\ \A k \in DOMAIN parsed : r[k] = parsed[k]
      BY <1>2, <1>6, Zenon
    <3> HIDE DEF r
    <3> QED
      BY <1>5, <3>1, Zenon
  <2> HIDE DEF r
  <2>2. compareEnvironment(r, Over(made, path)) = {}
    BY <1>7, <2>1, Zenon
  <2> QED
    BY <2>2 DEF r
<1> QED
  BY <1>3, <1>4, <1>8, Zenon DEF vars, env

LEMMA PortsRoundTrip ==
  ASSUME NEW c, NEW svc, PlainService(svc, c), NEW vars
  PROVE portsEqual(toServiceSpec(svc, vars).ports, ComposeService(svc, ComposeVars(c), c.external).bindings)
<1> DEFINE ps == svc.ports
           Bound(p) == [host |-> IF p.host = "" THEN "32768" ELSE p.host,
                        container |-> p.container, proto |-> IF p.proto = "" THEN "tcp" ELSE p.proto]
           exposed == {[host |-> "", container |-> "9", proto |-> "tcp"]}
           parsed == [i \in DOMAIN ps |-> parsePortString(ps[i])]
<1>1. toServiceSpec(svc, vars).ports = parsed
  BY Zenon DEF toServiceSpec
<1>2. ComposeService(svc, ComposeVars(c), c.external).bindings = {Bound(p) : p \in ToSet(ps)} \cup exposed
  BY Zenon DEF ComposeService
<1>3. \A i \in DOMAIN ps : ps[i].host # ""
  BY Zenon DEF PlainService
<1>4. \A p : p.host # "" => parsePortString(p) = Bound(p)
  BY Zenon DEF parsePortString
<1>5. \A i \in DOMAIN ps : ps[i] \in ToSet(ps)
  BY Zenon DEF ToSet
<1>6. ToSet(parsed) = {parsePortString(ps[i]) : i \in DOMAIN ps}
  BY Zenon DEF ToSet
<1> HIDE DEF ps, Bound, exposed, parsed
<1>7. ToSet(parsed) \subseteq {Bound(p) : p \in ToSet(ps)} \cup exposed
  BY <1>3, <1>4, <1>5, <1>6, Zenon
<1> QED
  BY <1>1, <1>2, <1>7, Zenon DEF portsEqual

LEMMA NetworksRoundTrip ==
  ASSUME NEW c, NEW svc, PlainService(svc, c), NEW vars
  PROVE toServiceSpec(svc, vars).networks
          = filterDefaultNetworks(ComposeService(svc, ComposeVars(c), c.external).nets)
<1> DEFINE ns == svc.networks
           made == IF ns = {} THEN {<<"project", "default">>}
                   ELSE {IF n \in c.external THEN <<"", n>> ELSE <<"project", n>> : n \in ns}
<1>1. toServiceSpec(svc, vars).networks = {<<"", n>> : n \in ns}
  BY Zenon DEF toServiceSpec
<1>2. ComposeService(svc, ComposeVars(c), c.external).nets = made
  BY Zenon DEF ComposeService
<1>3. ns \subseteq c.external
  BY ZenonT(60) DEF PlainService
<1> HIDE DEF ns
<1>4. CASE ns = {}
  <2>1. filterDefaultNetworks(made) = {}
    BY <1>4 DEF filterDefaultNetworks
  <2> QED
    BY <1>1, <1>2, <1>4, <2>1, SMTT(60)
<1>5. CASE ns # {}
  <2>1. made = {<<"", n>> : n \in ns}
    BY <1>3, <1>5, Zenon
  <2>2. \A n : <<"", n>> # <<"project", "default">>
    OBVIOUS
  <2>3. filterDefaultNetworks({<<"", n>> : n \in ns}) = {<<"", n>> : n \in ns}
    BY <2>2, Zenon DEF filterDefaultNetworks
  <2> QED
    BY <1>1, <1>2, <2>1, <2>3, Zenon
<1> QED
  BY <1>4, <1>5

LEMMA LabelsRoundTrip ==
  ASSUME NEW c, NEW svc, PlainService(svc, c), NEW vars
  PROVE compareLabels(toServiceSpec(svc, vars).labels,
          filterComposeLabels(ComposeService(svc, ComposeVars(c), c.external).labels)) = {}
<1> DEFINE ls == svc.labels
           own == OneKey(ComposeKey, "p")
           brought == IF svc.image.labelled THEN OneKey("vendor", "acme") ELSE OneKey(DesktopKey, "d")
           made == Over(ls, Over(own, brought))
           seen == filterComposeLabels(made)
<1>1. toServiceSpec(svc, vars).labels = ls
  BY Zenon DEF toServiceSpec
<1>2. ComposeService(svc, ComposeVars(c), c.external).labels = made
  BY Zenon DEF ComposeService
<1>3. ComposeKey \notin DOMAIN ls /\ (svc.image.labelled => "vendor" \in DOMAIN ls)
  BY Zenon DEF PlainService
<1>4. DOMAIN own = {ComposeKey}
  BY OneKeyFacts, Zenon
<1>5. \A k \in DOMAIN brought : k \in DOMAIN ls \/ k = DesktopKey
  <2>1. DOMAIN OneKey("vendor", "acme") = {"vendor"} /\ DOMAIN OneKey(DesktopKey, "d") = {DesktopKey}
    BY OneKeyFacts, Zenon
  <2> QED
    BY <1>3, <2>1, Zenon
<1> HIDE DEF own, brought
<1> DEFINE added == Over(own, brought)
<1>6. \A k \in DOMAIN added : k \in DOMAIN ls \/ k \in {ComposeKey, DesktopKey}
  <2>1. DOMAIN added = DOMAIN own \cup DOMAIN brought
    BY OverFacts, Zenon
  <2> HIDE DEF added
  <2> QED
    BY <1>4, <1>5, <2>1
<1> HIDE DEF added
<1>7. /\ DOMAIN made = DOMAIN ls \cup DOMAIN added
      /\ \A k \in DOMAIN ls : made[k] = ls[k]
  <2>1. made = Over(ls, added)
    BY Zenon DEF added
  <2> HIDE DEF ls
  <2> QED
    BY <2>1, OverFacts, ZenonT(60)
<1> HIDE DEF made
<1>8. DOMAIN seen = DOMAIN made \ {ComposeKey} /\ \A k \in DOMAIN seen : seen[k] = made[k]
  BY Zenon DEF filterComposeLabels
<1> HIDE DEF seen, ls
<1>9. compareLabels(ls, seen) = {}
  BY <1>3, <1>6, <1>7, <1>8, Zenon DEF compareLabels, isDockerManagedLabel
<1> QED
  BY <1>1, <1>2, <1>9, Zenon DEF seen

LEMMA VolumesRoundTrip ==
  ASSUME NEW c, NEW svc, PlainService(svc, c), NEW vars
  PROVE LET k == ComposeService(svc, ComposeVars(c), c.external) IN
        volumesEqual(toServiceSpec(svc, vars).volumes,
          {[source |-> m.source, target |-> m.target, ro |-> ~m.rw] : m \in k.mounts})
<1> DEFINE vs == svc.volumes
           parsed == [i \in DOMAIN vs |-> parseVolumeString(vs[i])]
           Mount(v) == [source |-> HostPath(v.source), target |-> v.target, rw |-> "ro" \notin v.mode]
           Seen(m) == [source |-> m.source, target |-> m.target, ro |-> ~m.rw]
           mounts == {Mount(v) : v \in ComposeVolumes(vs)}
           seen == {Seen(m) : m \in mounts}
<1>1. toServiceSpec(svc, vars).volumes = parsed
  BY Zenon DEF toServiceSpec
<1>2. ComposeService(svc, ComposeVars(c), c.external).mounts = mounts
  BY Zenon DEF ComposeService
<1>3. \A i \in DOMAIN vs :
        /\ vs[i].source.kind \notin {"none", "relative"}
        /\ \E v \in ComposeVolumes(vs) : parseVolumeString(v) = parseVolumeString(vs[i])
  BY Zenon DEF PlainService
<1>a. \A v \in ComposeVolumes(vs) : "ro" \in v.mode => v.mode = {"ro"}
  BY Zenon DEF PlainService, ComposeVolumes
<1>4. \A source : source.kind \notin {"none", "relative"} => isNamedVolume(source) \/ HostPath(source) = source
  BY Zenon DEF isNamedVolume, HostPath
<1>5. \A v : parseVolumeString(v) = [source |-> v.source, target |-> v.target, ro |-> v.mode = {"ro"}]
  BY Zenon DEF parseVolumeString
<1>6. \A v \in ComposeVolumes(vs) :
        Seen(Mount(v)) = [source |-> HostPath(v.source), target |-> v.target, ro |-> v.mode = {"ro"}]
  <2> TAKE v \in ComposeVolumes(vs)
  <2>1. (~("ro" \notin v.mode)) = (v.mode = {"ro"})
    <3>1. "ro" \in v.mode <=> v.mode = {"ro"}
      BY <1>a, Zenon
    <3> QED
      BY <3>1
  <2>2. Seen(Mount(v)) = [source |-> HostPath(v.source), target |-> v.target, ro |-> ~("ro" \notin v.mode)]
    BY Zenon
  <2> QED
    BY <2>1, <2>2, Zenon
<1>7. \A dv \in ToSet(parsed) : \E i \in DOMAIN vs : dv = parseVolumeString(vs[i])
  BY Zenon DEF ToSet
<1>8. \A v \in ComposeVolumes(vs) : Seen(Mount(v)) \in seen
  BY Zenon
<1> HIDE DEF vs, parsed, Mount, Seen, mounts, seen
<1>9. ASSUME NEW dv \in ToSet(parsed)
      PROVE \E lv \in seen :
              /\ lv.target = dv.target /\ lv.ro = dv.ro
              /\ isNamedVolume(dv.source) \/ isDockerSocket(dv.target) \/ dv.source = lv.source
  <2>1. PICK i \in DOMAIN vs : dv = parseVolumeString(vs[i])
    BY <1>7
  <2>2. PICK v \in ComposeVolumes(vs) : parseVolumeString(v) = dv
    BY <1>3, <2>1
  <2>3. dv.source = v.source /\ dv.target = v.target /\ dv.ro = (v.mode = {"ro"})
    BY <1>5, <2>2
  <2>4. dv.source = vs[i].source
    BY <1>5, <2>1, SMTT(60)
  <2>5. isNamedVolume(dv.source) \/ HostPath(dv.source) = dv.source
    BY <1>3, <1>4, <2>1, <2>4, Zenon
  <2>6. /\ Seen(Mount(v)).source = HostPath(v.source) /\ Seen(Mount(v)).target = v.target
        /\ Seen(Mount(v)).ro = (v.mode = {"ro"})
    BY <1>6
  <2> QED
    BY <1>8, <2>2, <2>3, <2>5, <2>6, Zenon
<1>10. volumesEqual(parsed, seen)
  BY <1>9, Zenon DEF volumesEqual
<1> QED
  BY <1>1, <1>2, <1>10, ZenonT(60) DEF seen, Seen

LEMMA CommandRoundTrip ==
  ASSUME NEW c, NEW svc, PlainService(svc, c), NEW vars
  PROVE LET d == toServiceSpec(svc, vars)
            k == ComposeService(svc, ComposeVars(c), c.external) IN
        /\ d.restart.name = "" \/ d.restart = PolicyName(k.restart)
        /\ d.command \in {<< >>, k.command}
        /\ d.entrypoint = svc.entrypoint.words
<1>1. \A cmd \in {svc.command, svc.entrypoint} : parseCommand(cmd) = cmd.words
  BY Zenon DEF PlainService, parseCommand
<1>2. /\ toServiceSpec(svc, vars).restart = svc.restart
      /\ toServiceSpec(svc, vars).command = parseCommand(svc.command)
      /\ toServiceSpec(svc, vars).entrypoint = parseCommand(svc.entrypoint)
  BY Zenon DEF toServiceSpec
<1>3. LET k == ComposeService(svc, ComposeVars(c), c.external) IN
      /\ svc.restart.name # "" => k.restart = svc.restart
      /\ k.command = IF svc.command.words = << >> THEN <<"serve">> ELSE svc.command.words
  BY Zenon DEF ComposeService
<1>4. svc.restart = PolicyName(svc.restart)
  BY Zenon DEF PlainService
<1> QED
  BY <1>1, <1>2, <1>3, <1>4, Zenon

\* A plain service whose container docker compose has just made shows no difference.
LEMMA RoundTrip ==
  ASSUME NEW c, Plain(c), NEW n \in DOMAIN Merged(c) \ Ignored(Parse(c))
  PROVE compareService(Parse(c)[n], mapContainerToState(ComposeContainers(c)[n])) = {}
<1> DEFINE svc == Merged(c)[n]
           vars == Over(c.secrets, c.dotenv)
           k == ComposeService(svc, ComposeVars(c), c.external)
           d == Parse(c)[n]
           l == mapContainerToState(k)
<1>1. PlainService(svc, c)
  BY Zenon DEF Plain
<1>2. ComposeContainers(c)[n] = k
  BY ComposeContainersFacts, Zenon
<1>3. /\ l.image = k.image /\ l.environment = k.env /\ l.ports = k.bindings
      /\ l.volumes = {[source |-> m.source, target |-> m.target, ro |-> ~m.rw] : m \in k.mounts}
      /\ l.networks = k.nets /\ l.labels = filterComposeLabels(k.labels)
      /\ l.restart = PolicyName(k.restart) /\ l.command = k.command /\ l.entrypoint = k.entrypoint
  BY Zenon DEF mapContainerToState
<1>4. k.entrypoint = svc.entrypoint.words
  BY Zenon DEF ComposeService
<1> DEFINE t == toServiceSpec(svc, vars)
<1>5. /\ d.image = t.image /\ d.environment = Resolved(t.environment, c.vault)
      /\ d.ports = t.ports /\ d.volumes = t.volumes
      /\ d.networks = t.networks /\ d.labels = t.labels
      /\ d.restart = t.restart /\ d.command = t.command /\ d.entrypoint = t.entrypoint
  BY ParseFacts, Zenon
<1>6. t.image = k.image
  BY <1>1, ImageRoundTrip, Zenon
<1>7. compareEnvironment(Resolved(t.environment, c.vault), k.env) = {}
  BY <1>1, EnvironmentRoundTrip, Zenon
<1>8. portsEqual(t.ports, k.bindings)
  BY <1>1, PortsRoundTrip, Zenon
<1>9. volumesEqual(t.volumes, {[source |-> m.source, target |-> m.target, ro |-> ~m.rw] : m \in k.mounts})
  BY <1>1, VolumesRoundTrip, Zenon
<1>10. t.networks = filterDefaultNetworks(k.nets)
  BY <1>1, NetworksRoundTrip, Zenon
<1>11. compareLabels(t.labels, filterComposeLabels(k.labels)) = {}
  BY <1>1, LabelsRoundTrip, Zenon
<1>12. /\ t.restart.name = "" \/ t.restart = PolicyName(k.restart)
       /\ t.command \in {<< >>, k.command} /\ t.entrypoint = svc.entrypoint.words
  BY <1>1, CommandRoundTrip, ZenonT(60)
<1> HIDE DEF d, l, t, k
<1>13. normalizeImage(d.image) = normalizeImage(l.image)
  BY <1>3, <1>5, <1>6, Zenon
<1>14. compareEnvironment(d.environment, l.environment) = {}
  BY <1>3, <1>5, <1>7, Zenon
<1>15. portsEqual(d.ports, l.ports)
  BY <1>3, <1>5, <1>8, Zenon
<1>16. volumesEqual(d.volumes, l.volumes)
  BY <1>3, <1>5, <1>9, Zenon
<1>17. d.networks = filterDefaultNetworks(l.networks)
  BY <1>3, <1>5, <1>10, Zenon
<1>18. compareLabels(d.labels, l.labels) = {}
  BY <1>3, <1>5, <1>11, Zenon
<1>19. /\ d.restart.name = "" \/ d.restart = l.restart
      /\ d.command \in {<< >>, l.command}
      /\ d.entrypoint \in {<< >>, l.entrypoint}
  BY <1>3, <1>4, <1>5, <1>12, Zenon
<1>20. compareService(d, l) = {}
  BY <1>13, <1>14, <1>15, <1>16, <1>17, <1>18, <1>19, Zenon DEF compareService
<1> QED
  BY <1>2, <1>20, Zenon DEF d, l

\* So what docker compose has just made of plain files is in sync.
LEMMA DeployedIsInSync ==
  ASSUME NEW c, Plain(c), NEW cs, DOMAIN cs = DOMAIN ComposeContainers(c),
         \A n \in DOMAIN cs : cs[n] = ComposeContainers(c)[n]
  PROVE InSync(Diff(Parse(c), Inspect(cs)))
<1> DEFINE desired == Parse(c)
           live == Inspect(cs)
           wanted == DOMAIN desired \ Ignored(desired)
<1>1. DOMAIN desired = DOMAIN Merged(c)
  BY ParseDomain, Zenon
<1>2. DOMAIN ComposeContainers(c) = DOMAIN Merged(c)
  BY ComposeContainersFacts, Zenon
<1>3. DOMAIN live = DOMAIN cs /\ \A n \in DOMAIN cs : live[n] = mapContainerToState(cs[n])
  BY Zenon DEF Inspect
<1>4. \A n \in wanted : compareService(desired[n], live[n]) = {}
  BY <1>1, <1>2, <1>3, RoundTrip, Zenon
<1> HIDE DEF desired, live
<1>5. DOMAIN live \ Ignored(desired) = wanted
  BY <1>1, <1>2, <1>3, Zenon
<1>6. /\ Diff(desired, live).toCreate = {}
      /\ Diff(desired, live).toRemove = {}
      /\ Diff(desired, live).toUpdate = {}
  BY <1>4, <1>5 DEF Diff
<1> QED
  BY <1>6, Zenon DEF InSync, desired, live

-----------------------------------------------------------------------------
(* No false diffs. *)

\* With prune, docker compose leaves no container behind that the files do not have.
LEMMA DeployLeavesNoOrphans ==
  ASSUME Prune, DeployDrift
  PROVE /\ DOMAIN containers' = DOMAIN ComposeContainers(clone)
        /\ \A n \in DOMAIN containers' : containers'[n] = ComposeContainers(clone)[n]
<1> DEFINE desired == Parse(clone)
           live == Inspect(containers)
           made == ComposeContainers(clone)
           rest == IF Prune /\ CurrentDiff.toRemove # {} THEN NoKeys ELSE containers
<1>1. DOMAIN desired = DOMAIN made
  BY ParseDomain, ComposeContainersFacts, Zenon
<1>2. DOMAIN live = DOMAIN containers
  BY Zenon DEF Inspect
<1>3. Ignored(desired) \subseteq DOMAIN desired
  BY Zenon DEF Ignored
<1>4. CurrentDiff.toRemove = (DOMAIN live \ Ignored(desired)) \ (DOMAIN desired \ Ignored(desired))
  BY Zenon DEF CurrentDiff, Diff
<1>5. containers' = Over(made, rest)
  BY Zenon DEF DeployDrift
<1>6. DOMAIN NoKeys = {}
  BY DEF NoKeys
<1>7. DOMAIN rest \subseteq DOMAIN made
  <2>1. CASE CurrentDiff.toRemove # {}
    BY <1>6, <2>1, Zenon
  <2>2. CASE CurrentDiff.toRemove = {}
    <3>1. rest = containers
      BY <2>2, Zenon
    <3> HIDE DEF desired, live, made, rest
    <3> QED
      BY <1>1, <1>2, <1>3, <1>4, <2>2, <3>1, Zenon
  <2> QED
    BY <2>1, <2>2, Zenon
<1> HIDE DEF made, rest
<1>8. /\ DOMAIN Over(made, rest) = DOMAIN made \cup DOMAIN rest
      /\ \A k \in DOMAIN made : Over(made, rest)[k] = made[k]
  BY OverFacts, Zenon
<1>9. DOMAIN containers' = DOMAIN made /\ \A n \in DOMAIN containers' : containers'[n] = made[n]
  BY <1>5, <1>7, <1>8
<1> QED
  BY <1>9, Zenon DEF made

LEMMA DeployedInit == DriftInit => DeployedInv
<1> SUFFICES ASSUME DriftInit PROVE DeployedInv
  OBVIOUS
<1>1. clone \in AllClones /\ ~clean
  BY Zenon DEF DriftInit, AllClones
<1> QED
  BY <1>1, Zenon DEF DeployedInv

\* A change made by hand takes the container, and only it, out of what is known of the
\* deploy.
LEMMA DeployedStep ==
  ASSUME Prune, DeployedInv, [DriftNext]_driftVars
  PROVE DeployedInv'
<1>1. CASE UNCHANGED driftVars
  BY <1>1, Zenon DEF driftVars, DeployedInv, Untouched
<1>2. ASSUME NEW c \in Clones, CommitArrives(c)
      PROVE DeployedInv'
  <2>1. clone' \in AllClones /\ clean' = FALSE
    BY <1>2, Zenon DEF CommitArrives, AllClones
  <2> QED
    BY <2>1, Zenon DEF DeployedInv
<1>3. CASE DeployDrift
  <2>1. clone \in AllClones /\ clone' = clone /\ tampered' = {}
    BY <1>3, Zenon DEF DeployDrift, DeployedInv
  <2>2. /\ DOMAIN containers' = DOMAIN ComposeContainers(clone)
        /\ \A n \in DOMAIN containers' : containers'[n] = ComposeContainers(clone)[n]
    BY <1>3, <2>1, DeployLeavesNoOrphans, Zenon
  <2> QED
    BY <2>1, <2>2, Zenon DEF DeployedInv
<1>4. ASSUME NEW n \in DOMAIN containers, NEW aspect \in Aspects, Tamper(n, aspect)
      PROVE DeployedInv'
  <2>1. /\ clone' = clone /\ clean' = clean /\ tampered \subseteq tampered'
        /\ containers' # containers => <<n, aspect>> \in tampered'
    BY <1>4, Zenon DEF Tamper
  <2>2. DOMAIN containers' = DOMAIN containers /\ \A m \in DOMAIN containers \ {n} : containers'[m] = containers[m]
    BY <1>4 DEF Tamper
  <2>3. containers' # containers => ~Untouched(n)'
    <3>1. <<n, aspect>>[1] = n
      OBVIOUS
    <3> QED
      BY <2>1, <3>1, Zenon DEF Untouched
  <2>4. \A m : Untouched(m)' => Untouched(m)
    BY <2>1, Zenon DEF Untouched
  <2>5. \A m \in DOMAIN containers' : Untouched(m)' => Untouched(m) /\ containers'[m] = containers[m]
    BY <2>2, <2>3, <2>4, Zenon
  <2> QED
    BY <2>1, <2>2, <2>4, <2>5, Zenon DEF DeployedInv
<1>5. ASSUME NEW n \in DOMAIN containers, RemoveContainer(n)
      PROVE DeployedInv'
  <2>1. /\ clone' = clone /\ clean' = clean
        /\ tampered' = {t \in tampered : t[1] # n}
                         \cup IF n \in DOMAIN Parse(clone) THEN {<<n, "container">>} ELSE {}
        /\ containers' = [m \in DOMAIN containers \ {n} |-> containers[m]]
    BY <1>5, Zenon DEF RemoveContainer
  <2>2. DOMAIN containers' = DOMAIN containers \ {n} /\ \A m \in DOMAIN containers' : containers'[m] = containers[m]
    BY <2>1
  <2>3. \A m : m # n /\ Untouched(m)' => Untouched(m)
    BY <2>1, Zenon DEF Untouched
  <2>4. n \in DOMAIN ComposeContainers(clone) => ~Untouched(n)'
    <3>1. DOMAIN ComposeContainers(clone) = DOMAIN Parse(clone)
      BY ParseDomain, ComposeContainersFacts, Zenon
    <3>2. <<n, "container">>[1] = n
      OBVIOUS
    <3> QED
      BY <2>1, <3>1, <3>2, Zenon DEF Untouched
  <2> QED
    BY <2>1, <2>2, <2>3, <2>4, Zenon DEF DeployedInv
<1>6. ASSUME NEW n \in DOMAIN containers, AddContainer(n)
      PROVE DeployedInv'
  <2>1. /\ clone' = clone /\ clean' = clean
        /\ tampered' = tampered \cup {<<"stray", "container">>}
        /\ containers' = Over(containers, OneKey("stray", containers[n]))
    BY <1>6, Zenon DEF AddContainer
  <2>2. /\ DOMAIN containers' = DOMAIN containers \cup {"stray"}
        /\ \A m \in DOMAIN containers : containers'[m] = containers[m]
    <3> DEFINE more == Over(containers, OneKey("stray", containers[n]))
    <3>1. DOMAIN more = DOMAIN containers \cup {"stray"} /\ \A m \in DOMAIN containers : more[m] = containers[m]
      BY DEF Over, OneKey
    <3>2. containers' = more
      BY <2>1
    <3> HIDE DEF more
    <3> QED
      BY <3>1, <3>2
  <2>3. \A m : Untouched(m)' => Untouched(m) /\ m # "stray"
    <3>1. <<"stray", "container">>[1] = "stray"
      OBVIOUS
    <3> QED
      BY <2>1, <3>1, Zenon DEF Untouched
  <2> QED
    BY <2>1, <2>2, <2>3, Zenon DEF DeployedInv
<1> QED
  BY <1>1, <1>2, <1>3, <1>4, <1>5, <1>6, Zenon DEF DriftNext

\* Where the policy prunes, each container that nobody has touched
\* since the deploy is the one that the files describe, and none lacks
\* (ComposeDeployer.Deploy, Parser.Parse).
THEOREM DeploysAreWhole ==
  ASSUME Prune
  PROVE DriftSpec => []DeployedInv
<1>1. DeployedInv /\ [DriftNext]_driftVars => DeployedInv'
  BY DeployedStep
<1> QED
  BY <1>1, DeployedInit, PTL DEF DriftSpec

\* "The reconciliation loop must never produce false diffs" (docs/design.md:53), for every
\* set of plain commits: right after a deploy that nobody has interfered with, the differ
\* finds nothing between what the parser reads and what the inspector reads back.
THEOREM PlainFilesStayInSync ==
  ASSUME Prune, \A c \in AllClones : Plain(c)
  PROVE DriftSpec => []NoFalseDiff
<1>1. DeployedInv => NoFalseDiff
  <2> SUFFICES ASSUME DeployedInv, clean, tampered = {}
               PROVE InSync(CurrentDiff)
    BY DEF NoFalseDiff
  <2>1. \A n : Untouched(n)
    BY Zenon DEF Untouched
  <2>2. /\ Plain(clone)
        /\ DOMAIN containers = DOMAIN ComposeContainers(clone)
        /\ \A n \in DOMAIN containers : containers[n] = ComposeContainers(clone)[n]
    BY <2>1, Zenon DEF DeployedInv
  <2> QED
    BY <2>2, DeployedIsInSync, Zenon DEF CurrentDiff
<1> QED
  BY <1>1, DeploysAreWhole, PTL

-----------------------------------------------------------------------------
(* What is changed by hand shows. *)

\* Changing a field of a record changes that field and no other.
LEMMA FieldChanged ==
  ASSUME NEW r, NEW f \in DOMAIN r, NEW v
  PROVE /\ DOMAIN [r EXCEPT ![f] = v] = DOMAIN r
        /\ [r EXCEPT ![f] = v][f] = v
        /\ \A g \in DOMAIN r \ {f} : [r EXCEPT ![f] = v][g] = r[g]
  BY Zenon

\* Altered changes one field of the container.
LEMMA AlteredIs ==
  ASSUME NEW c
  PROVE /\ Altered(c, "image") = [c EXCEPT !.image = [c.image EXCEPT !.tag = "by hand"]]
        /\ Altered(c, "environment") = [c EXCEPT !.env = [k \in DOMAIN c.env |-> "by hand"]]
        /\ Altered(c, "ports") = [c EXCEPT !.bindings = {}]
        /\ Altered(c, "volumes")
             = [c EXCEPT !.mounts = {[m EXCEPT !.source.at = "/by/hand"] : m \in c.mounts}]
        /\ Altered(c, "networks") = [c EXCEPT !.nets = c.nets \cup {<<"", "by hand">>}]
        /\ Altered(c, "labels") = [c EXCEPT !.labels = Over(c.labels, OneKey("by hand", ""))]
        /\ Altered(c, "restart") = [c EXCEPT !.restart = [name |-> "by hand", retries |-> ""]]
        /\ Altered(c, "command") = [c EXCEPT !.command = <<"by hand">>]
        /\ Altered(c, "entrypoint") = [c EXCEPT !.entrypoint = <<"by hand">>]
<1>1. Altered(c, "image") = [c EXCEPT !.image = [c.image EXCEPT !.tag = "by hand"]]
  BY Zenon DEF Altered
<1>2. Altered(c, "environment") = [c EXCEPT !.env = [k \in DOMAIN c.env |-> "by hand"]]
  BY Zenon DEF Altered
<1>3. Altered(c, "ports") = [c EXCEPT !.bindings = {}]
  BY Zenon DEF Altered
<1>4. Altered(c, "volumes")
        = [c EXCEPT !.mounts = {[m EXCEPT !.source.at = "/by/hand"] : m \in c.mounts}]
  BY Zenon DEF Altered
<1>5. Altered(c, "networks") = [c EXCEPT !.nets = c.nets \cup {<<"", "by hand">>}]
  BY Zenon DEF Altered
<1>6. Altered(c, "labels") = [c EXCEPT !.labels = Over(c.labels, OneKey("by hand", ""))]
  BY Zenon DEF Altered
<1>7. Altered(c, "restart") = [c EXCEPT !.restart = [name |-> "by hand", retries |-> ""]]
  BY Zenon DEF Altered
<1>8. Altered(c, "command") = [c EXCEPT !.command = <<"by hand">>]
  BY Zenon DEF Altered
<1>9. Altered(c, "entrypoint") = [c EXCEPT !.entrypoint = <<"by hand">>]
  BY Zenon DEF Altered
<1> QED
  BY <1>1, <1>2, <1>3, <1>4, <1>5, <1>6, <1>7, <1>8, <1>9, Zenon

LEMMA MarkedIs ==
  ASSUME NEW c
  PROVE /\ Marked(c, "image") <=> c.image.tag = "by hand"
        /\ Marked(c, "environment") <=> \A k \in DOMAIN c.env : c.env[k] = "by hand"
        /\ Marked(c, "ports") <=> c.bindings = {}
        /\ Marked(c, "volumes") <=> \A m \in c.mounts : m.source.at = "/by/hand"
        /\ Marked(c, "networks") <=> <<"", "by hand">> \in c.nets
        /\ Marked(c, "labels") <=> "by hand" \in DOMAIN c.labels
        /\ Marked(c, "restart") <=> c.restart.name = "by hand"
        /\ Marked(c, "command") <=> c.command = <<"by hand">>
        /\ Marked(c, "entrypoint") <=> c.entrypoint = <<"by hand">>
<1>1. Marked(c, "image") <=> c.image.tag = "by hand"
  BY Zenon DEF Marked
<1>2. Marked(c, "environment") <=> \A k \in DOMAIN c.env : c.env[k] = "by hand"
  BY Zenon DEF Marked
<1>3. Marked(c, "ports") <=> c.bindings = {}
  BY Zenon DEF Marked
<1>4. Marked(c, "volumes") <=> \A m \in c.mounts : m.source.at = "/by/hand"
  BY Zenon DEF Marked
<1>5. Marked(c, "networks") <=> <<"", "by hand">> \in c.nets
  BY Zenon DEF Marked
<1>6. Marked(c, "labels") <=> "by hand" \in DOMAIN c.labels
  BY Zenon DEF Marked
<1>7. Marked(c, "restart") <=> c.restart.name = "by hand"
  BY Zenon DEF Marked
<1>8. Marked(c, "command") <=> c.command = <<"by hand">>
  BY Zenon DEF Marked
<1>9. Marked(c, "entrypoint") <=> c.entrypoint = <<"by hand">>
  BY Zenon DEF Marked
<1> QED
  BY <1>1, <1>2, <1>3, <1>4, <1>5, <1>6, <1>7, <1>8, <1>9, Zenon

\* The field of a container in which an aspect is kept.
Field(aspect) ==
  CASE aspect = "image" -> "image"
    [] aspect = "environment" -> "env"
    [] aspect = "ports" -> "bindings"
    [] aspect = "volumes" -> "mounts"
    [] aspect = "networks" -> "nets"
    [] aspect = "labels" -> "labels"
    [] aspect = "restart" -> "restart"
    [] aspect = "command" -> "command"
    [] aspect = "entrypoint" -> "entrypoint"

LEMMA FieldIs ==
  /\ Field("image") = "image" /\ Field("environment") = "env" /\ Field("ports") = "bindings"
  /\ Field("volumes") = "mounts" /\ Field("networks") = "nets" /\ Field("labels") = "labels"
  /\ Field("restart") = "restart" /\ Field("command") = "command"
  /\ Field("entrypoint") = "entrypoint"
<1>1. Field("image") = "image"
  BY Zenon DEF Field
<1>2. Field("environment") = "env"
  BY Zenon DEF Field
<1>3. Field("ports") = "bindings"
  BY Zenon DEF Field
<1>4. Field("volumes") = "mounts"
  BY Zenon DEF Field
<1>5. Field("networks") = "nets"
  BY Zenon DEF Field
<1>6. Field("labels") = "labels"
  BY Zenon DEF Field
<1>7. Field("restart") = "restart"
  BY Zenon DEF Field
<1>8. Field("command") = "command"
  BY Zenon DEF Field
<1>9. Field("entrypoint") = "entrypoint"
  BY Zenon DEF Field
<1> QED
  BY <1>1, <1>2, <1>3, <1>4, <1>5, <1>6, <1>7, <1>8, <1>9, Zenon

\* The trace of an aspect depends on its field only.
LEMMA TraceIsInItsField ==
  ASSUME NEW c, NEW d, NEW aspect \in Aspects, c[Field(aspect)] = d[Field(aspect)]
  PROVE Marked(c, aspect) <=> Marked(d, aspect)
<1>1. CASE aspect = "image"
  <2>1. c.image = d.image
    BY <1>1, FieldIs
  <2>2. /\ Marked(c, "image") <=> c.image.tag = "by hand"
        /\ Marked(d, "image") <=> d.image.tag = "by hand"
    BY MarkedIs, Zenon
  <2> QED
    BY <1>1, <2>1, <2>2, Zenon
<1>2. CASE aspect = "environment"
  <2>1. c.env = d.env
    BY <1>2, FieldIs
  <2>2. /\ Marked(c, "environment") <=> \A k \in DOMAIN c.env : c.env[k] = "by hand"
        /\ Marked(d, "environment") <=> \A k \in DOMAIN d.env : d.env[k] = "by hand"
    BY MarkedIs, Zenon
  <2> QED
    BY <1>2, <2>1, <2>2, Zenon
<1>3. CASE aspect = "ports"
  <2>1. c.bindings = d.bindings
    BY <1>3, FieldIs
  <2>2. /\ Marked(c, "ports") <=> c.bindings = {}
        /\ Marked(d, "ports") <=> d.bindings = {}
    BY MarkedIs, Zenon
  <2> QED
    BY <1>3, <2>1, <2>2, Zenon
<1>4. CASE aspect = "volumes"
  <2>1. c.mounts = d.mounts
    BY <1>4, FieldIs
  <2>2. /\ Marked(c, "volumes") <=> \A m \in c.mounts : m.source.at = "/by/hand"
        /\ Marked(d, "volumes") <=> \A m \in d.mounts : m.source.at = "/by/hand"
    BY MarkedIs, Zenon
  <2> QED
    BY <1>4, <2>1, <2>2, Zenon
<1>5. CASE aspect = "networks"
  <2>1. c.nets = d.nets
    BY <1>5, FieldIs
  <2>2. /\ Marked(c, "networks") <=> <<"", "by hand">> \in c.nets
        /\ Marked(d, "networks") <=> <<"", "by hand">> \in d.nets
    BY MarkedIs, Zenon
  <2> QED
    BY <1>5, <2>1, <2>2, Zenon
<1>6. CASE aspect = "labels"
  <2>1. c.labels = d.labels
    BY <1>6, FieldIs
  <2>2. /\ Marked(c, "labels") <=> "by hand" \in DOMAIN c.labels
        /\ Marked(d, "labels") <=> "by hand" \in DOMAIN d.labels
    BY MarkedIs, Zenon
  <2> QED
    BY <1>6, <2>1, <2>2, Zenon
<1>7. CASE aspect = "restart"
  <2>1. c.restart = d.restart
    BY <1>7, FieldIs
  <2>2. /\ Marked(c, "restart") <=> c.restart.name = "by hand"
        /\ Marked(d, "restart") <=> d.restart.name = "by hand"
    BY MarkedIs, Zenon
  <2> QED
    BY <1>7, <2>1, <2>2, Zenon
<1>8. CASE aspect = "command"
  <2>1. c.command = d.command
    BY <1>8, FieldIs
  <2>2. /\ Marked(c, "command") <=> c.command = <<"by hand">>
        /\ Marked(d, "command") <=> d.command = <<"by hand">>
    BY MarkedIs, Zenon
  <2> QED
    BY <1>8, <2>1, <2>2, Zenon
<1>9. CASE aspect = "entrypoint"
  <2>1. c.entrypoint = d.entrypoint
    BY <1>9, FieldIs
  <2>2. /\ Marked(c, "entrypoint") <=> c.entrypoint = <<"by hand">>
        /\ Marked(d, "entrypoint") <=> d.entrypoint = <<"by hand">>
    BY MarkedIs, Zenon
  <2> QED
    BY <1>9, <2>1, <2>2, Zenon
<1> QED
  BY <1>1, <1>2, <1>3, <1>4, <1>5, <1>6, <1>7, <1>8, <1>9 DEF Aspects

\* A change by hand is in the field of its aspect.
LEMMA AlteredInItsField ==
  ASSUME NEW c, DOMAIN c = ContainerFields, NEW aspect \in Aspects
  PROVE /\ DOMAIN Altered(c, aspect) = ContainerFields
        /\ \A g \in ContainerFields \ {Field(aspect)} : Altered(c, aspect)[g] = c[g]
<1> DEFINE InField(a) == /\ DOMAIN Altered(c, a) = ContainerFields
                         /\ \A g \in ContainerFields \ {Field(a)} : Altered(c, a)[g] = c[g]
<1>1. \A f \in ContainerFields : \A a, v : Field(a) = f /\ Altered(c, a) = [c EXCEPT ![f] = v] => InField(a)
  BY FieldChanged, Zenon
<1>2. {"image", "env", "bindings", "mounts", "nets", "labels", "restart", "command", "entrypoint"}
        \subseteq ContainerFields
  BY DEF ContainerFields
<1> HIDE DEF InField
<1>3. InField("image")
  <2>1. Field("image") = "image" /\ "image" \in ContainerFields
    BY <1>2, FieldIs, Zenon
  <2>2. Altered(c, "image") = [c EXCEPT !.image = [c.image EXCEPT !.tag = "by hand"]]
    BY AlteredIs, Zenon
  <2> QED
    BY <1>1, <2>1, <2>2, Zenon
<1>4. InField("environment")
  <2>1. Field("environment") = "env" /\ "env" \in ContainerFields
    BY <1>2, FieldIs, Zenon
  <2>2. Altered(c, "environment") = [c EXCEPT !.env = [k \in DOMAIN c.env |-> "by hand"]]
    BY AlteredIs, Zenon
  <2> QED
    BY <1>1, <2>1, <2>2, Zenon
<1>5. InField("ports")
  <2>1. Field("ports") = "bindings" /\ "bindings" \in ContainerFields
    BY <1>2, FieldIs, Zenon
  <2>2. Altered(c, "ports") = [c EXCEPT !.bindings = {}]
    BY AlteredIs, Zenon
  <2> QED
    BY <1>1, <2>1, <2>2, Zenon
<1>6. InField("volumes")
  <2>1. Field("volumes") = "mounts" /\ "mounts" \in ContainerFields
    BY <1>2, FieldIs, Zenon
  <2>2. Altered(c, "volumes") = [c EXCEPT !.mounts = {[m EXCEPT !.source.at = "/by/hand"] : m \in c.mounts}]
    BY AlteredIs, Zenon
  <2> QED
    BY <1>1, <2>1, <2>2, Zenon
<1>7. InField("networks")
  <2>1. Field("networks") = "nets" /\ "nets" \in ContainerFields
    BY <1>2, FieldIs, Zenon
  <2>2. Altered(c, "networks") = [c EXCEPT !.nets = c.nets \cup {<<"", "by hand">>}]
    BY AlteredIs, Zenon
  <2> QED
    BY <1>1, <2>1, <2>2, Zenon
<1>8. InField("labels")
  <2>1. Field("labels") = "labels" /\ "labels" \in ContainerFields
    BY <1>2, FieldIs, Zenon
  <2>2. Altered(c, "labels") = [c EXCEPT !.labels = Over(c.labels, OneKey("by hand", ""))]
    BY AlteredIs, Zenon
  <2> QED
    BY <1>1, <2>1, <2>2, Zenon
<1>9. InField("restart")
  <2>1. Field("restart") = "restart" /\ "restart" \in ContainerFields
    BY <1>2, FieldIs, Zenon
  <2>2. Altered(c, "restart") = [c EXCEPT !.restart = [name |-> "by hand", retries |-> ""]]
    BY AlteredIs, Zenon
  <2> QED
    BY <1>1, <2>1, <2>2, Zenon
<1>10. InField("command")
  <2>1. Field("command") = "command" /\ "command" \in ContainerFields
    BY <1>2, FieldIs, Zenon
  <2>2. Altered(c, "command") = [c EXCEPT !.command = <<"by hand">>]
    BY AlteredIs, Zenon
  <2> QED
    BY <1>1, <2>1, <2>2, Zenon
<1>11. InField("entrypoint")
  <2>1. Field("entrypoint") = "entrypoint" /\ "entrypoint" \in ContainerFields
    BY <1>2, FieldIs, Zenon
  <2>2. Altered(c, "entrypoint") = [c EXCEPT !.entrypoint = <<"by hand">>]
    BY AlteredIs, Zenon
  <2> QED
    BY <1>1, <2>1, <2>2, Zenon
<1>12. InField(aspect)
  BY <1>3, <1>4, <1>5, <1>6, <1>7, <1>8, <1>9, <1>10, <1>11, Zenon DEF Aspects
<1> QED
  BY <1>12, Zenon DEF InField

LEMMA AlteredValue ==
  ASSUME NEW c, DOMAIN c = ContainerFields
  PROVE /\ Altered(c, "image").image = [c.image EXCEPT !.tag = "by hand"]
        /\ Altered(c, "environment").env = [k \in DOMAIN c.env |-> "by hand"]
        /\ Altered(c, "ports").bindings = {}
        /\ Altered(c, "volumes").mounts = {[m EXCEPT !.source.at = "/by/hand"] : m \in c.mounts}
        /\ Altered(c, "networks").nets = c.nets \cup {<<"", "by hand">>}
        /\ Altered(c, "labels").labels = Over(c.labels, OneKey("by hand", ""))
        /\ Altered(c, "restart").restart = [name |-> "by hand", retries |-> ""]
        /\ Altered(c, "command").command = <<"by hand">>
        /\ Altered(c, "entrypoint").entrypoint = <<"by hand">>
<1>1. \A f \in ContainerFields : \A v : [c EXCEPT ![f] = v][f] = v
  BY FieldChanged, Zenon
<1>2. /\ "image" \in ContainerFields /\ "env" \in ContainerFields
      /\ "bindings" \in ContainerFields /\ "mounts" \in ContainerFields
      /\ "nets" \in ContainerFields /\ "labels" \in ContainerFields
      /\ "restart" \in ContainerFields /\ "command" \in ContainerFields
      /\ "entrypoint" \in ContainerFields
  BY DEF ContainerFields
<1>3. Altered(c, "image").image = [c.image EXCEPT !.tag = "by hand"]
  <2>1. Altered(c, "image") = [c EXCEPT !.image = [c.image EXCEPT !.tag = "by hand"]]
    BY AlteredIs, Zenon
  <2> QED
    BY <1>1, <1>2, <2>1, Zenon
<1>4. Altered(c, "environment").env = [k \in DOMAIN c.env |-> "by hand"]
  <2>1. Altered(c, "environment") = [c EXCEPT !.env = [k \in DOMAIN c.env |-> "by hand"]]
    BY AlteredIs, Zenon
  <2> QED
    BY <1>1, <1>2, <2>1, Zenon
<1>5. Altered(c, "ports").bindings = {}
  <2>1. Altered(c, "ports") = [c EXCEPT !.bindings = {}]
    BY AlteredIs, Zenon
  <2> QED
    BY <1>1, <1>2, <2>1, Zenon
<1>6. Altered(c, "volumes").mounts = {[m EXCEPT !.source.at = "/by/hand"] : m \in c.mounts}
  <2>1. Altered(c, "volumes") = [c EXCEPT !.mounts = {[m EXCEPT !.source.at = "/by/hand"] : m \in c.mounts}]
    BY AlteredIs, Zenon
  <2> QED
    BY <1>1, <1>2, <2>1, Zenon
<1>7. Altered(c, "networks").nets = c.nets \cup {<<"", "by hand">>}
  <2>1. Altered(c, "networks") = [c EXCEPT !.nets = c.nets \cup {<<"", "by hand">>}]
    BY AlteredIs, Zenon
  <2> QED
    BY <1>1, <1>2, <2>1, Zenon
<1>8. Altered(c, "labels").labels = Over(c.labels, OneKey("by hand", ""))
  <2>1. Altered(c, "labels") = [c EXCEPT !.labels = Over(c.labels, OneKey("by hand", ""))]
    BY AlteredIs, Zenon
  <2> QED
    BY <1>1, <1>2, <2>1, Zenon
<1>9. Altered(c, "restart").restart = [name |-> "by hand", retries |-> ""]
  <2>1. Altered(c, "restart") = [c EXCEPT !.restart = [name |-> "by hand", retries |-> ""]]
    BY AlteredIs, Zenon
  <2>2. \A v : [c EXCEPT !.restart = v].restart = v
    BY <1>1, <1>2, Zenon
  <2> QED
    BY <2>1, <2>2, Zenon
<1>10. Altered(c, "command").command = <<"by hand">>
  <2>1. Altered(c, "command") = [c EXCEPT !.command = <<"by hand">>]
    BY AlteredIs, Zenon
  <2> QED
    BY <1>1, <1>2, <2>1, Zenon
<1>11. Altered(c, "entrypoint").entrypoint = <<"by hand">>
  <2>1. Altered(c, "entrypoint") = [c EXCEPT !.entrypoint = <<"by hand">>]
    BY AlteredIs, Zenon
  <2> QED
    BY <1>1, <1>2, <2>1, Zenon
<1> QED
  BY <1>3, <1>4, <1>5, <1>6, <1>7, <1>8, <1>9, <1>10, <1>11, Zenon

LEMMA AlteredIsMarked ==
  ASSUME NEW c, IsContainer(c), NEW aspect \in Aspects
  PROVE Marked(Altered(c, aspect), aspect)
<1>1. DOMAIN c = ContainerFields
  BY DEF IsContainer
<1>2. /\ "tag" \in DOMAIN c.image
      /\ \A m \in c.mounts : "source" \in DOMAIN m /\ "at" \in DOMAIN m.source
  BY DEF IsContainer
<1>3. CASE aspect = "image"
  <2>1. Altered(c, "image").image = [c.image EXCEPT !.tag = "by hand"]
    BY <1>1, AlteredValue, Zenon
  <2>2. [c.image EXCEPT !.tag = "by hand"].tag = "by hand"
    BY <1>2, FieldChanged, Zenon
  <2> QED
    BY <1>3, <2>1, <2>2, MarkedIs, Zenon
<1>4. CASE aspect = "environment"
  <2>1. Altered(c, "environment").env = [k \in DOMAIN c.env |-> "by hand"]
    BY <1>1, AlteredValue, Zenon
  <2> QED
    BY <1>4, <2>1, MarkedIs, Zenon
<1>5. CASE aspect = "ports"
  <2>1. Altered(c, "ports").bindings = {}
    BY <1>1, AlteredValue, Zenon
  <2> QED
    BY <1>5, <2>1, MarkedIs, Zenon
<1>6. CASE aspect = "volumes"
  <2>1. Altered(c, "volumes").mounts = {[m EXCEPT !.source.at = "/by/hand"] : m \in c.mounts}
    BY <1>1, AlteredValue, Zenon
  <2>2. \A m \in c.mounts : [m EXCEPT !.source.at = "/by/hand"].source.at = "/by/hand"
    BY <1>2, Zenon
  <2> QED
    <3> DEFINE a == Altered(c, "volumes")
    <3>1. \A m \in a.mounts : m.source.at = "/by/hand"
      BY <2>1, <2>2, Zenon
    <3>2. Marked(a, "volumes") <=> \A m \in a.mounts : m.source.at = "/by/hand"
      BY MarkedIs, Zenon
    <3> QED
      BY <1>6, <3>1, <3>2, Zenon
<1>7. CASE aspect = "networks"
  <2>1. Altered(c, "networks").nets = c.nets \cup {<<"", "by hand">>}
    BY <1>1, AlteredValue, Zenon
  <2> QED
    BY <1>7, <2>1, MarkedIs, Zenon
<1>8. CASE aspect = "labels"
  <2>1. Altered(c, "labels").labels = Over(c.labels, OneKey("by hand", ""))
    BY <1>1, AlteredValue, Zenon
  <2>2. "by hand" \in DOMAIN Over(c.labels, OneKey("by hand", ""))
    BY DEF Over, OneKey
  <2> QED
    BY <1>8, <2>1, <2>2, MarkedIs, Zenon
<1>9. CASE aspect = "restart"
  <2>1. Altered(c, "restart").restart = [name |-> "by hand", retries |-> ""]
    BY <1>1, AlteredValue, Zenon
  <2>2. [name |-> "by hand", retries |-> ""].name = "by hand"
    OBVIOUS
  <2> QED
    BY <1>9, <2>1, <2>2, MarkedIs, Zenon
<1>10. CASE aspect = "command"
  <2>1. Altered(c, "command").command = <<"by hand">>
    BY <1>1, AlteredValue, Zenon
  <2> QED
    BY <1>10, <2>1, MarkedIs, Zenon
<1>11. CASE aspect = "entrypoint"
  <2>1. Altered(c, "entrypoint").entrypoint = <<"by hand">>
    BY <1>1, AlteredValue, Zenon
  <2> QED
    BY <1>11, <2>1, MarkedIs, Zenon
<1> QED
  BY <1>3, <1>4, <1>5, <1>6, <1>7, <1>8, <1>9, <1>10, <1>11 DEF Aspects

LEMMA AlteredIsContainer ==
  ASSUME NEW c, IsContainer(c), NEW aspect \in Aspects
  PROVE IsContainer(Altered(c, aspect))
<1> DEFINE a == Altered(c, aspect)
<1>1. DOMAIN c = ContainerFields /\ "image" \in DOMAIN c /\ "mounts" \in DOMAIN c
  BY DEF IsContainer, ContainerFields
<1>2. DOMAIN a = ContainerFields /\ \A g \in ContainerFields \ {Field(aspect)} : a[g] = c[g]
  BY <1>1, AlteredInItsField, Zenon
<1>3. "tag" \in DOMAIN a.image
  <2>1. "tag" \in DOMAIN c.image
    BY Zenon DEF IsContainer
  <2>2. CASE aspect = "image"
    <3>1. a.image = [c.image EXCEPT !.tag = "by hand"]
      BY <1>1, <2>2, AlteredValue, Zenon
    <3>2. DOMAIN [c.image EXCEPT !.tag = "by hand"] = DOMAIN c.image
      BY Zenon
    <3> QED
      BY <2>1, <3>1, <3>2, Zenon
  <2>3. CASE aspect # "image"
    <3>1. Field(aspect) # "image"
      BY <2>3, FieldIs DEF Aspects
    <3> QED
      BY <1>1, <1>2, <2>1, <3>1, Zenon
  <2> QED
    BY <2>2, <2>3
<1>4. \A m \in a.mounts : {"source", "target", "rw"} \subseteq DOMAIN m /\ "at" \in DOMAIN m.source
  <2>1. \A m \in c.mounts : {"source", "target", "rw"} \subseteq DOMAIN m /\ "at" \in DOMAIN m.source
    BY Zenon DEF IsContainer
  <2>2. CASE aspect = "volumes"
    <3>1. a.mounts = {[m EXCEPT !.source.at = "/by/hand"] : m \in c.mounts}
      BY <1>1, <2>2, AlteredValue, Zenon
    <3>2. ASSUME NEW m \in c.mounts
          PROVE LET k == [m EXCEPT !.source.at = "/by/hand"] IN
                {"source", "target", "rw"} \subseteq DOMAIN k /\ "at" \in DOMAIN k.source
      BY <2>1, Zenon
    <3> QED
      BY <3>1, <3>2, Zenon
  <2>3. CASE aspect # "volumes"
    <3>1. Field(aspect) # "mounts"
      BY <2>3, FieldIs DEF Aspects
    <3> QED
      BY <1>1, <1>2, <2>1, <3>1, Zenon
  <2> QED
    BY <2>2, <2>3
<1> QED
  BY <1>2, <1>3, <1>4, Zenon DEF IsContainer

LEMMA EmptyList ==
  ASSUME NEW g, g = [i \in DOMAIN g |-> g[i]], DOMAIN g = {}
  PROVE g = << >>
<1>1. DOMAIN g = 1 .. 0
  OBVIOUS
<1>2. g \in [1 .. 0 -> {0}]
  BY <1>1
<1>3. g \in Seq({0}) /\ Len(g) = 0
  BY <1>2
<1> QED
  BY <1>3

LEMMA DeclaresIs ==
  ASSUME NEW spec
  PROVE /\ Declares(spec, "environment") <=> DOMAIN spec.environment # {}
        /\ Declares(spec, "ports") <=> spec.ports # << >>
        /\ Declares(spec, "volumes") <=> \E v \in ToSet(spec.volumes) :
                                           ~isNamedVolume(v.source) /\ ~isDockerSocket(v.target)
        /\ Declares(spec, "restart") <=> spec.restart.name # ""
        /\ Declares(spec, "command") <=> spec.command # << >>
        /\ Declares(spec, "entrypoint") <=> spec.entrypoint # << >>
<1>1. Declares(spec, "environment") <=> DOMAIN spec.environment # {}
  BY Zenon DEF Declares
<1>2. Declares(spec, "ports") <=> spec.ports # << >>
  BY Zenon DEF Declares
<1>3. Declares(spec, "volumes") <=> \E v \in ToSet(spec.volumes) :
                                      ~isNamedVolume(v.source) /\ ~isDockerSocket(v.target)
  BY Zenon DEF Declares
<1>4. Declares(spec, "restart") <=> spec.restart.name # ""
  BY Zenon DEF Declares
<1>5. Declares(spec, "command") <=> spec.command # << >>
  BY Zenon DEF Declares
<1>6. Declares(spec, "entrypoint") <=> spec.entrypoint # << >>
  BY Zenon DEF Declares
<1> QED
  BY <1>1, <1>2, <1>3, <1>4, <1>5, <1>6, Zenon

\* The default tag does not hide which tag was given.
LEMMA NormalizedTag ==
  ASSUME NEW i, "tag" \in DOMAIN i
  PROVE normalizeImage(i).tag = IF i.tag = "" /\ i.domain # "registry:5000" THEN "latest" ELSE i.tag
  BY Zenon DEF normalizeImage

\* A trace in an aspect that the file declares is a difference.
LEMMA TraceShows ==
  ASSUME NEW spec, ByHandIsNew(spec), spec.ports = [i \in DOMAIN spec.ports |-> spec.ports[i]],
         NEW k, IsContainer(k), NEW aspect \in Aspects, Marked(k, aspect), Declares(spec, aspect)
  PROVE compareService(spec, mapContainerToState(k)) # {}
<1> DEFINE l == mapContainerToState(k)
<1>1. /\ l.image = k.image /\ l.environment = k.env /\ l.ports = k.bindings
      /\ l.volumes = {[source |-> m.source, target |-> m.target, ro |-> ~m.rw] : m \in k.mounts}
      /\ l.networks = k.nets /\ l.labels = filterComposeLabels(k.labels)
      /\ l.restart = PolicyName(k.restart) /\ l.command = k.command
      /\ l.entrypoint = k.entrypoint
  BY Zenon DEF mapContainerToState
<1> HIDE DEF l
<1>2. CASE aspect = "image"
  <2>1. l.image.tag = "by hand" /\ "tag" \in DOMAIN l.image
    <3>1. k.image.tag = "by hand"
      BY <1>2, MarkedIs, Zenon
    <3>2. "tag" \in DOMAIN k.image
      BY Zenon DEF IsContainer
    <3> QED
      BY <1>1, <3>1, <3>2, Zenon
  <2>2. "tag" \in DOMAIN spec.image /\ spec.image.tag # "by hand"
    BY Zenon DEF ByHandIsNew
  <2>3. normalizeImage(l.image).tag = "by hand"
    BY <2>1, NormalizedTag, Zenon
  <2>4. normalizeImage(spec.image).tag # "by hand"
    BY <2>2, NormalizedTag, Zenon
  <2>5. <<"image", "">> \in compareService(spec, l)
    BY <2>3, <2>4, Zenon DEF compareService
  <2> QED
    BY <2>5, Zenon DEF l
<1>3. CASE aspect = "environment"
  <2>1. DOMAIN spec.environment # {}
    BY <1>3, DeclaresIs, Zenon
  <2>2. PICK x \in DOMAIN spec.environment : TRUE
    BY <2>1
  <2>3. spec.environment[x] # "by hand"
    BY Zenon DEF ByHandIsNew
  <2>4. \A y \in DOMAIN l.environment : l.environment[y] = "by hand"
    <3>1. \A y \in DOMAIN k.env : k.env[y] = "by hand"
      BY <1>3, MarkedIs, Zenon
    <3> QED
      BY <1>1, <3>1, Zenon
  <2>5. <<"environment", x>> \in compareEnvironment(spec.environment, l.environment)
    BY <2>3, <2>4, Zenon DEF compareEnvironment
  <2>6. <<"environment", x>> \in compareService(spec, l)
    BY <2>5, Zenon DEF compareService
  <2> QED
    BY <2>6 DEF l
<1>4. CASE aspect = "ports"
  <2>1. spec.ports # << >> /\ l.ports = {}
    BY <1>1, <1>4, DeclaresIs, MarkedIs, Zenon
  <2>2. DOMAIN spec.ports # {}
    BY <2>1, EmptyList, Zenon
  <2>3. ~portsEqual(spec.ports, l.ports)
    <3>1. PICK i \in DOMAIN spec.ports : TRUE
      BY <2>2, Zenon
    <3>2. spec.ports[i] \in ToSet(spec.ports)
      BY <3>1, Zenon DEF ToSet
    <3> QED
      BY <2>1, <3>2, Zenon DEF portsEqual
  <2>4. <<"ports", "">> \in compareService(spec, l)
    BY <2>3, Zenon DEF compareService
  <2> QED
    BY <2>4, Zenon DEF l
<1>5. CASE aspect = "volumes"
  <2>1. PICK dv \in ToSet(spec.volumes) : ~isNamedVolume(dv.source) /\ ~isDockerSocket(dv.target)
    BY <1>5, DeclaresIs, Zenon
  <2>2. dv.source.at # "/by/hand"
    BY Zenon DEF ByHandIsNew
  <2>3. \A lv \in l.volumes : lv.source.at = "/by/hand"
    <3>1. \A m \in k.mounts : m.source.at = "/by/hand"
      BY <1>5, MarkedIs, Zenon
    <3> TAKE lv \in l.volumes
    <3>2. PICK m \in k.mounts : lv = [source |-> m.source, target |-> m.target, ro |-> ~m.rw]
      BY <1>1, Zenon
    <3>3. lv.source = m.source
      BY <3>2
    <3> QED
      BY <3>1, <3>3
  <2>4. ~volumesEqual(spec.volumes, l.volumes)
    BY <2>1, <2>2, <2>3, ZenonT(60) DEF volumesEqual
  <2>5. <<"volumes", "">> \in compareService(spec, l)
    BY <2>4, Zenon DEF compareService
  <2> QED
    BY <2>5, Zenon DEF l
<1>6. CASE aspect = "networks"
  <2>1. <<"", "by hand">> \in l.networks
    BY <1>1, <1>6, MarkedIs, Zenon
  <2>2. <<"", "by hand">> # <<"project", "default">>
    OBVIOUS
  <2>3. <<"", "by hand">> \notin spec.networks
    BY Zenon DEF ByHandIsNew
  <2>4. spec.networks # filterDefaultNetworks(l.networks)
    BY <2>1, <2>2, <2>3, Zenon DEF filterDefaultNetworks
  <2>5. <<"networks", "">> \in compareService(spec, l)
    BY <2>4, Zenon DEF compareService
  <2> QED
    BY <2>5, Zenon DEF l
<1>7. CASE aspect = "labels"
  <2>1. "by hand" \in DOMAIN k.labels
    BY <1>7, MarkedIs, Zenon
  <2>2. "by hand" \in DOMAIN l.labels /\ ~isDockerManagedLabel("by hand")
    <3>1. "by hand" \notin {ComposeKey, DesktopKey}
      BY DEF ComposeKey, DesktopKey
    <3> QED
      BY <1>1, <2>1, <3>1, Zenon DEF filterComposeLabels, isDockerManagedLabel
  <2>3. "by hand" \notin DOMAIN spec.labels
    BY Zenon DEF ByHandIsNew
  <2>4. <<"labels", "by hand">> \in compareLabels(spec.labels, l.labels)
    BY <2>2, <2>3, Zenon DEF compareLabels
  <2>5. <<"labels", "by hand">> \in compareService(spec, l)
    BY <2>4, Zenon DEF compareService
  <2> QED
    BY <2>5, Zenon DEF l
<1>8. CASE aspect = "restart"
  <2>0. spec.restart.name # "" /\ spec.restart.name # "by hand" /\ k.restart.name = "by hand"
    BY <1>8, DeclaresIs, MarkedIs, Zenon DEF ByHandIsNew
  <2>1. spec.restart.name # "" /\ spec.restart # l.restart
    <3>1. PolicyName(k.restart).name = k.restart.name
      BY Zenon DEF PolicyName
    <3>2. l.restart.name = "by hand"
      BY <1>1, <2>0, <3>1, Zenon
    <3> QED
      BY <2>0, <3>2, Zenon
  <2>2. <<"restartPolicy", "">> \in compareService(spec, l)
    BY <2>1, Zenon DEF compareService
  <2> QED
    BY <2>2, Zenon DEF l
<1>9. CASE aspect = "command"
  <2>1. spec.command # << >> /\ spec.command # <<"by hand">> /\ l.command = <<"by hand">>
    BY <1>1, <1>9, DeclaresIs, MarkedIs, Zenon DEF ByHandIsNew
  <2>2. <<"command", "">> \in compareService(spec, l)
    BY <2>1, Zenon DEF compareService
  <2> QED
    BY <2>2, Zenon DEF l
<1>10. CASE aspect = "entrypoint"
  <2>1. /\ spec.entrypoint # << >> /\ spec.entrypoint # <<"by hand">>
        /\ l.entrypoint = <<"by hand">>
    BY <1>1, <1>10, DeclaresIs, MarkedIs, Zenon DEF ByHandIsNew
  <2>2. <<"entrypoint", "">> \in compareService(spec, l)
    BY <2>1, Zenon DEF compareService
  <2> QED
    BY <2>2, Zenon DEF l
<1> QED
  BY <1>2, <1>3, <1>4, <1>5, <1>6, <1>7, <1>8, <1>9, <1>10 DEF Aspects

\* What docker compose makes are containers.
LEMMA MadeAreContainers ==
  ASSUME NEW c, Recognisable(c), NEW n \in DOMAIN ComposeContainers(c)
  PROVE IsContainer(ComposeContainers(c)[n])
<1> DEFINE svc == ComposeMerged(c)[n]
           vars == ComposeVars(c)
           k == ComposeService(svc, vars, c.external)
<1>1. n \in DOMAIN ComposeMerged(c) /\ ComposeContainers(c)[n] = k
  BY Zenon DEF ComposeContainers
<1>2. "tag" \in DOMAIN svc.image /\ \A v \in ToSet(svc.volumes) : "at" \in DOMAIN v.source
  BY <1>1, Zenon DEF Recognisable
<1>3. DOMAIN k = ContainerFields
  BY Zenon DEF ComposeService, ContainerFields
<1>4. "tag" \in DOMAIN k.image
  <2>1. k.image = [svc.image EXCEPT !.tag = Interpolate(svc.image.tag, vars)]
    BY Zenon DEF ComposeService
  <2> QED
    BY <1>2, <2>1, Zenon
<1>5. ASSUME NEW m \in k.mounts
      PROVE {"source", "target", "rw"} \subseteq DOMAIN m /\ "at" \in DOMAIN m.source
  <2>1. PICK v \in ComposeVolumes(svc.volumes) :
          m = [source |-> HostPath(v.source), target |-> v.target, rw |-> "ro" \notin v.mode]
    <3>1. k.mounts = {[source |-> HostPath(v.source), target |-> v.target, rw |-> "ro" \notin v.mode] :
                        v \in ComposeVolumes(svc.volumes)}
      BY Zenon DEF ComposeService
    <3> QED
      BY <3>1, Zenon
  <2>2. v \in ToSet(svc.volumes)
    BY Zenon DEF ComposeVolumes, ToSet
  <2>3. "at" \in DOMAIN HostPath(v.source)
    <3> DEFINE s == v.source
    <3>1. "at" \in DOMAIN s
      BY <1>2, <2>2, Zenon
    <3> HIDE DEF s
    <3>2. s.kind \in {"named", "none"} => HostPath(s) = [kind |-> "absolute", at |-> "/var/lib/docker/volumes/"]
      BY Zenon DEF HostPath
    <3>3. s.kind = "relative" => HostPath(s) = [kind |-> "absolute", at |-> "/clone/"]
      BY Zenon DEF HostPath
    <3>4. s.kind \notin {"named", "none", "relative"} => HostPath(s) = s
      BY Zenon DEF HostPath
    <3> DEFINE p == HostPath(s)
    <3> HIDE DEF p
    <3>5. \A x, y : "at" \in DOMAIN [kind |-> x, at |-> y]
      OBVIOUS
    <3>6. "at" \in DOMAIN HostPath(s)
      BY <3>1, <3>2, <3>3, <3>4, <3>5, Zenon
    <3> QED
      BY <3>6 DEF s
  <2> HIDE DEF k
  <2> QED
    BY <2>1, <2>3
<1> HIDE DEF k
<1> QED
  BY <1>1, <1>3, <1>4, <1>5, Zenon DEF IsContainer

LEMMA TraceInit == DriftInit => TraceInv
<1> SUFFICES ASSUME DriftInit PROVE TraceInv
  OBVIOUS
<1>1. clone \in AllClones /\ tampered = {} /\ containers = NoKeys
  BY Zenon DEF DriftInit, AllClones
<1>2. DOMAIN NoKeys = {}
  BY DEF NoKeys
<1> QED
  BY <1>1, <1>2, Zenon DEF TraceInv

\* A trace stays until the container goes, a commit arrives or dockercd deploys.
LEMMA TraceStep ==
  ASSUME \A c \in AllClones : Recognisable(c), TraceInv, [DriftNext]_driftVars
  PROVE TraceInv'
<1> DEFINE Traced(t, cs, cl) ==
             \/ /\ t[2] = "container"
                /\ t[1] \in DOMAIN Parse(cl) <=> t[1] \notin DOMAIN cs
             \/ t[2] \in Aspects /\ t[1] \in DOMAIN cs /\ Marked(cs[t[1]], t[2])
<1>1. /\ clone \in AllClones
      /\ \A n \in DOMAIN containers : IsContainer(containers[n])
      /\ \A t \in tampered : Traced(t, containers, clone)
  BY Zenon DEF TraceInv
<1>2. ASSUME clone' \in AllClones,
             \A n \in DOMAIN containers' : IsContainer(containers'[n]),
             \A t \in tampered' : Traced(t, containers', clone')
      PROVE TraceInv'
  BY <1>2, Zenon DEF TraceInv
<1>3. CASE UNCHANGED driftVars
  BY <1>3, Zenon DEF driftVars, TraceInv
<1>4. ASSUME NEW c \in Clones, CommitArrives(c)
      PROVE TraceInv'
  <2>1. clone' \in AllClones /\ tampered' = {} /\ containers' = containers
    BY <1>4, Zenon DEF CommitArrives, AllClones
  <2> QED
    BY <1>1, <1>2, <2>1, Zenon
<1>5. CASE DeployDrift
  <2> DEFINE made == ComposeContainers(clone)
             rest == IF Prune /\ CurrentDiff.toRemove # {} THEN NoKeys ELSE containers
  <2>1. clone' = clone /\ tampered' = {} /\ containers' = Over(made, rest)
    BY <1>5, Zenon DEF DeployDrift
  <2>2. \A n \in DOMAIN made : IsContainer(made[n])
    BY <1>1, MadeAreContainers, Zenon
  <2>3. DOMAIN NoKeys = {}
    BY DEF NoKeys
  <2>4. \A n \in DOMAIN rest : IsContainer(rest[n])
    BY <1>1, <2>3, Zenon
  <2> HIDE DEF made, rest
  <2>5. \A n \in DOMAIN Over(made, rest) : IsContainer(Over(made, rest)[n])
    BY <2>2, <2>4, Zenon DEF Over
  <2> QED
    BY <1>1, <1>2, <2>1, <2>5, Zenon
<1>6. ASSUME NEW n \in DOMAIN containers, NEW aspect \in Aspects, Tamper(n, aspect)
      PROVE TraceInv'
  <2> DEFINE a == Altered(containers[n], aspect)
  <2>1. /\ clone' = clone /\ tampered' \subseteq tampered \cup {<<n, aspect>>}
        /\ containers' = [containers EXCEPT ![n] = a]
    BY <1>6, Zenon DEF Tamper
  <2>2. /\ DOMAIN containers' = DOMAIN containers /\ containers'[n] = a
        /\ \A m \in DOMAIN containers \ {n} : containers'[m] = containers[m]
    BY <2>1, Zenon
  <2>3. IsContainer(a) /\ Marked(a, aspect)
    BY <1>1, AlteredIsContainer, AlteredIsMarked, Zenon
  <2>4. \A b \in Aspects : Marked(containers[n], b) => Marked(a, b)
    <3> TAKE b \in Aspects
    <3>1. CASE b = aspect
      BY <2>3, <3>1, SMTT(60)
    <3>2. CASE b # aspect
      <4>1. Field(b) # Field(aspect) /\ Field(b) \in ContainerFields
        BY <3>2, FieldIs, SMTT(60) DEF Aspects, ContainerFields
      <4>2. DOMAIN containers[n] = ContainerFields
        BY <1>1, Zenon DEF IsContainer
      <4>3. a[Field(b)] = containers[n][Field(b)]
        BY <4>1, <4>2, AlteredInItsField, ZenonT(60)
      <4> HIDE DEF a
      <4> QED
        BY <4>3, TraceIsInItsField, Zenon
    <3> QED
      BY <3>1, <3>2
  <2> HIDE DEF a
  <2>5. \A m \in DOMAIN containers' : IsContainer(containers'[m])
    BY <1>1, <2>2, <2>3, Zenon
  <2>6. \A t \in tampered : Traced(t, containers', clone')
    BY <1>1, <2>1, <2>2, <2>4, Zenon
  <2>7. Traced(<<n, aspect>>, containers', clone')
    <3>1. <<n, aspect>>[1] = n /\ <<n, aspect>>[2] = aspect
      OBVIOUS
    <3> QED
      BY <2>2, <2>3, <3>1, Zenon
  <2> HIDE DEF Traced
  <2> QED
    BY <1>1, <1>2, <2>1, <2>5, <2>6, <2>7, Zenon
<1>7. ASSUME NEW n \in DOMAIN containers, RemoveContainer(n)
      PROVE TraceInv'
  <2>1. /\ clone' = clone
        /\ tampered' = {t \in tampered : t[1] # n}
                         \cup IF n \in DOMAIN Parse(clone) THEN {<<n, "container">>} ELSE {}
        /\ containers' = [m \in DOMAIN containers \ {n} |-> containers[m]]
    BY <1>7, Zenon DEF RemoveContainer
  <2>2. DOMAIN containers' = DOMAIN containers \ {n} /\ \A m \in DOMAIN containers' : containers'[m] = containers[m]
    BY <2>1
  <2>3. \A t \in tampered : t[1] # n => Traced(t, containers', clone')
    BY <1>1, <2>1, <2>2, Zenon
  <2>4. n \in DOMAIN Parse(clone) => Traced(<<n, "container">>, containers', clone')
    <3>1. <<n, "container">>[1] = n /\ <<n, "container">>[2] = "container"
      OBVIOUS
    <3> QED
      BY <2>1, <2>2, <3>1, Zenon
  <2> HIDE DEF Traced
  <2> QED
    BY <1>1, <1>2, <2>1, <2>2, <2>3, <2>4, Zenon
<1>8. ASSUME NEW n \in DOMAIN containers, AddContainer(n)
      PROVE TraceInv'
  <2>1. /\ clone' = clone /\ "stray" \notin DOMAIN containers
        /\ tampered' = tampered \cup {<<"stray", "container">>}
        /\ containers' = Over(containers, OneKey("stray", containers[n]))
    BY <1>8, Zenon DEF AddContainer
  <2>2. /\ DOMAIN containers' = DOMAIN containers \cup {"stray"}
        /\ \A m \in DOMAIN containers : containers'[m] = containers[m]
        /\ containers'["stray"] = containers[n]
    BY <2>1 DEF Over, OneKey
  <2>3. "stray" \notin DOMAIN Parse(clone)
    BY <1>1, Zenon DEF Recognisable
  <2>4. \A m \in DOMAIN containers' : IsContainer(containers'[m])
    BY <1>1, <2>2, Zenon
  <2>5. \A t \in tampered : Traced(t, containers', clone')
    BY <1>1, <2>1, <2>2, <2>3, Zenon
  <2>6. Traced(<<"stray", "container">>, containers', clone')
    <3>1. <<"stray", "container">>[1] = "stray" /\ <<"stray", "container">>[2] = "container"
      OBVIOUS
    <3> QED
      BY <2>1, <2>2, <2>3, <3>1, Zenon
  <2> HIDE DEF Traced
  <2> QED
    BY <1>1, <1>2, <2>1, <2>4, <2>5, <2>6, Zenon
<1> QED
  BY <1>3, <1>4, <1>5, <1>6, <1>7, <1>8, Zenon DEF DriftNext

\* Where the files have none of the values that stand for changes, every change made by hand
\* leaves its trace until the container goes, a commit arrives or dockercd deploys.
THEOREM ChangesLeaveTraces ==
  ASSUME \A c \in AllClones : Recognisable(c)
  PROVE DriftSpec => []TraceInv
<1>1. TraceInv /\ [DriftNext]_driftVars => TraceInv'
  BY TraceStep
<1> QED
  BY <1>1, TraceInit, PTL DEF DriftSpec

\* A container that was removed, added or changed by hand in what the files declare shows in
\* the diff, for every set of commits, plain or not, and whatever else was changed
\* (StateDiffer.Diff, compareService).
THEOREM ChangesByHandAreSeen ==
  ASSUME \A c \in AllClones : Recognisable(c)
  PROVE DriftSpec => []TamperIsSeen
<1>1. TraceInv => TamperIsSeen
  <2> DEFINE spec == Parse(clone)
             live == Inspect(containers)
  <2> SUFFICES ASSUME TraceInv, NEW t \in tampered, t[1] \notin Ignored(spec),
                      ~(t[1] \in DOMAIN spec /\ ~Declares(spec[t[1]], t[2]))
               PROVE ~InSync(CurrentDiff)
    BY Zenon DEF TamperIsSeen
  <2> DEFINE n == t[1]
             aspect == t[2]
             wanted == DOMAIN spec \ Ignored(spec)
             found == DOMAIN live \ Ignored(spec)
  <2>1. DOMAIN live = DOMAIN containers /\ \A m \in DOMAIN containers : live[m] = mapContainerToState(containers[m])
    BY Zenon DEF Inspect
  <2>2. /\ CurrentDiff.toCreate = wanted \ found
        /\ CurrentDiff.toRemove = found \ wanted
        /\ CurrentDiff.toUpdate = {m \in wanted \cap found : compareService(spec[m], live[m]) # {}}
    BY Zenon DEF CurrentDiff, Diff
  <2>3. clone \in AllClones /\ Recognisable(clone)
    BY Zenon DEF TraceInv
  <2>4. \/ aspect = "container" /\ (n \in DOMAIN spec <=> n \notin DOMAIN containers)
        \/ aspect \in Aspects /\ n \in DOMAIN containers /\ Marked(containers[n], aspect)
    BY Zenon DEF TraceInv
  <2>5. \A m \in DOMAIN containers : IsContainer(containers[m])
    BY Zenon DEF TraceInv
  <2>6. CASE n \in DOMAIN spec /\ n \notin DOMAIN containers
    <3>1. n \in CurrentDiff.toCreate
      BY <2>1, <2>2, <2>6, Zenon
    <3> QED
      BY <3>1, Zenon DEF InSync
  <2>7. CASE n \notin DOMAIN spec /\ n \in DOMAIN containers
    <3>1. n \in CurrentDiff.toRemove
      BY <2>1, <2>2, <2>7, Zenon
    <3> QED
      BY <3>1, Zenon DEF InSync
  <2>8. CASE n \in DOMAIN spec /\ n \in DOMAIN containers
    <3>1. aspect \in Aspects /\ Marked(containers[n], aspect) /\ Declares(spec[n], aspect)
      BY <2>4, <2>8, Zenon
    <3>2. ByHandIsNew(spec[n])
      BY <2>3, <2>8, Zenon DEF Recognisable
    <3>3. spec[n].ports = [i \in DOMAIN spec[n].ports |-> spec[n].ports[i]]
      <4>1. n \in DOMAIN Merged(clone)
        BY <2>8, ParseDomain, Zenon
      <4> DEFINE svc == Merged(clone)[n]
                 vars == Over(clone.secrets, clone.dotenv)
      <4>2. spec[n].ports = toServiceSpec(svc, vars).ports
        BY <4>1, ParseFacts, Zenon
      <4> HIDE DEF svc, vars
      <4>3. toServiceSpec(svc, vars).ports = [i \in DOMAIN svc.ports |-> parsePortString(svc.ports[i])]
        BY Zenon DEF toServiceSpec
      <4> QED
        BY <4>2, <4>3, Zenon
    <3>4. compareService(spec[n], live[n]) # {}
      <4> DEFINE d == spec[n]
                 k == containers[n]
      <4>1. ByHandIsNew(d) /\ d.ports = [i \in DOMAIN d.ports |-> d.ports[i]] /\ Declares(d, aspect)
        BY <3>1, <3>2, <3>3, SMTT(60)
      <4>2. IsContainer(k) /\ Marked(k, aspect)
        BY <2>5, <2>8, <3>1
      <4>3. live[n] = mapContainerToState(k)
        BY <2>1, <2>8, SMTT(60)
      <4> HIDE DEF d, k, aspect
      <4>4. compareService(d, mapContainerToState(k)) # {}
        BY <3>1, <4>1, <4>2, TraceShows, SMTT(60)
      <4> QED
        BY <4>3, <4>4, Zenon DEF d
    <3>5. n \in CurrentDiff.toUpdate
      BY <2>1, <2>2, <2>8, <3>4, Zenon
    <3> QED
      BY <3>5, Zenon DEF InSync
  <2> QED
    BY <2>4, <2>6, <2>7, <2>8, Zenon
<1> QED
  BY <1>1, ChangesLeaveTraces, PTL

=============================================================================
