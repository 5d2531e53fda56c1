------------------------------- MODULE MCDrift -------------------------------
(* Commits of one application: with one and with two compose files, with .env,
   substitution and defaults, a hook, a service that ignores drift, and some that the
   parser or the inspector reads in another way than docker compose. *)
EXTENDS Drift

Text(s) == [op |-> "text", var |-> "", text |-> s]
Var(op, v, default) == [op |-> op, var |-> v, text |-> default]
Path(p) == [kind |-> "absolute", at |-> p]
Named(v) == [kind |-> "named", at |-> v]
Volume(source, target, mode) == [source |-> source, target |-> target, mode |-> mode]
Port(ip, host, container, proto) ==
  [ip |-> ip, host |-> host, container |-> container, proto |-> proto]
Image(domain, ns, name, tag) ==
  [domain |-> domain, ns |-> ns, name |-> name, tag |-> tag, labelled |-> FALSE]
Restart(name, retries) == [name |-> name, retries |-> retries]
Words(ws) == [form |-> "list", words |-> ws]

Bare ==
  [image |-> Image("", "", "", Text("")), restart |-> Restart("", ""), command |-> Words(<< >>),
   entrypoint |-> Words(<< >>), environment |-> NoKeys, labels |-> NoKeys, ports |-> << >>,
   volumes |-> << >>, networks |-> {}]
Web ==
  [Bare EXCEPT
     !.image = Image("", "", "web", Var(":-", "TAG", "v1")), !.restart = Restart("always", ""),
     !.environment = ("MODE" :> Var("plain", "MODE", "")) @@ ("LEVEL" :> Text("info")),
     !.ports = <<Port("127.0.0.1", "8080", "80", "")>>,
     !.volumes = <<Volume(Path("/srv"), "/data", {"ro"}), Volume(Named("v"), "/cache", {})>>,
     !.command = Words(<<"run", "web">>), !.labels = ("tier" :> "front")]
Db ==
  [Bare EXCEPT
     !.image = Image("registry:5000", "x", "db", Text("")), !.networks = {"shared"},
     !.restart = Restart("on-failure", ""), !.entrypoint = Words(<<"init">>),
     !.volumes = <<Volume(Path("/var/run/docker.sock"), "/var/run/docker.sock", {"z"})>>]
Job == [Bare EXCEPT !.image = Image("", "x", "job", Text("")), !.labels = (HookLabel :> "pre-sync")]
Override ==
  [Bare EXCEPT !.environment = ("LEVEL" :> Text("debug")),
               !.ports = <<Port("", "8443", "443", "tcp")>>, !.labels = ("tier" :> "edge")]

Commit(files, dotenv, secrets) ==
  [files |-> files, dotenv |-> dotenv, secrets |-> secrets, vault |-> NoKeys,
   external |-> {"shared"}]
OneFile == Commit(<<("web" :> Web) @@ ("db" :> Db)>>, "MODE" :> "a", NoKeys)
TwoFiles ==
  Commit(<<("web" :> Web) @@ ("job" :> Job), ("web" :> Override) @@ ("db" :> Db)>>,
         ("MODE" :> "a") @@ ("TAG" :> "v2"), NoKeys)
Default ==
  Commit(<<("web" :> [Web EXCEPT !.environment = ("LEVEL" :> Var("-", "LEVEL", "warn"))])>>,
         NoKeys, NoKeys)
Ignoring ==
  Commit(<<("web" :> [Web EXCEPT !.labels = (IgnoreDriftLabel :> "true")]) @@ ("db" :> Db)>>,
         NoKeys, NoKeys)
Encrypted == Commit(<<("web" :> Web)>>, NoKeys, "MODE" :> "s3cret")
Fewer ==
  Commit(<<("web" :> [Web EXCEPT !.environment = ("LEVEL" :> Text("info"))]) @@ ("db" :> Db)>>,
         NoKeys, NoKeys)

PlainCommits == {OneFile, TwoFiles, Default, Ignoring}
WithSecrets == {OneFile, Encrypted}
WithRemoval == {OneFile, Fewer}
ProcessEnv == "HOST" :> "h"

\* Commits whose containers never compare equal: secrets, a number of retries, and a
\* read-only mount with another option.
Retrying == Commit(<<("web" :> [Web EXCEPT !.restart = Restart("on-failure", "3")])>>, NoKeys, NoKeys)
Relabelled ==
  Commit(<<("web" :> [Web EXCEPT !.volumes = <<Volume(Path("/srv"), "/data", {"ro", "z"})>>])>>,
         NoKeys, NoKeys)

\* The commits of the run are among those that the theorems of DriftProofs are about, and
\* the ones that drift as soon as they are deployed are not.
ASSUME PlainCommitsArePlain == \A c \in PlainCommits : Plain(c) /\ Recognisable(c)
ASSUME FalseDiffsAreNotPlain ==
  \A c \in {Encrypted, Retrying, Relabelled} :
    ~Plain(c) /\ ~InSync(Diff(Parse(c), Inspect(ComposeContainers(c))))
=============================================================================
