---------------------------- MODULE Presentation ----------------------------
(***************************************************************************)
(* A page of the web console (web/internal/httpui, presentation and        *)
(* controlplane) and the presentation API of the controller that it reads  *)
(* from (internal/api).  The page resolves the browser's session once,     *)
(* checks once that the controller knows the session's credential under    *)
(* the same subject, asks once for its features, and then makes its calls. *)
(* The session may end, the controller may restart with another registry   *)
(* of credentials, and the stored rows may change between any two calls.   *)
(*                                                                         *)
(* Each user's session carries a controller token of its own; a registry   *)
(* gives each token a credential.  A stored row is its sync status and the *)
(* health observed last, or "none" before the first observation.           *)
(***************************************************************************)
EXTENDS Naturals, Sequences

CONSTANTS
  Users,
  Names,            \* application names
  FirstRegistry,
  Registries,       \* registries a restart may load
  RowValues,        \* rows the store may hold
  MaxRestarts       \* bound: restarts, and changes of a row

Capabilities == {"fleet", "application", "controller", "capacity"}
Credential == [subject : Users, caps : SUBSET Capabilities, apps : SUBSET Names, valid : BOOLEAN]
AppRow == [health : {"none", "Healthy", "Degraded", "Progressing", "Unknown"},
           sync : {"Synced", "OutOfSync", "Error", "Unknown"}]
Absent == [health |-> "absent", sync |-> "absent"]
Fine == [health |-> "Healthy", sync |-> "Synced"]
Tones == {"mint", "amber", "coral", "slate"}

\* A page, and the part of the request that decides between its outcomes: the filter of
\* the applications page, the method and section of an application's.
Pages == ({"fleet", "controller", "activity", "settings", "missing"} \X {"GET"})
         \cup ({"applications"} \X {"all", "attention", "healthy"})
         \cup ({"application"} \X {"overview", "limited", "manage", "POST"})

\* NewOpaquePresentationAuthenticator: every credential grants something, and names the
\* applications where its capabilities are about applications.
ValidRegistry(reg) ==
  \A u \in Users : /\ reg[u].caps # {}
                   /\ reg[u].caps \cap {"fleet", "application"} # {} => reg[u].apps # {}

ASSUME PresentationAssumption ==
  /\ FirstRegistry \in Registries /\ ValidRegistry(FirstRegistry)
  /\ Registries \subseteq [Users -> Credential]
  /\ RowValues \subseteq AppRow /\ Fine \in RowValues
  /\ MaxRestarts \in Nat

VARIABLES
  session,      \* users whose session is alive
  registry,     \* the controller's credentials, by token
  served,       \* the controller has presentation routes
  appRows,      \* application -> row
  page,         \* the page being built
  granted,      \* history: applications granted to the page's subject since it was opened
  rekeyed,      \* history: a restart since then gave the page's token to another subject
  restarts

pageVars == <<session, registry, served, appRows, page, granted, rekeyed, restarts>>

NoPage == [pc |-> "none", user |-> CHOOSE u \in Users : TRUE, kind |-> "settings",
           name |-> CHOOSE n \in Names : TRUE, query |-> "GET", todo |-> << >>, features |-> {},
           seen |-> {}, fresh |-> "none", view |-> "none"]

PageTypeOK ==
  /\ session \subseteq Users
  /\ registry \in Registries
  /\ served \in BOOLEAN
  /\ appRows \in [Names -> RowValues \cup {Absent}]
  /\ page.pc \in {"none", "source", "calls", "render", "notfound", "login", "503", "404", "405", "200"}
  /\ page.seen \subseteq Names \X (Tones \cup {"event"})
  /\ granted \subseteq Names /\ rekeyed \in BOOLEAN
  /\ restarts \in 0 .. MaxRestarts

\* Applications the registry grants to the token of a user, if it is that user's own.
OwnGrants(reg, u) == IF reg[u].valid /\ reg[u].subject = u THEN reg[u].apps ELSE {}

PageInit ==
  /\ session = Users /\ registry = FirstRegistry /\ served = TRUE
  /\ appRows = [n \in Names |-> Fine]
  /\ page = NoPage /\ granted = {} /\ rekeyed = FALSE /\ restarts = 0

-----------------------------------------------------------------------------
(* Around the page. *)

SessionEnds(u) ==
  /\ u \in session
  /\ session' = session \ {u}
  /\ UNCHANGED <<registry, served, appRows, page, granted, rekeyed, restarts>>

\* The controller restarts, with the presentation API configured or without.
ControllerRestarts(reg, configured) ==
  /\ restarts < MaxRestarts /\ restarts' = restarts + 1
  /\ ValidRegistry(reg)
  /\ registry' = reg /\ served' = configured
  /\ granted' = granted \cup OwnGrants(reg, page.user)
  /\ rekeyed' = (rekeyed \/ reg[page.user].subject # page.user)
  /\ UNCHANGED <<session, appRows, page>>

RowChanges(n, row) ==
  /\ restarts < MaxRestarts /\ restarts' = restarts + 1
  /\ appRows' = [appRows EXCEPT ![n] = row]
  /\ UNCHANGED <<session, registry, served, page, granted, rekeyed>>

-----------------------------------------------------------------------------
(* The presentation API of the controller. *)

\* Principal.Allows, for an application or for none.
Allows(c, cap) == cap \in c.caps
AllowsApp(c, cap, n) == cap \in c.caps /\ n \in c.apps

\* PresentationFleet: the granted applications that are stored.
FleetRows(c) == {n \in c.apps : appRows[n] # Absent}

\* PresentationCapabilities.
Features(c) ==
  c.caps \cup (IF Allows(c, "application") THEN {"activity"} ELSE {})

\* The outcomes of one GET as the client reports them: presentationAuth first, then the
\* limit on concurrent reads, the capability, and the handler; the network may fail.
Replies(u, call, n) ==
  LET c == registry[u]
      limited == {"unavailable", "error"} IN
  {"error"} \cup
  IF ~served THEN {"notfound"}
  ELSE IF ~c.valid THEN {"unauthorized"}
  ELSE CASE call \in {"permissions", "capabilities"} -> {"ok"}
         [] call = "controller" -> IF Allows(c, "controller") THEN {"ok"} ELSE {"forbidden"}
         [] call \in {"fleet", "capacity"} ->
              limited \cup (IF Allows(c, call) THEN {"ok"} ELSE {"forbidden"})
         [] call = "activity" ->
              limited \cup (IF Allows(c, "application") THEN {"ok"} ELSE {"forbidden"})
         [] call = "application" ->
              limited \cup (IF AllowsApp(c, "application", n) /\ appRows[n] # Absent
                            THEN {"ok"} ELSE {"notfound"})

\* presentationObservationCompleteness, and healthState of what it sends.
HealthTone(row) ==
  CASE row.health = "Healthy" -> "mint" [] row.health = "Degraded" -> "coral" [] OTHER -> "slate"

\* syncState.
SyncTone(row) ==
  CASE row.sync = "Synced" -> "mint" [] row.sync = "OutOfSync" -> "amber"
    [] row.sync = "Error" -> "coral" [] OTHER -> "slate"

-----------------------------------------------------------------------------
(* The page. *)

\* The calls each page makes, in order; capabilities come with the subject check.
CallsOf(kind) ==
  CASE kind = "fleet" -> <<"permissions", "capabilities", "fleet", "controller", "capacity", "activity">>
    [] kind \in {"controller", "applications"} ->
         <<"permissions", "capabilities", "fleet", "controller", "capacity">>
    [] kind = "activity" -> <<"permissions", "capabilities", "activity">>
    [] kind = "application" -> <<"permissions", "capabilities", "application">>
    [] kind \in {"settings", "missing"} -> << >>

\* The feature a page cannot do without.
Required(kind) == IF kind \in {"controller", "applications"} THEN "fleet" ELSE kind

\* ServeHTTP; a path it does not know goes to notFound.
OpenPage(u, kind, query, n) ==
  /\ page.pc \in {"none", "login", "503", "404", "405", "200"}
  /\ page' = [NoPage EXCEPT !.pc = IF kind = "missing" THEN "notfound" ELSE "source",
                            !.user = u, !.kind = kind, !.query = query, !.name = n,
                            !.todo = CallsOf(kind)]
  /\ granted' = OwnGrants(registry, u) /\ rekeyed' = FALSE
  /\ UNCHANGED <<session, registry, served, appRows, restarts>>

Continue(p) ==
  page' = p /\ UNCHANGED <<session, registry, served, appRows, granted, rekeyed, restarts>>
PageEnds(pc) == Continue([page EXCEPT !.pc = pc])

\* SourceForRequest: without a session the browser is sent to the login page.
SourceForRequest ==
  /\ page.pc = "source"
  /\ IF page.user \in session THEN PageEnds("calls") ELSE PageEnds("login")

\* A preflight that fails ends the page: a 404 of an application page is its own, so a
\* controller without presentation routes looks like a missing application.
PreflightFails(e) ==
  IF page.kind = "application" /\ e = "notfound" THEN PageEnds("notfound") ELSE PageEnds("503")

Called == [page EXCEPT !.todo = Tail(@)]
NextCall(call) == page.pc = "calls" /\ page.todo # << >> /\ page.todo[1] = call

\* Mutant: the controller's subject is not compared with the session's.
AuthorizeAnySubject ==
  /\ NextCall("permissions")
  /\ \E e \in Replies(page.user, "permissions", page.name) :
       IF e = "ok" THEN Continue(Called) ELSE PreflightFails(e)

\* authorize: Permissions, once for a page, and its subject.
Authorize ==
  /\ NextCall("permissions")
  /\ \E e \in Replies(page.user, "permissions", page.name) :
       IF e # "ok" THEN PreflightFails(e)
       ELSE IF registry[page.user].subject # page.user THEN PreflightFails("unauthenticated")
       ELSE Continue(Called)

\* loadCapabilities, once for a page, and the feature it needs.
LoadCapabilities ==
  /\ NextCall("capabilities")
  /\ \E e \in Replies(page.user, "capabilities", page.name) :
       IF e # "ok" THEN PreflightFails(e)
       ELSE IF Required(page.kind) \notin Features(registry[page.user]) THEN PageEnds("503")
       ELSE Continue([Called EXCEPT !.features = Features(registry[page.user])])

\* needsAttention, and filterApplications of the applications page.
NeedsAttention(row) == HealthTone(row) = "coral" \/ SyncTone(row) \in {"amber", "coral"}
Kept(row) ==
  CASE page.query = "healthy" -> HealthTone(row) = "mint"
    [] page.query = "attention" -> NeedsAttention(row)
    [] OTHER -> TRUE

\* The fleet panel; a failure leaves it empty and the page goes on.
LoadFleet ==
  /\ NextCall("fleet")
  /\ \E e \in Replies(page.user, "fleet", page.name) :
       IF e # "ok" THEN Continue(Called)
       ELSE Continue([Called EXCEPT !.fresh = "fleet",
                   !.seen = @ \cup {<<n, HealthTone(appRows[n])>> :
                                      n \in {m \in FleetRows(registry[page.user]) : Kept(appRows[m])}}])

\* The controller and the capacity panel, where the credential has the feature; the
\* fleet page takes the freshness it shows after them.
LoadPanel(call) ==
  /\ call \in {"controller", "capacity"} /\ NextCall(call)
  /\ Continue([Called EXCEPT !.view = IF call = "capacity" THEN page.fresh ELSE @])

\* Mutant: the fleet page takes the freshness it shows when it is rendered.
LoadActivityLate ==
  /\ NextCall("activity")
  /\ \E e \in IF "activity" \in page.features
               THEN Replies(page.user, "activity", page.name) ELSE {"unavailable"} :
       IF e # "ok" THEN IF page.kind = "activity" THEN PageEnds("503") ELSE Continue(Called)
       ELSE Continue([Called EXCEPT !.fresh = "activity", !.view = "activity",
                   !.seen = @ \cup {<<n, "event">> : n \in registry[page.user].apps}])

\* Recent events of the granted applications; optional on the fleet page.
LoadActivity ==
  /\ NextCall("activity")
  /\ \E e \in IF "activity" \in page.features
               THEN Replies(page.user, "activity", page.name) ELSE {"unavailable"} :
       IF e # "ok" THEN IF page.kind = "activity" THEN PageEnds("503") ELSE Continue(Called)
       ELSE Continue([Called EXCEPT !.fresh = "activity",
                   !.view = IF page.kind = "activity" THEN "activity" ELSE @,
                   !.seen = @ \cup {<<n, "event">> : n \in registry[page.user].apps}])

LoadApplication ==
  /\ NextCall("application")
  /\ \E e \in Replies(page.user, "application", page.name) :
       CASE e = "ok" -> Continue([Called EXCEPT !.fresh = "application", !.view = "application",
                               !.seen = {<<page.name, HealthTone(appRows[page.name])>>}])
         [] e = "notfound" -> PageEnds("notfound")
         [] OTHER -> PageEnds("503")

\* An application page looks at the method and the section only after the call.
Render ==
  /\ page.pc = "calls" /\ page.todo = << >>
  /\ CASE page.query = "POST" -> PageEnds("405")
       [] page.query = "manage" -> PageEnds("notfound")
       [] OTHER -> PageEnds("200")

\* notFound resolves the session again.
NotFound ==
  /\ page.pc = "notfound"
  /\ IF page.user \in session THEN PageEnds("404") ELSE PageEnds("login")

-----------------------------------------------------------------------------

PageStep ==
  \/ SourceForRequest \/ Authorize \/ LoadCapabilities \/ LoadFleet
  \/ LoadPanel("controller") \/ LoadPanel("capacity") \/ LoadActivity \/ LoadApplication
  \/ Render \/ NotFound

PageNext ==
  \/ PageStep
  \/ \E u \in Users, p \in Pages :
       \E n \in IF p[1] = "application" THEN Names ELSE {NoPage.name} : OpenPage(u, p[1], p[2], n)
  \/ \E u \in Users : SessionEnds(u)
  \/ \E reg \in Registries, b \in BOOLEAN : ControllerRestarts(reg, b)
  \/ \E n \in Names, row \in RowValues \cup {Absent} : RowChanges(n, row)

PageSpec == PageInit /\ [][PageNext]_pageVars

-----------------------------------------------------------------------------
(* Properties. *)

\* A page shows only applications that were granted to the user whose session it is, at some
\* time while it was built, as long as no restart gives the session's token to another
\* subject meanwhile: the check of the subject and of the features, made once at the page's
\* start, and grants that change under way do not widen it (session_provider.go:154).
ScopedToSubject == ~rekeyed => \A shown \in page.seen : shown[1] \in granted

\* Does not hold: the same whatever registries the restarts load.  Nothing keeps a token's
\* subject over a restart (presentation_auth.go:115), and the calls after the check show
\* what the token grants by then.
AlwaysScopedToSubject == \A shown \in page.seen : shown[1] \in granted

\* The freshness a page shows is that of its primary evidence: "The optional activity
\* request below has its own controller response time and must not overwrite the timestamp
\* shown" (httpui/server.go:177).
FreshnessIsPrimary ==
  page.pc = "200" =>
    CASE page.kind = "activity" -> page.view = "activity"
      [] page.kind = "application" -> page.view = "application"
      [] page.kind = "settings" -> page.view = "none"
      [] OTHER -> page.view \in {"none", "fleet"}

\* Does not hold: an application page answers 404 only if its application was not granted
\* or not stored.  A controller without presentation routes answers the preflight with 404
\* too (live_source.go:261).
NotFoundIsMissing ==
  page.pc = "404" /\ page.query = "overview" => ~(page.name \in OwnGrants(registry, page.user) /\ appRows[page.name] # Absent)
=============================================================================
