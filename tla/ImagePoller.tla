----------------------------- MODULE ImagePoller -----------------------------
(***************************************************************************)
(* The image update poller (internal/registry) and the clone it writes to  *)
(* (internal/gitsync): a poll reads the compose file in the clone, asks    *)
(* the registry for tags, rewrites the file, commits, pushes and triggers  *)
(* a reconciliation.  Only the single calls of the git syncer hold the     *)
(* repository's mutex, so the reconciler's Sync and somebody's push to the *)
(* remote come between any two of these steps.                             *)
(*                                                                         *)
(* One clone, and the applications deployed from it, which have one        *)
(* compose file with one service under an image policy.  A poll groups     *)
(* them by the string their manifests give as RepoURL, hands every group   *)
(* to a worker and has the worker check its applications in turn; urlHash  *)
(* strips credentials, so that strings which differ in them share a clone. *)
(* There are no more groups than workers (MaxConcurrentChecks).  A tag     *)
(* that ParseSemVer accepts is <<major, minor, patch, pre>>, pre for a     *)
(* prerelease suffix; a commit is the tag in the file.                     *)
(***************************************************************************)
EXTENDS Naturals, Sequences

CONSTANTS
  TagLists,     \* what the registry may list over time, in this order
  FirstTag,     \* the tag in the repository at first
  Pushed,       \* tags somebody else may push to the remote
  Policy,       \* "semver", "major" or "minor"
  AtRoot,       \* Source.Path is the root of the repository
  Polls,        \* goroutines of startCheckAllApps
  Groups,       \* how many of the clone's applications give each RepoURL
  MaxFaults     \* bound: registry, file and git calls that fail

Tags == Nat \X Nat \X Nat \X BOOLEAN

ASSUME PollerAssumption ==
  /\ TagLists \in Seq(SUBSET Tags) /\ TagLists # <<>>
  /\ FirstTag \in Tags /\ Pushed \subseteq Tags
  /\ Policy \in {"semver", "major", "minor"}
  /\ AtRoot \in BOOLEAN
  /\ Groups \in [DOMAIN Groups -> Nat \ {0}]
  /\ MaxFaults \in Nat

VARIABLES
  listed,       \* how many of TagLists the registry has been through
  remote,       \* the tag on the remote branch
  unseen,       \* the remote branch has commits the clone has not fetched
  head,         \* the tag at the clone's HEAD
  ahead,        \* HEAD has a commit the remote branch has not
  file,         \* the tag in the compose file of the worktree
  pollRunning,
  polling,      \* the goroutines that are in checkAllApps
  worker,        \* each goroutine's worker for each group: where it is, the tag it read,
                \* the one it writes, and how many applications it has still to check
  pushes,       \* pushes by others so far
  triggered,    \* TriggerReconcile was called since the remote last changed
  faults,       \* calls that failed so far
  stranded      \* history: a commit or a push failed after the file was written

pollerVars == <<listed, remote, unseen, head, ahead, file, pollRunning, polling, worker, pushes,
                triggered, faults, stranded>>
pollVars == <<pollRunning, polling, worker>>
faultVars == <<faults, stranded>>
cloneVars == <<remote, unseen, head, ahead, file>>

RepoURLs == DOMAIN Groups
AllTags == (UNION {TagLists[i] : i \in DOMAIN TagLists}) \cup Pushed \cup {FirstTag}

\* Compare: numbers first, and a release is above its prereleases.
Above(v, w) ==
  \/ v[1] > w[1]
  \/ v[1] = w[1] /\ v[2] > w[2]
  \/ v[1] = w[1] /\ v[2] = w[2] /\ v[3] > w[3]
  \/ v[1] = w[1] /\ v[2] = w[2] /\ v[3] = w[3] /\ ~v[4] /\ w[4]

\* The tags FindLatestTag keeps: no prerelease unless the current one is, inside the
\* policy, above the current tag.
Accepts(v, cur) ==
  /\ v[4] => cur[4]
  /\ Policy = "major" => v[1] = cur[1]
  /\ Policy = "minor" => v[1] = cur[1] /\ v[2] = cur[2]
  /\ Above(v, cur)

\* FindLatestTag: the first of them in descending order; equal ones in any order.
FindLatestTag(tags, cur) ==
  LET candidates == {v \in tags : Accepts(v, cur)} IN
  {v \in candidates : \A w \in candidates : ~Above(w, v)}

Resting == [pc |-> "idle", read |-> FirstTag, next |-> FirstTag, left |-> 0]
WorkerStates == [pc : {"idle", "list", "write", "commit", "push", "trigger"},
                 read : AllTags, next : AllTags, left : Nat]

PollerTypeOK ==
  /\ listed \in DOMAIN TagLists
  /\ remote \in AllTags /\ head \in AllTags /\ file \in AllTags
  /\ unseen \in BOOLEAN /\ ahead \in BOOLEAN /\ pollRunning \in BOOLEAN
  /\ polling \subseteq Polls
  /\ worker \in [Polls -> [RepoURLs -> WorkerStates]]
  /\ pushes \subseteq Pushed /\ triggered \in BOOLEAN
  /\ faults \in 0 .. MaxFaults /\ stranded \in BOOLEAN

PollerInit ==
  /\ listed = 1
  /\ remote = FirstTag /\ head = FirstTag /\ file = FirstTag
  /\ unseen = FALSE /\ ahead = FALSE
  /\ pollRunning = FALSE /\ polling = {} /\ worker = [p \in Polls |-> [u \in RepoURLs |-> Resting]]
  /\ pushes = {} /\ triggered = TRUE /\ faults = 0 /\ stranded = FALSE

-----------------------------------------------------------------------------
(* Around the poller. *)

NewTagsAppear ==
  /\ listed + 1 \in DOMAIN TagLists
  /\ listed' = listed + 1
  /\ UNCHANGED <<cloneVars, pollVars, pushes, triggered, faultVars>>

SomebodyPushes(t) ==
  /\ t \in Pushed \ pushes
  /\ remote' = t /\ unseen' = TRUE /\ triggered' = FALSE
  /\ pushes' = pushes \cup {t}
  /\ UNCHANGED <<listed, head, ahead, file, pollVars, faultVars>>

\* Sync of the reconciler: a remote branch that has not moved is already up to date,
\* and the worktree stays as it is; one that has moved is fast-forwarded to, or, where
\* the clone is ahead or dirty and the pull fails, cloned again.
Sync ==
  /\ unseen
  /\ unseen' = FALSE /\ head' = remote /\ file' = remote /\ ahead' = FALSE
  /\ triggered' = TRUE
  /\ UNCHANGED <<listed, remote, pollVars, pushes, faultVars>>

-----------------------------------------------------------------------------
(* The poll. *)

\* checkAllApps: every group is handed to a worker.
HandOut(p) ==
  /\ pollRunning' = TRUE
  /\ polling' = polling \cup {p}
  /\ worker' = [worker EXCEPT ![p] = [u \in RepoURLs |-> [Resting EXCEPT !.left = Groups[u]]]]
  /\ UNCHANGED <<listed, cloneVars, pushes, triggered, faultVars>>

\* Mutant: a tick starts a poll while one is running.
StartPollAgain(p) == p \notin polling /\ HandOut(p)

\* startCheckAllApps: a tick during a poll is skipped.
StartPoll(p) == p \notin polling /\ ~pollRunning /\ HandOut(p)

\* All workers are done: the deferred reset.
EndPoll(p) ==
  /\ p \in polling /\ \A u \in RepoURLs : worker[p][u] = Resting
  /\ pollRunning' = FALSE
  /\ polling' = polling \ {p}
  /\ UNCHANGED <<listed, cloneVars, worker, pushes, triggered, faultVars>>

Fault == faults < MaxFaults /\ faults' = faults + 1
Goto(p, u, pc) == worker' = [worker EXCEPT ![p][u] = [@ EXCEPT !.pc = pc]]

\* checkComposeFile returns, whatever became of it.
EndCheck(p, u) == worker' = [worker EXCEPT ![p][u] = [Resting EXCEPT !.left = worker[p][u].left]]

\* The worker comes to the next application of its group.
ReadComposeFile(p, u) ==
  /\ worker[p][u].pc = "idle" /\ worker[p][u].left > 0
  /\ worker' = [worker EXCEPT ![p][u] = [pc |-> "list", read |-> file, next |-> file,
                                       left |-> worker[p][u].left - 1]]
  /\ UNCHANGED <<listed, cloneVars, pollRunning, polling, pushes, triggered, faultVars>>

\* ListTags and FindLatestTag.
ListTags(p, u) ==
  /\ worker[p][u].pc = "list"
  /\ LET found == FindLatestTag(TagLists[listed], worker[p][u].read) IN
     \/ found = {} /\ EndCheck(p, u) /\ UNCHANGED faults
     \/ Fault /\ EndCheck(p, u)
     \/ \E t \in found :
          /\ worker' = [worker EXCEPT ![p][u] = [@ EXCEPT !.pc = "write", !.next = t]]
          /\ UNCHANGED faults
  /\ UNCHANGED <<listed, cloneVars, pollRunning, polling, pushes, triggered, stranded>>

\* The content read before, with the new tag, over whatever the file holds now.
WriteComposeFile(p, u) ==
  /\ worker[p][u].pc = "write"
  /\ \/ file' = worker[p][u].next /\ Goto(p, u, "commit") /\ UNCHANGED faults
     \/ Fault /\ EndCheck(p, u) /\ UNCHANGED file
  /\ UNCHANGED <<listed, remote, unseen, head, ahead, pollRunning, polling, pushes, triggered,
                 stranded>>

\* Commit stages the file by its name in ComposeFiles, relative to the root of the
\* repository: with another Source.Path there is no such file.  A file that equals
\* HEAD makes an empty commit, which go-git refuses.
Commit(p, u) ==
  /\ worker[p][u].pc = "commit"
  /\ \/ /\ AtRoot /\ file # head
        /\ head' = file /\ ahead' = TRUE
        /\ Goto(p, u, "push") /\ UNCHANGED faultVars
     \/ /\ ~AtRoot \/ file = head
        /\ EndCheck(p, u) /\ UNCHANGED <<head, ahead, faultVars>>
     \/ Fault /\ stranded' = TRUE /\ EndCheck(p, u) /\ UNCHANGED <<head, ahead>>
  /\ UNCHANGED <<listed, remote, unseen, file, pollRunning, polling, pushes, triggered>>

\* Mutant: the push is not made.
PushNever(p, u) ==
  /\ worker[p][u].pc = "push"
  /\ Goto(p, u, "trigger")
  /\ UNCHANGED <<listed, cloneVars, pollRunning, polling, pushes, triggered, faultVars>>

\* Push: refused when the remote branch has moved; nothing to push is a success.
Push(p, u) ==
  /\ worker[p][u].pc = "push"
  /\ \/ /\ ~(unseen /\ ahead)
        /\ remote' = IF ahead THEN head ELSE remote
        /\ ahead' = FALSE
        /\ triggered' = (triggered /\ ~ahead)
        /\ Goto(p, u, "trigger") /\ UNCHANGED faultVars
     \/ /\ unseen /\ ahead
        /\ EndCheck(p, u) /\ UNCHANGED <<remote, ahead, triggered, faultVars>>
     \/ Fault /\ stranded' = TRUE /\ EndCheck(p, u) /\ UNCHANGED <<remote, ahead, triggered>>
  /\ UNCHANGED <<listed, unseen, head, file, pollRunning, polling, pushes>>

TriggerReconcile(p, u) ==
  /\ worker[p][u].pc = "trigger"
  /\ triggered' = TRUE
  /\ EndCheck(p, u)
  /\ UNCHANGED <<listed, cloneVars, pollRunning, polling, pushes, faultVars>>

-----------------------------------------------------------------------------

UpdateStep(p, u) ==
  \/ ReadComposeFile(p, u) \/ ListTags(p, u) \/ WriteComposeFile(p, u)
  \/ Commit(p, u) \/ Push(p, u) \/ TriggerReconcile(p, u)
PollStep(p) == EndPoll(p) \/ \E u \in RepoURLs : UpdateStep(p, u)
PollerNext ==
  \/ NewTagsAppear \/ Sync \/ \E t \in Pushed : SomebodyPushes(t)
  \/ \E p \in Polls : StartPoll(p) \/ PollStep(p)

\* The poll's goroutines run, ticks come, and the reconciler syncs again and again.
PollerFairness ==
  /\ WF_pollerVars(\E p \in Polls : PollStep(p))
  /\ WF_pollerVars(\E p \in Polls : StartPoll(p))
  /\ WF_pollerVars(Sync)

PollerSpec == PollerInit /\ [][PollerNext]_pollerVars /\ PollerFairness

-----------------------------------------------------------------------------
(* Properties. *)

\* What a check pushes is the tag it found and wrote, whatever polls, checks of other
\* applications, syncs and pushes by others come between WriteFile, Commit and Push
\* (poller.go:337): a poll that outlasts its interval is not joined by another
\* (poller.go:158), and one worker takes the applications of a RepoURL in turn.
PublishesWhatItWrote ==
  [][\A p \in Polls, u \in RepoURLs :
       worker[p][u].pc = "push" /\ worker'[p][u].pc = "trigger" /\ remote' # remote
         => remote' = worker[p][u].next]_pollerVars

\* "Group by repository so concurrent workers never modify or push the same local
\* worktree at the same time" (poller.go:189).  Does not hold where two RepoURLs differ
\* in their credentials only.
WorktreeExclusive ==
  \A p, q \in Polls, u, w \in RepoURLs :
    worker[p][u].pc # "idle" /\ worker[q][w].pc # "idle" => p = q /\ u = w

\* Every update the policy allows is published in the end and its deployment triggered,
\* whatever syncs and pushes come in between, unless a commit or a push itself fails
\* (poller.go:337): after that the new tag is in the clone and no poll pushes it again.
UpdateIsPublished ==
  <>[](stranded \/ (FindLatestTag(TagLists[listed], remote) = {} /\ triggered))

\* Where nobody else pushes, the remote branch only ever moves up, inside the policy
\* and to a tag the registry has listed by then (FindLatestTag).
UpdatesFollowPolicy ==
  [][remote' # remote /\ pushes = {} /\ pushes' = {}
       => /\ Above(remote', remote)
          /\ \E i \in 1 .. listed : remote' \in TagLists[i]
          /\ Policy = "minor" => remote'[1] = remote[1] /\ remote'[2] = remote[2]
          /\ Policy = "major" => remote'[1] = remote[1]
          /\ ~remote[4] => ~remote'[4]]_pollerVars

\* Does not hold: a commit of the poller replaces the tag that was read for it.  The
\* worktree may be synced after ReadFile and before WriteFile (poller.go:337).
NoLostUpdate ==
  [][\A p \in Polls, u \in RepoURLs :
       worker[p][u].pc = "write" /\ worker'[p][u].pc = "commit" => file = worker[p][u].read]_pollerVars
=============================================================================
