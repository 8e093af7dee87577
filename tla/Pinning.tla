------------------------------ MODULE Pinning ------------------------------
(***************************************************************************)
(* Pinning of discovery/src/pinned.ts, as runDiscovery calls it: one        *)
(* worktree per repository under .pinned/, checked out at the production    *)
(* branch, and a call graph built in the worktrees that need one.  Every    *)
(* git command is a step of its own: origin moves, the user works in the    *)
(* source clones, any command may fail, and the process may be stopped.     *)
(***************************************************************************)
EXTENDS Integers, FiniteSets

CONSTANTS Repos,       (* the repositories, numbered in the order of names  *)
          CodeRepos,   (* those with code units in a flow: they need a graph*)
          MaxCommit,   (* bound: commits of a production branch             *)
          Fetching,    (* the values --no-fetch may leave fetchOrigin at    *)
          Branched,    (* the clones with a local production branch         *)
          Moves,       (* what a clone may be found as: see source          *)
          OthersFetch, (* the clones in which someone else fetches          *)
          Wip,         (* a commit of some branch at work                   *)
          Broken,      (* a graph.json cut short                            *)
          Absent

Commits == 1..MaxCommit

ASSUME ReposAssumption == Repos \subseteq Nat /\ CodeRepos \subseteq Repos /\ Branched \subseteq Repos
ASSUME CommitAssumption == MaxCommit \in Nat \ {0}
ASSUME ModeAssumption == Fetching \subseteq BOOLEAN /\ OthersFetch \subseteq Repos
                         /\ Moves \subseteq {"clone", "dir", "none"}
ASSUME ValueAssumption ==
  /\ Absent \notin Int /\ Wip \notin Int /\ Broken \notin Int
  /\ Absent # Wip /\ Absent # Broken /\ Wip # Broken
ASSUME ReasonAssumption == Absent \notin {"not checked out", "git", "graphify"}

VARIABLES
  origin,    (* the head of the production branch at origin                 *)
  source,    (* what sourceBase holds: "clone", "dir" without .git, "none"  *)
  local,     (* the clone's own production branch, Absent in a clone of     *)
             (* another branch only                                         *)
  tracking,  (* refs/remotes/origin/<branch> of the clone                   *)
  fetchHead, (* FETCH_HEAD of the clone                                     *)
  tree,      (* the commit in .pinned/<repo>, Absent when there is none     *)
  graph,     (* built_at_commit of its graph.json                           *)
  phase,     (* what the run is doing                                       *)
  fetchOrigin,
  todo,      (* the repositories the current loop has not come to           *)
  at,        (* the repository it is at                                     *)
  sha,       (* the commit rev-parse gave                                   *)
  began,     (* origin when the run began: kept to state what fresh means   *)
  pinned,    (* the run's pinned commits                                    *)
  skipped    (* the run's skips: the reason, Absent for none                *)

clones == <<origin, source, local, tracking, fetchHead>>
worktrees == <<tree, graph>>
loop == <<phase, fetchOrigin, todo, at, sha, began>>
answer == <<pinned, skipped>>
vars == <<clones, worktrees, loop, answer>>

Phases == {"idle", "pinning", "fetched", "resolved", "removing", "graphs", "ready",
           "failed", "refused"}
Reasons == {Absent, "not checked out", "git", "graphify"}
Graphs == Commits \cup {Wip, Broken, Absent}
Heads == Commits \cup {Wip}

TypeOK ==
  /\ origin \in [Repos -> Commits]
  /\ source \in [Repos -> {"clone", "dir", "none"}]
  /\ local \in [Repos -> Commits \cup {Absent}]
  /\ tracking \in [Repos -> Commits]
  /\ fetchHead \in [Repos -> Heads \cup {Absent}]
  /\ tree \in [Repos -> Heads \cup {Absent}]
  /\ graph \in [Repos -> Graphs]
  /\ phase \in Phases
  /\ fetchOrigin \in BOOLEAN
  /\ todo \subseteq Repos
  /\ at \in Repos \cup {Absent}
  /\ sha \in Heads \cup {Absent}
  /\ began \in [Repos -> Commits]
  /\ pinned \in [Repos -> Heads \cup {Absent}]
  /\ skipped \in [Repos -> Reasons]

Init ==
  /\ origin = [r \in Repos |-> 1]
  /\ source = [r \in Repos |-> "clone"]
  /\ local = [r \in Repos |-> IF r \in Branched THEN 1 ELSE Absent]
  /\ tracking = [r \in Repos |-> 1]
  /\ fetchHead = [r \in Repos |-> Absent]
  /\ tree = [r \in Repos |-> Absent]
  /\ graph = [r \in Repos |-> Absent]
  /\ phase = "idle"
  /\ fetchOrigin = TRUE
  /\ todo = {}
  /\ at = Absent
  /\ sha = Absent
  /\ began = origin
  /\ pinned = [r \in Repos |-> Absent]
  /\ skipped = [r \in Repos |-> Absent]

-----------------------------------------------------------------------------
(* Outside the run.                                                         *)
Push(r) ==
  /\ origin[r] < MaxCommit
  /\ origin' = [origin EXCEPT ![r] = @ + 1]
  /\ UNCHANGED <<source, local, tracking, fetchHead, worktrees, loop, answer>>

Pull(r) ==
  /\ source[r] = "clone"
  /\ local' = [local EXCEPT ![r] = origin[r]]
  /\ tracking' = [tracking EXCEPT ![r] = origin[r]]
  /\ UNCHANGED <<origin, source, fetchHead, worktrees, loop, answer>>

(* An editor or the user fetches the branch at work: FETCH_HEAD moves to it.*)
FetchElsewhere(r) ==
  /\ r \in OthersFetch
  /\ source[r] = "clone"
  /\ fetchHead' = [fetchHead EXCEPT ![r] = Wip]
  /\ UNCHANGED <<origin, source, local, tracking, worktrees, loop, answer>>

(* A clone is deleted, moved away or replaced by a bare directory, or back. *)
MoveClone(r) ==
  /\ phase = "idle"
  /\ \E s \in Moves : source' = [source EXCEPT ![r] = s]
  /\ UNCHANGED <<origin, local, tracking, fetchHead, worktrees, loop, answer>>

-----------------------------------------------------------------------------
(* scanTargets lists the directories under sourceBase, sorted.              *)
StartRun ==
  /\ phase = "idle"
  /\ phase' = "pinning"
  /\ fetchOrigin' \in Fetching
  /\ todo' = {r \in Repos : source[r] # "none"}
  /\ at' = Absent
  /\ sha' = Absent
  /\ began' = origin
  /\ pinned' = [r \in Repos |-> Absent]
  /\ skipped' = [r \in Repos |-> Absent]
  /\ UNCHANGED <<clones, worktrees>>

First(r) == r \in todo /\ \A q \in todo : r <= q

(* Mutant: a clone that is missing is passed over in silence.               *)
PassOver(r) ==
  /\ phase = "pinning"
  /\ First(r)
  /\ source[r] # "clone"
  /\ todo' = todo \ {r}
  /\ UNCHANGED <<clones, worktrees, phase, fetchOrigin, at, sha, began, answer>>

SkipMissing(r) ==
  /\ phase = "pinning"
  /\ First(r)
  /\ source[r] # "clone"
  /\ skipped' = [skipped EXCEPT ![r] = "not checked out"]
  /\ todo' = todo \ {r}
  /\ UNCHANGED <<clones, worktrees, phase, fetchOrigin, at, sha, began, pinned>>

(* git fetch --quiet origin <branch>, which moves FETCH_HEAD and the branch *)
(* of origin the clone keeps track of; nothing with --no-fetch.             *)
Fetch(r) ==
  /\ phase = "pinning"
  /\ First(r)
  /\ source[r] = "clone"
  /\ phase' = "fetched"
  /\ at' = r
  /\ todo' = todo \ {r}
  /\ IF fetchOrigin
       THEN /\ fetchHead' = [fetchHead EXCEPT ![r] = origin[r]]
            /\ tracking' = [tracking EXCEPT ![r] = origin[r]]
       ELSE UNCHANGED <<fetchHead, tracking>>
  /\ UNCHANGED <<origin, source, local, worktrees, fetchOrigin, sha, began, answer>>

(* Mutant: the local branch is read although origin was fetched.            *)
RevParseLocal ==
  /\ phase = "fetched"
  /\ sha' = local[at]
  /\ sha' # Absent
  /\ phase' = "resolved"
  /\ UNCHANGED <<clones, worktrees, fetchOrigin, todo, at, began, answer>>

(* git rev-parse FETCH_HEAD, or of the local branch.                        *)
RevParse ==
  /\ phase = "fetched"
  /\ sha' = IF fetchOrigin THEN fetchHead[at] ELSE local[at]
  /\ sha' # Absent
  /\ phase' = "resolved"
  /\ UNCHANGED <<clones, worktrees, fetchOrigin, todo, at, began, answer>>

(* Mutant: a worktree that is there is taken as it is.                      *)
CheckoutOnce ==
  /\ phase = "resolved"
  /\ tree' = [tree EXCEPT ![at] = IF @ = Absent THEN sha ELSE @]
  /\ pinned' = [pinned EXCEPT ![at] = sha]
  /\ phase' = "pinning"
  /\ at' = Absent
  /\ sha' = Absent
  /\ UNCHANGED <<clones, graph, fetchOrigin, todo, began, skipped>>

(* git checkout --detach in the worktree there is, or git worktree add.  The*)
(* graph of an existing worktree is untracked: checkout leaves it there.    *)
Checkout ==
  /\ phase = "resolved"
  /\ tree' = [tree EXCEPT ![at] = sha]
  /\ pinned' = [pinned EXCEPT ![at] = sha]
  /\ phase' = "pinning"
  /\ at' = Absent
  /\ sha' = Absent
  /\ UNCHANGED <<clones, graph, fetchOrigin, todo, began, skipped>>

(* catch: a git command of this repository failed.                          *)
GitFails ==
  /\ \/ \E r \in Repos : /\ phase = "pinning" /\ First(r) /\ source[r] = "clone" /\ fetchOrigin
                         /\ at' = r
                         /\ todo' = todo \ {r}
     \/ /\ phase \in {"fetched", "resolved"}
        /\ UNCHANGED <<at, todo>>
  /\ phase' = "removing"
  /\ skipped' = [skipped EXCEPT ![at'] = "git"]
  /\ sha' = Absent
  /\ UNCHANGED <<clones, worktrees, fetchOrigin, began, pinned>>

(* Mutant: a failed pin leaves the worktree.                                *)
LeaveWorktree ==
  /\ phase = "removing"
  /\ phase' = "pinning"
  /\ at' = Absent
  /\ UNCHANGED <<clones, worktrees, fetchOrigin, todo, sha, began, answer>>

(* removeWorktree: git worktree remove, or rmSync and git worktree prune.   *)
RemoveWorktree ==
  /\ phase = "removing"
  /\ tree' = [tree EXCEPT ![at] = Absent]
  /\ graph' = [graph EXCEPT ![at] = Absent]
  /\ phase' = "pinning"
  /\ at' = Absent
  /\ UNCHANGED <<clones, fetchOrigin, todo, sha, began, answer>>

(* rmSync or prune threw: the exception leaves pinRepos and ends the run.   *)
RemoveFails ==
  /\ phase = "removing"
  /\ tree[at] # Absent
  /\ \/ UNCHANGED worktrees
     \/ tree' = [tree EXCEPT ![at] = Absent] /\ graph' = [graph EXCEPT ![at] = Absent]
  /\ phase' = "failed"
  /\ at' = Absent
  /\ UNCHANGED <<clones, fetchOrigin, todo, sha, began, answer>>

PinnedRepos == {r \in Repos : pinned[r] # Absent}

(* emptyPinError, the one PinError there is, or buildGraphs over the pinned *)
(* repositories with code.                                                  *)
PinDone ==
  /\ phase = "pinning"
  /\ todo = {}
  /\ phase' = IF PinnedRepos = {} THEN "refused" ELSE "graphs"
  /\ todo' = IF PinnedRepos = {} THEN {} ELSE PinnedRepos \cap CodeRepos
  /\ UNCHANGED <<clones, worktrees, fetchOrigin, at, sha, began, answer>>

(* Mutant: any graph will do.                                               *)
KeepAnyGraph(r) ==
  /\ phase = "graphs"
  /\ First(r)
  /\ graph[r] \notin {Absent, Broken}
  /\ todo' = todo \ {r}
  /\ UNCHANGED <<clones, worktrees, phase, fetchOrigin, at, sha, began, answer>>

KeepGraph(r) ==
  /\ phase = "graphs"
  /\ First(r)
  /\ graph[r] = pinned[r]
  /\ todo' = todo \ {r}
  /\ UNCHANGED <<clones, worktrees, phase, fetchOrigin, at, sha, began, answer>>

(* graphify extract, which stamps the commit the worktree is at.            *)
BuildGraph(r) ==
  /\ phase = "graphs"
  /\ First(r)
  /\ graph[r] \notin {pinned[r], Broken}
  /\ graph' = [graph EXCEPT ![r] = tree[r]]
  /\ todo' = todo \ {r}
  /\ UNCHANGED <<clones, tree, phase, fetchOrigin, at, sha, began, answer>>

(* graphify is missing or fails: the old graph stays, or is cut short when  *)
(* it failed while it wrote.                                                *)
GraphFails(r) ==
  /\ phase = "graphs"
  /\ First(r)
  /\ graph[r] \notin {pinned[r], Broken}
  /\ \E left \in {graph[r], Broken} : graph' = [graph EXCEPT ![r] = left]
  /\ skipped' = [skipped EXCEPT ![r] = "graphify"]
  /\ todo' = todo \ {r}
  /\ UNCHANGED <<clones, tree, phase, fetchOrigin, at, sha, began, pinned>>

(* A graph.json cut short: JSON.parse throws outside the try.               *)
GraphUnreadable(r) ==
  /\ phase = "graphs"
  /\ First(r)
  /\ graph[r] = Broken
  /\ phase' = "failed"
  /\ UNCHANGED <<clones, worktrees, fetchOrigin, todo, at, sha, began, answer>>

GraphsDone ==
  /\ phase = "graphs"
  /\ todo = {}
  /\ phase' = "ready"
  /\ UNCHANGED <<clones, worktrees, fetchOrigin, todo, at, sha, began, answer>>

(* The process is stopped: by the user, by the job's time limit.  graphify  *)
(* may be writing its file.                                                 *)
Crash ==
  /\ phase \notin {"idle", "failed", "refused"}
  /\ phase' = "failed"
  /\ \/ UNCHANGED graph
     \/ \E r \in todo : /\ phase = "graphs" /\ First(r) /\ graph[r] \notin {pinned[r], Broken}
                        /\ graph' = [graph EXCEPT ![r] = Broken]
  /\ UNCHANGED <<clones, tree, fetchOrigin, todo, at, sha, began, answer>>

(* The process exits, and what it held in memory goes with it.              *)
EndRun ==
  /\ phase \in {"ready", "failed", "refused"}
  /\ phase' = "idle"
  /\ fetchOrigin' = TRUE
  /\ todo' = {}
  /\ at' = Absent
  /\ sha' = Absent
  /\ began' = [r \in Repos |-> 1]
  /\ pinned' = [r \in Repos |-> Absent]
  /\ skipped' = [r \in Repos |-> Absent]
  /\ UNCHANGED <<clones, worktrees>>

Environment == \E r \in Repos : Push(r) \/ Pull(r) \/ FetchElsewhere(r) \/ MoveClone(r)

PinStep ==
  \/ \E r \in Repos : SkipMissing(r) \/ Fetch(r)
  \/ RevParse \/ Checkout \/ GitFails \/ RemoveWorktree \/ RemoveFails \/ PinDone

GraphStep ==
  \/ \E r \in Repos : KeepGraph(r) \/ BuildGraph(r) \/ GraphFails(r) \/ GraphUnreadable(r)
  \/ GraphsDone

Next == Environment \/ StartRun \/ PinStep \/ GraphStep \/ Crash \/ EndRun

Spec == Init /\ [][Next]_vars

-----------------------------------------------------------------------------
Running == phase \notin {"idle", "failed", "refused"}

(* While a run lasts, what is on disk for a repository it pinned is the     *)
(* commit it reports.                                                       *)
PinOnDisk == Running => \A r \in PinnedRepos : tree[r] = pinned[r]

(* "removes a leftover worktree when a later pin fails, so nothing reads    *)
(* the old commit": a repository git failed on has no worktree once the     *)
(* loop is past it.                                                         *)
FailedPinLeavesNothing ==
  Running => \A r \in Repos : skipped[r] = "git" /\ r # at => tree[r] = Absent

(* With the fetch, a pinned commit is one of the production branch, at      *)
(* least as new as the branch was when the run began, wherever nobody else  *)
(* fetches in the clone.                                                    *)
FreshPin ==
  Running /\ fetchOrigin =>
    \A r \in PinnedRepos \ OthersFetch : pinned[r] # Wip /\ pinned[r] >= began[r]

(* When the graphs are done, every pinned repository with code has a graph  *)
(* of exactly its pinned commit, or is listed as skipped.                   *)
GraphAtPinOrSkipped ==
  phase = "ready" => \A r \in PinnedRepos \cap CodeRepos :
                       graph[r] = pinned[r] \/ skipped[r] = "graphify"

(* A repository is pinned or skipped, and every directory of sourceBase is  *)
(* one of the two once the loop is done.                                    *)
EveryTargetAnswered ==
  phase \in {"graphs", "ready"} =>
    \A r \in Repos : source[r] # "none" => (pinned[r] # Absent \/ skipped[r] # Absent)
=============================================================================
