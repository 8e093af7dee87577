-------------------------- MODULE DiscoveryProofs --------------------------
(***************************************************************************)
(* For any number of runs, repositories and commits, with any set of flags: *)
(* the committed files agree with the commits they name, no file is derived *)
(* with the graph of another commit, and a green check means the baseline.  *)
(* A run of discover is a run of Pinning that goes on once it is ready: what *)
(* is proved of the pins first holds while it scans and writes.             *)
(***************************************************************************)
EXTENDS DiscoveryRun, TLAPS

PinPhases == {"pinning", "fetched", "resolved", "removing"}

(* Where the loop of pinRepos is, and that every repository of sourceBase   *)
(* is still to do, at work, pinned or skipped.                              *)
LoopInv ==
  /\ phase \in {"fetched", "resolved", "removing"} =>
       /\ at \in Repos \ todo
       /\ pinned[at] = Absent
       /\ skipped[at] = IF phase = "removing" THEN "git" ELSE Absent
  /\ phase = "resolved" => sha # Absent
  /\ phase \in {"pinning", "graphs", "ready"} => at = Absent
  /\ phase \in PinPhases => \A r \in todo : pinned[r] = Absent /\ skipped[r] = Absent
  /\ phase \in PinPhases => \A r \in Repos : source[r] # "none" =>
       r \in todo \/ r = at \/ pinned[r] # Absent \/ skipped[r] # Absent

(* The commit on its way from origin to the worktree is never older than    *)
(* the branch was when the run began.                                       *)
FreshInv ==
  /\ \A r \in Repos \ OthersFetch : fetchHead[r] # Wip
  /\ Running => \A r \in Repos : began[r] <= origin[r]
  /\ phase = "fetched" /\ fetchOrigin /\ at \notin OthersFetch =>
       fetchHead[at] \in Commits /\ fetchHead[at] >= began[at]
  /\ phase = "resolved" /\ fetchOrigin /\ at \notin OthersFetch =>
       sha \in Commits /\ sha >= began[at]
  /\ FreshPin

(* What the loop of buildGraphs has left to do.                             *)
GraphInv ==
  /\ phase \in {"graphs", "ready"} =>
       /\ todo \subseteq PinnedRepos
       /\ \A r \in PinnedRepos \cap CodeRepos :
            r \in todo \/ graph[r] = pinned[r] \/ skipped[r] = "graphify"
  /\ phase = "ready" => todo = {}

IInv ==
  /\ TypeOK
  /\ LoopInv
  /\ EveryTargetAnswered
  /\ PinOnDisk
  /\ FailedPinLeavesNothing
  /\ FreshInv
  /\ GraphInv
-----------------------------------------------------------------------------
(* What the values of the constants say of one another.                     *)
LEMMA Values ==
  /\ Commits \subseteq Int /\ 1 \in Commits
  /\ \A c \in Commits : c < MaxCommit => c + 1 \in Commits
  /\ Wip \notin Commits /\ Absent \notin Heads /\ Absent \notin Repos /\ Broken # Absent
<1>1. Commits \subseteq Int /\ 1 \in Commits
  BY CommitAssumption DEF Commits
<1>2. \A c \in Commits : c < MaxCommit => c + 1 \in Commits
  BY CommitAssumption DEF Commits
<1>3. Wip \notin Commits /\ Absent \notin Heads
  BY <1>1, ValueAssumption DEF Heads
<1>4. Absent \notin Repos
  <2>1. Repos \subseteq Int
    BY ReposAssumption
  <2> QED BY <2>1, ValueAssumption
<1> QED BY <1>1, <1>2, <1>3, <1>4, ValueAssumption

LEMMA InitInv == Init => IInv
<1> SUFFICES ASSUME Init PROVE IInv
  OBVIOUS
<1> USE Values, ReposAssumption DEF Init
<1>1. TypeOK
  <2>1. 1 \in Commits
    OBVIOUS
  <2> QED BY <2>1 DEF TypeOK, Phases, Reasons, Graphs, Heads
<1>2. PinnedRepos = {}
  BY DEF PinnedRepos
<1>3. LoopInv /\ EveryTargetAnswered /\ PinOnDisk /\ FailedPinLeavesNothing
  BY DEF LoopInv, EveryTargetAnswered, PinOnDisk, FailedPinLeavesNothing, PinPhases
<1>4. FreshInv
  BY ValueAssumption DEF FreshInv, FreshPin, Running
<1>5. GraphInv
  BY <1>2 DEF GraphInv
<1> QED BY <1>1, <1>3, <1>4, <1>5 DEF IInv

LEMMA PushInv == ASSUME IInv, NEW r \in Repos, Push(r) PROVE IInv'
<1> USE Values DEF IInv, Push, clones, worktrees, loop, answer
<1>1. TypeOK'
  <2>1. origin[r] \in Commits /\ origin[r] + 1 \in Commits
    BY DEF TypeOK
  <2>2. origin' \in [Repos -> Commits]
    BY <2>1 DEF TypeOK
  <2> QED BY <2>2 DEF TypeOK
<1>2. LoopInv'
  BY DEF LoopInv
<1>3. EveryTargetAnswered'
  BY DEF EveryTargetAnswered
<1>4. PinOnDisk'
  BY DEF PinOnDisk, PinnedRepos, Running
<1>5. FailedPinLeavesNothing'
  BY DEF FailedPinLeavesNothing, Running
<1>6. FreshInv'
  <2>1. origin \in [Repos -> Int]
    BY DEF TypeOK
  <2>2. \A q \in Repos : origin'[q] = IF q = r THEN origin[q] + 1 ELSE origin[q]
    BY <2>1
  <2>3. began \in [Repos -> Int]
    BY DEF TypeOK
  <2>4. Running' => \A q \in Repos : began'[q] <= origin'[q]
    BY <2>1, <2>2, <2>3 DEF FreshInv, Running
  <2> QED BY <2>4 DEF FreshInv, FreshPin, PinnedRepos, Running
<1>7. GraphInv'
  BY DEF GraphInv, PinnedRepos
<1> QED BY <1>1, <1>2, <1>3, <1>4, <1>5, <1>6, <1>7

LEMMA PullInv == ASSUME IInv, NEW r \in Repos, Pull(r) PROVE IInv'
<1> USE Values DEF IInv, Pull, clones, worktrees, loop, answer
<1>1. TypeOK'
  BY DEF TypeOK
<1>2. LoopInv'
  BY DEF LoopInv
<1>3. EveryTargetAnswered'
  BY DEF EveryTargetAnswered
<1>4. PinOnDisk'
  BY DEF PinOnDisk, PinnedRepos, Running, LoopInv, TypeOK
<1>5. FailedPinLeavesNothing'
  BY DEF FailedPinLeavesNothing, Running
<1>6. FreshInv'
  BY DEF FreshInv, FreshPin, PinnedRepos, Running
<1>7. GraphInv'
  BY DEF GraphInv, PinnedRepos
<1> QED BY <1>1, <1>2, <1>3, <1>4, <1>5, <1>6, <1>7

LEMMA FetchElsewhereInv == ASSUME IInv, NEW r \in Repos, FetchElsewhere(r) PROVE IInv'
<1> USE Values DEF IInv, FetchElsewhere, clones, worktrees, loop, answer
<1>1. TypeOK'
  BY DEF TypeOK, Heads
<1>2. LoopInv'
  BY DEF LoopInv
<1>3. EveryTargetAnswered'
  BY DEF EveryTargetAnswered
<1>4. PinOnDisk'
  BY DEF PinOnDisk, PinnedRepos, Running
<1>5. FailedPinLeavesNothing'
  BY DEF FailedPinLeavesNothing, Running
<1>6. FreshInv'
  <2>1. \A q \in Repos \ OthersFetch : q # r /\ fetchHead'[q] = fetchHead[q]
    BY DEF TypeOK
  <2>2. phase = "fetched" => at \in Repos
    BY DEF LoopInv
  <2>3. FreshPin'
    BY DEF FreshInv, FreshPin, PinnedRepos, Running
  <2> QED BY <2>1, <2>2, <2>3 DEF FreshInv, Running
<1>7. GraphInv'
  BY DEF GraphInv, PinnedRepos
<1> QED BY <1>1, <1>2, <1>3, <1>4, <1>5, <1>6, <1>7

LEMMA MoveCloneInv == ASSUME IInv, NEW r \in Repos, MoveClone(r) PROVE IInv'
<1> USE Values DEF IInv, MoveClone, clones, worktrees, loop, answer
<1>1. TypeOK'
  <2>1. source' \in [Repos -> {"clone", "dir", "none"}]
    BY ModeAssumption DEF TypeOK
  <2> QED BY <2>1 DEF TypeOK
<1>2. LoopInv'
  BY DEF LoopInv, PinPhases
<1>3. EveryTargetAnswered'
  BY DEF EveryTargetAnswered
<1>4. PinOnDisk'
  BY DEF PinOnDisk, Running
<1>5. FailedPinLeavesNothing'
  BY DEF FailedPinLeavesNothing, Running
<1>6. FreshInv'
  BY DEF FreshInv, FreshPin, Running
<1>7. GraphInv'
  BY DEF GraphInv
<1> QED BY <1>1, <1>2, <1>3, <1>4, <1>5, <1>6, <1>7

LEMMA StartRunInv == ASSUME IInv, StartRun PROVE IInv'
<1> USE Values DEF IInv, StartRun, clones, worktrees, loop, answer
<1>1. TypeOK'
  BY ModeAssumption DEF TypeOK, Phases, Reasons
<1>2. LoopInv'
  BY DEF LoopInv
<1>3. EveryTargetAnswered'
  BY DEF EveryTargetAnswered
<1>4. PinOnDisk'
  BY DEF PinOnDisk, PinnedRepos
<1>5. FailedPinLeavesNothing'
  <2>1. \A q \in Repos : skipped'[q] # "git"
    BY ReasonAssumption
  <2> QED BY <2>1 DEF FailedPinLeavesNothing
<1>6. FreshInv'
  <2>1. PinnedRepos' = {}
    BY DEF PinnedRepos
  <2>2. origin \in [Repos -> Int]
    BY DEF TypeOK
  <2>3. \A q \in Repos : began'[q] <= origin'[q]
    BY <2>2
  <2> QED BY <2>1, <2>3 DEF FreshInv, FreshPin
<1>7. GraphInv'
  BY DEF GraphInv
<1> QED BY <1>1, <1>2, <1>3, <1>4, <1>5, <1>6, <1>7

LEMMA SkipMissingInv == ASSUME IInv, NEW r \in Repos, SkipMissing(r) PROVE IInv'
<1> USE Values DEF IInv, SkipMissing, First, clones, worktrees, loop, answer
<1>1. TypeOK'
  BY DEF TypeOK, Reasons
<1>2. LoopInv'
  <2>1. at = Absent /\ r \in todo /\ r \notin todo' /\ todo' \subseteq todo
    BY DEF LoopInv
  <2>2. skipped'[r] # Absent /\ \A q \in Repos \ {r} : skipped'[q] = skipped[q]
    BY ReasonAssumption DEF TypeOK
  <2>3. \A q \in todo' : pinned'[q] = Absent /\ skipped'[q] = Absent
    BY <2>1, <2>2 DEF LoopInv, PinPhases, TypeOK
  <2>4. \A q \in Repos : source'[q] # "none" =>
          q \in todo' \/ q = at' \/ pinned'[q] # Absent \/ skipped'[q] # Absent
    BY <2>1, <2>2 DEF LoopInv, PinPhases
  <2> QED BY <2>1, <2>3, <2>4 DEF LoopInv
<1>3. EveryTargetAnswered'
  BY DEF EveryTargetAnswered
<1>4. PinOnDisk'
  BY DEF PinOnDisk, PinnedRepos, Running
<1>5. FailedPinLeavesNothing'
  <2>1. skipped'[r] # "git" /\ \A q \in Repos \ {r} : skipped'[q] = skipped[q]
    BY DEF TypeOK
  <2> QED BY <2>1 DEF FailedPinLeavesNothing, Running
<1>6. FreshInv'
  BY DEF FreshInv, FreshPin, PinnedRepos, Running
<1>7. GraphInv'
  BY DEF GraphInv
<1> QED BY <1>1, <1>2, <1>3, <1>4, <1>5, <1>6, <1>7

LEMMA FetchInv == ASSUME IInv, NEW r \in Repos, Fetch(r) PROVE IInv'
<1> USE Values DEF IInv, Fetch, First, clones, worktrees, loop, answer
<1>1. TypeOK'
  <2>1. fetchHead' \in [Repos -> Heads \cup {Absent}] /\ tracking' \in [Repos -> Commits]
    BY DEF TypeOK, Heads
  <2>2. phase' \in Phases /\ todo' \subseteq Repos /\ at' \in Repos \cup {Absent}
    BY DEF TypeOK, Phases
  <2> QED BY <2>1, <2>2 DEF TypeOK
<1>2. LoopInv'
  <2>1. at = Absent /\ r \in todo /\ pinned[r] = Absent /\ skipped[r] = Absent
    BY DEF LoopInv, PinPhases
  <2>2. at' = r /\ r \in Repos \ todo' /\ at # r
    BY <2>1
  <2> QED BY <2>1, <2>2 DEF LoopInv, PinPhases
<1>3. EveryTargetAnswered'
  BY DEF EveryTargetAnswered
<1>4. PinOnDisk'
  BY DEF PinOnDisk, PinnedRepos, Running
<1>5. FailedPinLeavesNothing'
  <2>1. at \notin Repos
    BY DEF LoopInv
  <2> QED BY <2>1 DEF FailedPinLeavesNothing, Running
<1>6. FreshInv'
  <2>1. began[r] <= origin[r] /\ origin[r] \in Commits
    BY DEF FreshInv, Running, TypeOK
  <2>2. fetchOrigin => fetchHead'[r] = origin[r]
    BY DEF TypeOK
  <2>3. \A q \in Repos \ OthersFetch : fetchHead'[q] # Wip
    BY DEF FreshInv, TypeOK
  <2>4. fetchOrigin => fetchHead'[r] \in Commits /\ fetchHead'[r] >= began[r]
    BY <2>1, <2>2 DEF TypeOK
  <2> QED BY <2>3, <2>4 DEF FreshInv, FreshPin, PinnedRepos, Running
<1>7. GraphInv'
  BY DEF GraphInv
<1> QED BY <1>1, <1>2, <1>3, <1>4, <1>5, <1>6, <1>7

LEMMA RevParseInv == ASSUME IInv, RevParse PROVE IInv'
<1> USE Values DEF IInv, RevParse, clones, worktrees, loop, answer
<1>1. TypeOK'
  BY DEF TypeOK, LoopInv, Phases, Heads
<1>2. LoopInv'
  BY DEF LoopInv, PinPhases
<1>3. EveryTargetAnswered'
  BY DEF EveryTargetAnswered
<1>4. PinOnDisk'
  BY DEF PinOnDisk, PinnedRepos, Running
<1>5. FailedPinLeavesNothing'
  BY DEF FailedPinLeavesNothing, Running
<1>6. FreshInv'
  BY DEF FreshInv, FreshPin, PinnedRepos, Running
<1>7. GraphInv'
  BY DEF GraphInv
<1> QED BY <1>1, <1>2, <1>3, <1>4, <1>5, <1>6, <1>7

LEMMA CheckoutInv == ASSUME IInv, Checkout PROVE IInv'
<1> USE Values DEF IInv, Checkout, clones, worktrees, loop, answer
<1>1. TypeOK'
  BY DEF TypeOK, Phases
<1>2. LoopInv'
  <2>1. at \in Repos \ todo /\ skipped[at] = Absent
    BY DEF LoopInv
  <2>2. sha # Absent
    BY DEF LoopInv, TypeOK
  <2>3. pinned'[at] # Absent /\ \A r \in Repos \ {at} : pinned'[r] = pinned[r]
    BY <2>1, <2>2 DEF TypeOK
  <2> QED BY <2>1, <2>3 DEF LoopInv, PinPhases
<1>3. EveryTargetAnswered'
  BY DEF EveryTargetAnswered
<1>4. PinOnDisk'
  BY DEF PinOnDisk, PinnedRepos, Running, TypeOK
<1>5. FailedPinLeavesNothing'
  <2>1. skipped'[at] # "git"
    BY ReasonAssumption DEF LoopInv
  <2>2. \A q \in Repos \ {at} : tree'[q] = tree[q]
    BY DEF TypeOK
  <2> QED BY <2>1, <2>2 DEF FailedPinLeavesNothing, Running
<1>6. FreshInv'
  <2>1. at \in Repos
    BY DEF LoopInv
  <2>2. \A r \in Repos \ {at} : pinned'[r] = pinned[r]
    BY DEF TypeOK
  <2>3. pinned'[at] = sha
    BY <2>1 DEF TypeOK
  <2>4. FreshPin'
    <3> SUFFICES ASSUME Running', fetchOrigin', NEW r \in PinnedRepos' \ OthersFetch
                 PROVE  (pinned[r] # Wip /\ pinned[r] >= began[r])'
      BY DEF FreshPin
    <3>1. CASE r = at
      BY <3>1, <2>3 DEF FreshInv
    <3>2. CASE r # at
      BY <3>2, <2>2 DEF FreshInv, FreshPin, PinnedRepos, Running
    <3> QED BY <3>1, <3>2
  <2> QED BY <2>4 DEF FreshInv, Running
<1>7. GraphInv'
  BY DEF GraphInv
<1> QED BY <1>1, <1>2, <1>3, <1>4, <1>5, <1>6, <1>7

LEMMA GitFailsInv == ASSUME IInv, GitFails PROVE IInv'
<1> USE Values DEF IInv, GitFails, First, clones, worktrees, loop, answer
<1>1. TypeOK'
  BY DEF TypeOK, Phases, Reasons
<1>2. LoopInv'
  <2>1. at' \in Repos \ todo' /\ todo' \subseteq todo /\ todo \subseteq todo' \cup {at'}
    BY DEF LoopInv, TypeOK
  <2>2. pinned[at'] = Absent
    BY DEF LoopInv, PinPhases
  <2>3. skipped'[at'] = "git" /\ \A r \in Repos \ {at'} : skipped'[r] = skipped[r]
    BY <2>1 DEF TypeOK
  <2>4. at \in Repos => at' = at
    BY DEF LoopInv
  <2>5. \A r \in todo' : pinned'[r] = Absent /\ skipped'[r] = Absent
    BY <2>1, <2>3 DEF LoopInv, PinPhases, TypeOK
  <2>6. phase \in PinPhases
    BY DEF PinPhases
  <2>7. \A r \in Repos : source'[r] # "none" =>
          r \in todo' \/ r = at' \/ pinned'[r] # Absent \/ skipped'[r] # Absent
    BY <2>1, <2>3, <2>4, <2>6 DEF LoopInv
  <2> QED BY <2>1, <2>2, <2>3, <2>5, <2>7 DEF LoopInv
<1>3. EveryTargetAnswered'
  BY DEF EveryTargetAnswered
<1>4. PinOnDisk'
  BY DEF PinOnDisk, PinnedRepos, Running
<1>5. FailedPinLeavesNothing'
  <2>1. at' \in Repos /\ (at \in Repos => at' = at)
    BY DEF LoopInv, TypeOK
  <2>2. \A r \in Repos \ {at'} : skipped'[r] = skipped[r]
    BY <2>1 DEF TypeOK
  <2> QED BY <2>1, <2>2 DEF FailedPinLeavesNothing, Running
<1>6. FreshInv'
  BY DEF FreshInv, FreshPin, PinnedRepos, Running
<1>7. GraphInv'
  BY DEF GraphInv
<1> QED BY <1>1, <1>2, <1>3, <1>4, <1>5, <1>6, <1>7

LEMMA RemoveWorktreeInv == ASSUME IInv, RemoveWorktree PROVE IInv'
<1> USE Values DEF IInv, RemoveWorktree, clones, worktrees, loop, answer
<1>1. TypeOK'
  BY DEF TypeOK, Phases, Graphs
<1>2. LoopInv'
  <2>1. at \in Repos \ todo /\ skipped[at] # Absent
    BY ReasonAssumption DEF LoopInv
  <2> QED BY <2>1 DEF LoopInv, PinPhases
<1>3. EveryTargetAnswered'
  BY DEF EveryTargetAnswered
<1>4. PinOnDisk'
  BY DEF PinOnDisk, PinnedRepos, Running, LoopInv
<1>5. FailedPinLeavesNothing'
  BY DEF FailedPinLeavesNothing, Running, TypeOK
<1>6. FreshInv'
  BY DEF FreshInv, FreshPin, PinnedRepos, Running
<1>7. GraphInv'
  BY DEF GraphInv
<1> QED BY <1>1, <1>2, <1>3, <1>4, <1>5, <1>6, <1>7

LEMMA RemoveFailsInv == ASSUME IInv, RemoveFails PROVE IInv'
<1> USE Values DEF IInv, RemoveFails, clones, worktrees, loop, answer
<1>1. TypeOK'
  BY DEF TypeOK, Phases, Graphs
<1>2. LoopInv'
  BY DEF LoopInv, PinPhases
<1>3. EveryTargetAnswered'
  BY DEF EveryTargetAnswered
<1>4. PinOnDisk'
  BY DEF PinOnDisk, Running
<1>5. FailedPinLeavesNothing'
  BY DEF FailedPinLeavesNothing, Running
<1>6. FreshInv'
  BY DEF FreshInv, FreshPin, Running
<1>7. GraphInv'
  BY DEF GraphInv
<1> QED BY <1>1, <1>2, <1>3, <1>4, <1>5, <1>6, <1>7

LEMMA PinDoneInv == ASSUME IInv, PinDone PROVE IInv'
<1> USE Values DEF IInv, PinDone, clones, worktrees, loop, answer
<1>1. TypeOK'
  BY DEF TypeOK, PinnedRepos, Phases
<1>2. LoopInv'
  BY DEF LoopInv, PinPhases
<1>3. EveryTargetAnswered'
  <2>1. at \notin Repos /\ phase \in PinPhases
    BY DEF LoopInv, PinPhases
  <2> QED BY <2>1 DEF EveryTargetAnswered, LoopInv
<1>4. PinOnDisk'
  BY DEF PinOnDisk, PinnedRepos, Running
<1>5. FailedPinLeavesNothing'
  BY DEF FailedPinLeavesNothing, Running
<1>6. FreshInv'
  BY DEF FreshInv, FreshPin, PinnedRepos, Running
<1>7. GraphInv'
  BY DEF GraphInv, PinnedRepos
<1> QED BY <1>1, <1>2, <1>3, <1>4, <1>5, <1>6, <1>7

LEMMA KeepGraphInv == ASSUME IInv, NEW r \in Repos, KeepGraph(r) PROVE IInv'
<1> USE Values DEF IInv, KeepGraph, First, clones, worktrees, loop, answer
<1>1. TypeOK'
  BY DEF TypeOK
<1>2. LoopInv'
  BY DEF LoopInv, PinPhases
<1>3. EveryTargetAnswered'
  BY DEF EveryTargetAnswered
<1>4. PinOnDisk'
  BY DEF PinOnDisk, PinnedRepos, Running
<1>5. FailedPinLeavesNothing'
  BY DEF FailedPinLeavesNothing, Running
<1>6. FreshInv'
  BY DEF FreshInv, FreshPin, PinnedRepos, Running
<1>7. GraphInv'
  BY DEF GraphInv, PinnedRepos
<1> QED BY <1>1, <1>2, <1>3, <1>4, <1>5, <1>6, <1>7

LEMMA BuildGraphInv == ASSUME IInv, NEW r \in Repos, BuildGraph(r) PROVE IInv'
<1> USE Values DEF IInv, BuildGraph, First, clones, worktrees, loop, answer
<1>1. TypeOK'
  BY DEF TypeOK, Graphs, Heads
<1>2. LoopInv'
  BY DEF LoopInv, PinPhases
<1>3. EveryTargetAnswered'
  BY DEF EveryTargetAnswered
<1>4. PinOnDisk'
  BY DEF PinOnDisk, PinnedRepos, Running
<1>5. FailedPinLeavesNothing'
  BY DEF FailedPinLeavesNothing, Running
<1>6. FreshInv'
  BY DEF FreshInv, FreshPin, PinnedRepos, Running
<1>7. GraphInv'
  BY DEF GraphInv, PinOnDisk, Running, PinnedRepos, TypeOK
<1> QED BY <1>1, <1>2, <1>3, <1>4, <1>5, <1>6, <1>7

LEMMA GraphFailsInv == ASSUME IInv, NEW r \in Repos, GraphFails(r) PROVE IInv'
<1> USE Values DEF IInv, GraphFails, First, clones, worktrees, loop, answer
<1>1. TypeOK'
  <2>1. graph' \in [Repos -> Graphs]
    BY DEF TypeOK, Graphs
  <2> QED BY <2>1 DEF TypeOK, Reasons
<1>2. LoopInv'
  BY DEF LoopInv, PinPhases
<1>3. EveryTargetAnswered'
  <2>1. skipped'[r] # Absent /\ \A q \in Repos \ {r} : skipped'[q] = skipped[q]
    BY ReasonAssumption DEF TypeOK
  <2> QED BY <2>1 DEF EveryTargetAnswered
<1>4. PinOnDisk'
  BY DEF PinOnDisk, PinnedRepos, Running
<1>5. FailedPinLeavesNothing'
  BY DEF FailedPinLeavesNothing, Running
<1>6. FreshInv'
  BY DEF FreshInv, FreshPin, PinnedRepos, Running
<1>7. GraphInv'
  <2>1. skipped'[r] = "graphify" /\ \A q \in Repos \ {r} : skipped'[q] = skipped[q] /\ graph'[q] = graph[q]
    BY DEF TypeOK
  <2> QED BY <2>1 DEF GraphInv, PinnedRepos
<1> QED BY <1>1, <1>2, <1>3, <1>4, <1>5, <1>6, <1>7

LEMMA GraphUnreadableInv == ASSUME IInv, NEW r \in Repos, GraphUnreadable(r) PROVE IInv'
<1> USE Values DEF IInv, GraphUnreadable, First, clones, worktrees, loop, answer
<1>1. TypeOK'
  BY DEF TypeOK, Phases
<1>2. LoopInv'
  BY DEF LoopInv, PinPhases
<1>3. EveryTargetAnswered'
  BY DEF EveryTargetAnswered
<1>4. PinOnDisk'
  BY DEF PinOnDisk, Running
<1>5. FailedPinLeavesNothing'
  BY DEF FailedPinLeavesNothing, Running
<1>6. FreshInv'
  BY DEF FreshInv, FreshPin, Running
<1>7. GraphInv'
  BY DEF GraphInv
<1> QED BY <1>1, <1>2, <1>3, <1>4, <1>5, <1>6, <1>7

LEMMA GraphsDoneInv == ASSUME IInv, GraphsDone PROVE IInv'
<1> USE Values DEF IInv, GraphsDone, clones, worktrees, loop, answer
<1>1. TypeOK'
  BY DEF TypeOK, Phases
<1>2. LoopInv'
  BY DEF LoopInv, PinPhases
<1>3. EveryTargetAnswered'
  BY DEF EveryTargetAnswered
<1>4. PinOnDisk'
  BY DEF PinOnDisk, PinnedRepos, Running
<1>5. FailedPinLeavesNothing'
  BY DEF FailedPinLeavesNothing, Running
<1>6. FreshInv'
  BY DEF FreshInv, FreshPin, PinnedRepos, Running
<1>7. GraphInv'
  BY DEF GraphInv, PinnedRepos
<1> QED BY <1>1, <1>2, <1>3, <1>4, <1>5, <1>6, <1>7

LEMMA CrashInv == ASSUME IInv, Crash PROVE IInv'
<1> USE Values DEF IInv, Crash, First, clones, worktrees, loop, answer
<1>1. TypeOK'
  <2>1. graph' \in [Repos -> Graphs]
    BY DEF TypeOK, Graphs
  <2> QED BY <2>1 DEF TypeOK, Phases
<1>2. LoopInv'
  BY DEF LoopInv, PinPhases
<1>3. EveryTargetAnswered'
  BY DEF EveryTargetAnswered
<1>4. PinOnDisk'
  BY DEF PinOnDisk, Running
<1>5. FailedPinLeavesNothing'
  BY DEF FailedPinLeavesNothing, Running
<1>6. FreshInv'
  BY DEF FreshInv, FreshPin, Running
<1>7. GraphInv'
  BY DEF GraphInv
<1> QED BY <1>1, <1>2, <1>3, <1>4, <1>5, <1>6, <1>7

LEMMA EndRunInv == ASSUME IInv, EndRun PROVE IInv'
<1> USE Values DEF IInv, EndRun, clones, worktrees, loop, answer
<1>1. TypeOK'
  <2>1. began' \in [Repos -> Commits] /\ pinned' \in [Repos -> Heads \cup {Absent}]
    OBVIOUS
  <2>2. skipped' \in [Repos -> Reasons] /\ phase' \in Phases
    BY DEF Reasons, Phases
  <2> QED BY <2>1, <2>2 DEF TypeOK
<1>2. LoopInv'
  BY DEF LoopInv, PinPhases
<1>3. EveryTargetAnswered'
  BY DEF EveryTargetAnswered
<1>4. PinOnDisk'
  BY DEF PinOnDisk, Running
<1>5. FailedPinLeavesNothing'
  BY DEF FailedPinLeavesNothing, Running
<1>6. FreshInv'
  BY DEF FreshInv, FreshPin, Running
<1>7. GraphInv'
  BY DEF GraphInv
<1> QED BY <1>1, <1>2, <1>3, <1>4, <1>5, <1>6, <1>7

LEMMA NextInv == IInv /\ [Next]_vars => IInv'
<1> SUFFICES ASSUME IInv, [Next]_vars PROVE IInv'
  OBVIOUS
<1>1. CASE Environment
  BY <1>1, PushInv, PullInv, FetchElsewhereInv, MoveCloneInv DEF Environment
<1>2. CASE StartRun
  BY <1>2, StartRunInv
<1>3. CASE PinStep
  BY <1>3, SkipMissingInv, FetchInv, RevParseInv, CheckoutInv, GitFailsInv, RemoveWorktreeInv,
     RemoveFailsInv, PinDoneInv DEF PinStep
<1>4. CASE GraphStep
  BY <1>4, KeepGraphInv, BuildGraphInv, GraphFailsInv, GraphUnreadableInv, GraphsDoneInv
     DEF GraphStep
<1>5. CASE Crash
  BY <1>5, CrashInv
<1>6. CASE EndRun
  BY <1>6, EndRunInv
<1>7. CASE UNCHANGED vars
  BY <1>7 DEF vars, clones, worktrees, loop, answer, IInv, TypeOK, LoopInv, EveryTargetAnswered,
              PinOnDisk, FailedPinLeavesNothing, FreshInv, FreshPin, GraphInv, Running, PinnedRepos
<1> QED BY <1>1, <1>2, <1>3, <1>4, <1>5, <1>6, <1>7 DEF Next

(* The state of the loop, of the disk and of the answer agree throughout.   *)
THEOREM Invariance == Spec => []IInv
BY InitInv, NextInv, PTL DEF Spec

(* The type invariant of pinning.                                           *)
THEOREM TypeCorrect == Spec => []TypeOK
<1>1. IInv => TypeOK
  BY DEF IInv
<1> QED BY <1>1, Invariance, PTL

(* A run's pinned commits are what is checked out under .pinned/.           *)
THEOREM PinsAreOnDisk == Spec => []PinOnDisk
<1>1. IInv => PinOnDisk
  BY DEF IInv
<1> QED BY <1>1, Invariance, PTL

(* A repository git failed on has no worktree left to read.                 *)
THEOREM FailedPinsAreGone == Spec => []FailedPinLeavesNothing
<1>1. IInv => FailedPinLeavesNothing
  BY DEF IInv
<1> QED BY <1>1, Invariance, PTL

(* In a clone where nobody else fetches, a pinned commit is of the          *)
(* production branch and no older than the run.                             *)
THEOREM PinsAreFresh == Spec => []FreshPin
<1>1. IInv => FreshPin
  BY DEF IInv, FreshInv
<1> QED BY <1>1, Invariance, PTL

(* No pinned repository with code is scanned with a stale graph unnoticed.  *)
THEOREM GraphsAreAtThePin == Spec => []GraphAtPinOrSkipped
<1>1. IInv => GraphAtPinOrSkipped
  BY DEF IInv, GraphInv, GraphAtPinOrSkipped
<1> QED BY <1>1, Invariance, PTL

(* Every directory of sourceBase is pinned or reported as skipped.          *)
THEOREM TargetsAreAnswered == Spec => []EveryTargetAnswered
<1>1. IInv => EveryTargetAnswered
  BY DEF IInv
<1> QED BY <1>1, Invariance, PTL

-----------------------------------------------------------------------------
(* What the run holds in memory is what is on disk for it: the facts are    *)
(* those of the worktrees, a graph that is used is one of the pinned commit.*)
ReportInv ==
  /\ next # "scan" => phase \in {"ready", "failed"}
  /\ phase = "ready" /\ next # "scan" =>
       /\ \A r \in Repos : report.facts[r] = tree[r]
       /\ \A r \in CodeRepos : report.grades[r] \in {Absent, pinned[r]}
       /\ report.readers \in {Absent, pinned[Monolith]}
       /\ \A r \in Parsed : graph[r] # Broken

(* After discovered.json, after monolith-routes.json, after resources.json,  *)
(* and before the latter is touched, if it is.                               *)
Applied == Writing("baseline") /\ "apply" \in flags
PastDiscovered == Writing("routes") \/ Writing("resources") \/ Writing("listeners") \/ Applied
PastRoutes == Writing("resources") \/ Writing("listeners") \/ Applied
PastResources == Writing("listeners") \/ (Applied /\ ~ReadersUnavailable)
BeforeResources ==
  \/ Running /\ next \in {"scan", "discovered", "routes", "resources"}
  \/ Applied /\ ReadersUnavailable

(* The files written so far are of the commits of this run, the others are  *)
(* as the run found them.                                                   *)
WrittenInv ==
  /\ PastDiscovered => discovered = [facts |-> report.facts, grades |-> report.grades]
  /\ PastRoutes /\ tree[Monolith] # Absent => routes = tree[Monolith]
  /\ Writing("resources") \/ Writing("listeners") => ~ReadersUnavailable
  /\ PastResources => resources.facts = report.facts /\ resources.pins = pinned
  /\ Applied /\ ~ReadersUnavailable =>
       IF pinned[Monolith] # Absent
         THEN listeners.code = pinned[Monolith] /\ listeners.pin = pinned[Monolith]
         ELSE listeners = earlier.listeners
  /\ BeforeResources => resources = earlier.resources
  /\ BeforeResources \/ Writing("listeners") => listeners = earlier.listeners

FilesInv == DiscoveryTypeOK /\ PinsAreHonest /\ GraphsOfTheSameCommit

DInv == IInv /\ FilesInv /\ ReportInv /\ WrittenInv

-----------------------------------------------------------------------------
LEMMA MonolithIsARepo == Monolith \in Repos /\ Monolith \in CodeRepos /\ CodeRepos \subseteq Repos
BY MonolithAssumption, ReposAssumption

(* Every step of discover is one of the steps of Pinning or leaves it alone. *)
LEMMA StepOfPinning == [DiscoveryNext]_allVars => [Next]_vars
<1> SUFFICES ASSUME [DiscoveryNext]_allVars PROVE [Next]_vars
  OBVIOUS
<1>1. CASE Launch
  BY <1>1 DEF Launch, Next
<1>2. CASE World
  BY <1>2 DEF World, Next, Environment
<1>3. CASE Pin
  BY <1>3 DEF Pin, Next
<1>4. CASE ScanFails
  BY <1>4 DEF ScanFails, Next, Crash, worktrees
<1>5. CASE Scan \/ WriteDiscovered \/ WriteRoutes \/ WriteResources \/ WriteListeners \/ WriteBaseline
  BY <1>5 DEF Scan, WriteDiscovered, WriteRoutes, WriteResources, WriteListeners, WriteBaseline
<1>6. CASE Verdict \/ Abort
  BY <1>6 DEF Verdict, Abort, Next
<1>7. CASE Stop
  BY <1>7 DEF Stop, Next
<1>8. CASE UNCHANGED allVars
  BY <1>8 DEF allVars
<1> QED
  BY <1>1, <1>2, <1>3, <1>4, <1>5, <1>6, <1>7, <1>8 DEF DiscoveryNext, Work

LEMMA PinningKeeps == DInv /\ [DiscoveryNext]_allVars => IInv'
BY StepOfPinning, NextInv DEF DInv

(* The pinning itself is over before anything is scanned or written.        *)
LEMMA PinComesFirst == PinStep \/ GraphStep => phase \notin {"idle", "ready", "failed", "refused"}
BY DEF PinStep, GraphStep, SkipMissing, Fetch, RevParse, Checkout, GitFails, RemoveWorktree,
       RemoveFails, PinDone, KeepGraph, BuildGraph, GraphFails, GraphUnreadable, GraphsDone

(* A pinned repository was read at its pin.                                 *)
LEMMA FactsOfThePin ==
  ASSUME DInv, phase = "ready", next # "scan", NEW r \in Repos, pinned[r] # Absent
  PROVE  report.facts[r] = pinned[r]
BY DEF DInv, ReportInv, IInv, PinOnDisk, Running, PinnedRepos

(* Readers that were found are those of the commit that was read.           *)
LEMMA ReadersOfThePin ==
  ASSUME DInv, phase = "ready", next # "scan", report.readers # Absent
  PROVE  /\ pinned[Monolith] # Absent /\ report.readers = pinned[Monolith]
         /\ report.facts[Monolith] = pinned[Monolith]
         /\ tree[Monolith] = pinned[Monolith]
<1>1. report.readers = pinned[Monolith] /\ pinned[Monolith] # Absent
  BY DEF DInv, ReportInv
<1>2. report.facts[Monolith] = pinned[Monolith]
  BY <1>1, MonolithIsARepo, FactsOfThePin
<1> QED
  BY <1>1, <1>2, MonolithIsARepo DEF DInv, ReportInv

-----------------------------------------------------------------------------
LEMMA InitDInv == DiscoveryInit => DInv
<1> SUFFICES ASSUME DiscoveryInit PROVE DInv
  OBVIOUS
<1> USE DEF DiscoveryInit
<1>1. IInv
  BY InitInv
<1>2. DiscoveryTypeOK
  <2>1. TypeOK
    BY <1>1 DEF IInv
  <2>2. report \in Reports
    BY DEF NoReport, Reports, Seen
  <2> QED
    BY <2>1, <2>2, FlagAssumption DEF DiscoveryTypeOK, Steps, Seen, Nothing, Found
<1>3. PinsAreHonest /\ GraphsOfTheSameCommit
  BY DEF PinsAreHonest, GraphsOfTheSameCommit
<1>4. ReportInv /\ WrittenInv
  BY DEF ReportInv, WrittenInv, PastDiscovered, PastRoutes, PastResources, BeforeResources,
         Running, Applied, Writing, Init, Nothing
<1> QED
  BY <1>1, <1>2, <1>3, <1>4 DEF DInv, FilesInv

(* Steps that touch no file.                                                *)
LEMMA FilesStay ==
  ASSUME DInv, [DiscoveryNext]_allVars, UNCHANGED files,
         runs' \in 0..MaxRuns, flags' \subseteq {"apply", "baseline", "fail"}, next' \in Steps,
         report' \in Reports, exitCode' \in {0, 1, 2, Absent}, earlier' \in Found
  PROVE  FilesInv'
<1>1. TypeOK'
  BY PinningKeeps DEF IInv
<1>2. DiscoveryTypeOK'
  BY <1>1 DEF DInv, FilesInv, DiscoveryTypeOK, files, Found
<1>3. PinsAreHonest' /\ GraphsOfTheSameCommit'
  BY DEF DInv, FilesInv, files, PinsAreHonest, GraphsOfTheSameCommit
<1> QED
  BY <1>2, <1>3 DEF FilesInv

LEMMA NoReportIsAReport == NoReport \in Reports /\ Nothing \in Found
BY DEF NoReport, Reports, Seen, Nothing, Found

(* A run begins, ends or fails: nothing is being written.                   *)
LEMMA BetweenRuns ==
  ASSUME DInv, Launch \/ Verdict \/ Abort
  PROVE  FilesInv' /\ ReportInv' /\ WrittenInv'
<1>1. UNCHANGED files /\ next' = "scan"
  BY DEF Launch, Verdict, Abort
<1>2. [DiscoveryNext]_allVars
  BY DEF DiscoveryNext, Work
<1>3. runs' \in 0..MaxRuns
  BY FlagAssumption DEF DInv, FilesInv, DiscoveryTypeOK, Launch, Verdict, Abort
<1>4. flags' \subseteq {"apply", "baseline", "fail"}
  BY FlagAssumption DEF Launch, Verdict, Abort
<1>5. report' \in Reports /\ exitCode' \in {0, 1, 2, Absent} /\ earlier' \in Found
  BY NoReportIsAReport DEF DInv, FilesInv, DiscoveryTypeOK, Launch, Verdict, Abort, Found
<1>6. FilesInv'
  BY <1>1, <1>2, <1>3, <1>4, <1>5, FilesStay DEF Steps
<1> QED
  <2>1. \/ phase' = "idle"
        \/ phase' = "pinning" /\ earlier' = [resources |-> resources', listeners |-> listeners']
    BY <1>1 DEF Launch, StartRun, Verdict, Abort, EndRun, files
  <2> QED
    BY <1>1, <1>6, <2>1
       DEF ReportInv, WrittenInv, PastDiscovered, PastRoutes, PastResources, BeforeResources,
           Running,
           Applied, Writing

(* A failure of any kind: what was in memory is lost, the files stay.       *)
LEMMA RunFails ==
  ASSUME DInv, ScanFails \/ Stop
  PROVE  FilesInv' /\ ReportInv' /\ WrittenInv'
<1>1. UNCHANGED <<run, files>> /\ phase' = "failed"
  BY DEF ScanFails, Stop, Crash
<1>2. [DiscoveryNext]_allVars
  BY DEF DiscoveryNext, Work
<1>3. FilesInv'
  BY <1>1, <1>2, FilesStay DEF DInv, FilesInv, DiscoveryTypeOK, run, held, Found
<1> QED
  BY <1>1, <1>3 DEF ReportInv, WrittenInv, PastDiscovered, PastRoutes, PastResources,
                    BeforeResources, Running, Applied, Writing

(* Pinning, and what others do meanwhile, disturb neither memory nor files. *)
LEMMA OthersWork ==
  ASSUME DInv, World \/ Pin
  PROVE  FilesInv' /\ ReportInv' /\ WrittenInv'
<1>1. UNCHANGED <<run, files>>
  BY DEF World, Pin
<1>2. [DiscoveryNext]_allVars
  BY DEF DiscoveryNext
<1>3. FilesInv'
  BY <1>1, <1>2, FilesStay DEF DInv, FilesInv, DiscoveryTypeOK, run, held, Found
<1>4. CASE Pin
  <2>1. Running /\ phase \notin {"ready", "failed"}
    BY <1>4, PinComesFirst DEF Pin, Running
  <2>2. next = "scan" /\ next' = "scan"
    BY <1>1, <2>1 DEF DInv, ReportInv, run, held
  <2>3. resources = earlier.resources /\ listeners = earlier.listeners
    BY <2>1, <2>2 DEF DInv, WrittenInv, BeforeResources
  <2>4. resources' = earlier'.resources /\ listeners' = earlier'.listeners
    BY <1>1, <2>3 DEF run, held, files
  <2> QED
    BY <1>3, <2>2, <2>4 DEF ReportInv, WrittenInv, PastDiscovered, PastRoutes, PastResources,
                            BeforeResources, Applied, Writing
<1>5. CASE World
  <2>1. UNCHANGED <<phase, tree, pinned, graph>>
    BY <1>5 DEF World, Push, MoveClone, worktrees, loop, answer
  <2> QED
    BY <1>1, <1>3, <2>1 DEF DInv, ReportInv, Parsed, PinnedRepos, WrittenInv, PastDiscovered,
                            PastRoutes,
                            PastResources, BeforeResources, Running, Applied, Writing,
                            ReadersUnavailable, run, held, files
<1> QED
  BY <1>4, <1>5

-----------------------------------------------------------------------------
(* A graph that may be used is of the pinned commit.                        *)
LEMMA UsableGraphs ==
  ASSUME IInv, NEW r \in Repos
  PROVE  UsableGraph(r) \in {Absent, pinned[r]} /\ UsableGraph(r) \in Seen
BY DEF UsableGraph, IInv, TypeOK, Seen

LEMMA ScanKeeps ==
  ASSUME DInv, Scan
  PROVE  FilesInv' /\ ReportInv' /\ WrittenInv'
<1> USE DEF DInv
<1>1. /\ report' = [facts |-> [r \in Repos |-> IF r \in Scanned THEN tree[r] ELSE Absent],
                    grades |-> [r \in CodeRepos |-> UsableGraph(r)],
                    readers |-> UsableGraph(Monolith)]
      /\ UNCHANGED <<vars, runs, flags, exitCode, earlier, files>>
      /\ next' = IF "apply" \in flags THEN "discovered" ELSE "baseline"
      /\ phase = "ready" /\ next = "scan"
      /\ \A r \in Parsed : graph[r] # Broken
  BY DEF Scan, ScanReport
<1>2. UNCHANGED <<phase, tree, pinned, graph>>
  BY <1>1 DEF vars, worktrees, loop, answer
<1>3. report' \in Reports
  BY <1>1, MonolithIsARepo, UsableGraphs DEF IInv, TypeOK, Reports, Seen
<1>4. FilesInv'
  <2>1. [DiscoveryNext]_allVars
    BY DEF DiscoveryNext, Work
  <2>2. next' \in Steps
    BY <1>1 DEF Steps
  <2> QED
    BY <1>1, <1>3, <2>1, <2>2, FilesStay DEF FilesInv, DiscoveryTypeOK, Found
<1>5. ReportInv'
  <2>1. \A r \in Repos : report'.facts[r] = tree[r]
    BY <1>1 DEF Scanned
  <2>2. \A r \in CodeRepos : report'.grades[r] \in {Absent, pinned[r]}
    BY <1>1, MonolithIsARepo, UsableGraphs
  <2>3. report'.readers \in {Absent, pinned[Monolith]}
    BY <1>1, MonolithIsARepo, UsableGraphs
  <2> QED
    BY <1>1, <1>2, <2>1, <2>2, <2>3 DEF ReportInv, Parsed, PinnedRepos
<1>6. WrittenInv'
  <2>1. resources = earlier.resources /\ listeners = earlier.listeners
    BY <1>1 DEF WrittenInv, BeforeResources, Running
  <2>2. resources' = earlier'.resources /\ listeners' = earlier'.listeners
    BY <1>1, <2>1 DEF files
  <2> QED
    BY <1>1, <1>2, <2>2 DEF WrittenInv, PastDiscovered, PastRoutes, PastResources, BeforeResources,
                            Applied, Writing
<1> QED
  BY <1>4, <1>5, <1>6

(* A write goes on to the next one with everything in memory as it was.     *)
LEMMA MemoryStays ==
  ASSUME DInv, phase = "ready", next # "scan", UNCHANGED <<vars, report>>
  PROVE  ReportInv' /\ UNCHANGED <<phase, tree, pinned>>
BY DEF DInv, ReportInv, Parsed, PinnedRepos, vars, worktrees, loop, answer

LEMMA TypeStays ==
  ASSUME DInv, UNCHANGED vars
  PROVE  TypeOK'
BY PinningKeeps, StepOfPinning, NextInv DEF DInv, IInv

LEMMA WriteDiscoveredKeeps ==
  ASSUME DInv, WriteDiscovered
  PROVE  FilesInv' /\ ReportInv' /\ WrittenInv'
<1> USE DEF DInv, WriteDiscovered, Writing, held
<1>1. ReportInv' /\ UNCHANGED <<phase, tree, pinned>>
  BY MemoryStays
<1>2. DiscoveryTypeOK'
  <2>1. discovered' \in [facts : [Repos -> Seen], grades : [CodeRepos -> Seen]]
    BY DEF FilesInv, DiscoveryTypeOK, Reports
  <2> QED
    BY <2>1, TypeStays DEF FilesInv, DiscoveryTypeOK, Steps
<1>3. PinsAreHonest'
  BY DEF FilesInv, PinsAreHonest
<1>4. \A r \in CodeRepos : report.grades[r] # Absent => report.grades[r] = report.facts[r]
  BY FactsOfThePin, MonolithIsARepo DEF ReportInv
<1>5. GraphsOfTheSameCommit'
  BY <1>4 DEF FilesInv, GraphsOfTheSameCommit
<1>6. WrittenInv'
  BY <1>1 DEF WrittenInv, PastDiscovered, PastRoutes, PastResources, BeforeResources, Running,
              Applied, ReadersUnavailable
<1> QED
  BY <1>1, <1>2, <1>3, <1>5, <1>6 DEF FilesInv

LEMMA WriteRoutesKeeps ==
  ASSUME DInv, WriteRoutes
  PROVE  FilesInv' /\ ReportInv' /\ WrittenInv'
<1> USE DEF DInv, WriteRoutes, Writing, held
<1>1. ReportInv' /\ UNCHANGED <<phase, tree, pinned>>
  BY MemoryStays
<1>2. DiscoveryTypeOK'
  <2>1. routes' \in Seen
    BY MonolithIsARepo DEF FilesInv, DiscoveryTypeOK, TypeOK, Seen
  <2> QED
    BY <2>1, TypeStays DEF FilesInv, DiscoveryTypeOK, Steps
<1>3. PinsAreHonest' /\ GraphsOfTheSameCommit'
  BY DEF FilesInv, PinsAreHonest, GraphsOfTheSameCommit
<1>4. tree[Monolith] # Absent => routes' = tree[Monolith]
  BY MonolithIsARepo DEF Scanned
<1>5. CASE ReadersUnavailable
  <2>1. next' = "baseline" /\ ReadersUnavailable'
    BY <1>5 DEF ReadersUnavailable
  <2>2. resources' = earlier'.resources /\ listeners' = earlier'.listeners
    BY DEF WrittenInv, BeforeResources, Running
  <2>3. discovered' = [facts |-> report'.facts, grades |-> report'.grades]
    BY DEF WrittenInv, PastDiscovered
  <2> QED
    BY <1>1, <1>2, <1>3, <1>4, <2>1, <2>2, <2>3
       DEF FilesInv, WrittenInv, PastDiscovered, PastRoutes, PastResources, BeforeResources, Applied
<1>6. CASE ~ReadersUnavailable
  <2>1. next' = "resources"
    BY <1>6
  <2> QED
    BY <1>1, <1>2, <1>3, <1>4, <1>6, <2>1
       DEF FilesInv, WrittenInv, PastDiscovered, PastRoutes, PastResources, BeforeResources,
           Running, Applied, ReadersUnavailable
<1> QED
  BY <1>5, <1>6

LEMMA WriteResourcesKeeps ==
  ASSUME DInv, WriteResources
  PROVE  FilesInv' /\ ReportInv' /\ WrittenInv'
<1> USE DEF DInv, WriteResources, Writing, held
<1>1. ReportInv' /\ UNCHANGED <<phase, tree, pinned>>
  BY MemoryStays
<1>2. DiscoveryTypeOK'
  <2>1. resources' \in Resources
    BY DEF FilesInv, DiscoveryTypeOK, Reports, TypeOK, Seen, Resources, Listeners
  <2> QED
    BY <2>1, TypeStays DEF FilesInv, DiscoveryTypeOK, Steps
<1>3. PinsAreHonest'
  BY FactsOfThePin DEF FilesInv, PinsAreHonest
<1>4. GraphsOfTheSameCommit'
  <2>1. report.facts[Monolith] # Absent => report.readers = report.facts[Monolith]
    BY ReadersOfThePin DEF WrittenInv, ReadersUnavailable
  <2> QED
    BY <2>1 DEF FilesInv, GraphsOfTheSameCommit
<1>5. WrittenInv'
  <2>1. next' = "listeners" /\ ~ReadersUnavailable'
    BY DEF WrittenInv, ReadersUnavailable
  <2>2. resources'.facts = report'.facts /\ resources'.pins = pinned'
    BY <1>1
  <2>3. listeners' = earlier'.listeners
    BY DEF WrittenInv, BeforeResources, Running
  <2>4. discovered' = [facts |-> report'.facts, grades |-> report'.grades]
    BY DEF WrittenInv, PastDiscovered
  <2>5. tree'[Monolith] # Absent => routes' = tree'[Monolith]
    BY <1>1 DEF WrittenInv, PastRoutes
  <2> QED
    BY <2>1, <2>2, <2>3, <2>4, <2>5
       DEF WrittenInv, PastDiscovered, PastRoutes, PastResources, BeforeResources, Applied
<1> QED
  BY <1>1, <1>2, <1>3, <1>4, <1>5 DEF FilesInv

LEMMA WriteListenersKeeps ==
  ASSUME DInv, WriteListeners
  PROVE  FilesInv' /\ ReportInv' /\ WrittenInv'
<1> USE DEF DInv, WriteListeners, Writing, held
<1>1. ReportInv' /\ UNCHANGED <<phase, tree, pinned>>
  BY MemoryStays
<1> DEFINE new == [code |-> report.facts[Monolith], graph |-> report.readers, pin |-> pinned[Monolith]]
           live == report.facts[Monolith] # Absent /\ pinned[Monolith] # Absent
<1>2. listeners' = IF live THEN new ELSE listeners
  OBVIOUS
<1>3. new \in Listeners
  BY MonolithIsARepo DEF FilesInv, DiscoveryTypeOK, Reports, TypeOK, Seen, Resources, Listeners
<1>4. live => new.code = new.pin /\ new.graph = new.code
  BY ReadersOfThePin, FactsOfThePin, MonolithIsARepo DEF WrittenInv, ReadersUnavailable
<1>5. live <=> pinned[Monolith] # Absent
  BY FactsOfThePin, MonolithIsARepo
<1> HIDE DEF live
<1>6. DiscoveryTypeOK'
  BY <1>2, <1>3, TypeStays DEF FilesInv, DiscoveryTypeOK, Steps
<1>7. PinsAreHonest' /\ GraphsOfTheSameCommit'
  BY <1>2, <1>4 DEF FilesInv, PinsAreHonest, GraphsOfTheSameCommit
<1>8. WrittenInv'
  <2>1. next' = "baseline" /\ ~ReadersUnavailable'
    BY DEF WrittenInv, ReadersUnavailable
  <2>2. resources'.facts = report'.facts /\ resources'.pins = pinned'
    BY <1>1 DEF WrittenInv, PastResources
  <2>3. IF pinned'[Monolith] # Absent
          THEN listeners'.code = pinned'[Monolith] /\ listeners'.pin = pinned'[Monolith]
          ELSE listeners' = earlier'.listeners
    BY <1>1, <1>2, <1>4, <1>5 DEF WrittenInv
  <2>4. discovered' = [facts |-> report'.facts, grades |-> report'.grades]
    BY DEF WrittenInv, PastDiscovered
  <2>5. tree'[Monolith] # Absent => routes' = tree'[Monolith]
    BY <1>1 DEF WrittenInv, PastRoutes
  <2> QED
    BY <2>1, <2>2, <2>3, <2>4, <2>5
       DEF WrittenInv, PastDiscovered, PastRoutes, PastResources, BeforeResources, Applied
<1> QED
  BY <1>1, <1>6, <1>7, <1>8 DEF FilesInv

LEMMA WriteBaselineKeeps ==
  ASSUME DInv, WriteBaseline
  PROVE  FilesInv' /\ ReportInv' /\ WrittenInv'
<1> USE DEF DInv, WriteBaseline, Writing, held
<1>1. ReportInv' /\ UNCHANGED <<phase, tree, pinned>>
  BY MemoryStays
<1>2. DiscoveryTypeOK'
  <2>1. FindingKeys \subseteq Repos \X Seen /\ PinnedRepos \subseteq Repos
    BY DEF FindingKeys, PinnedRepos, FilesInv, DiscoveryTypeOK, Reports
  <2> QED
    BY <2>1, TypeStays DEF FilesInv, DiscoveryTypeOK, Steps
<1>3. PinsAreHonest' /\ GraphsOfTheSameCommit'
  BY DEF FilesInv, PinsAreHonest, GraphsOfTheSameCommit
<1>4. WrittenInv'
  BY DEF WrittenInv, PastDiscovered, PastRoutes, PastResources, BeforeResources, Running, Applied
<1> QED
  BY <1>1, <1>2, <1>3, <1>4 DEF FilesInv

LEMMA NextDInv == DInv /\ [DiscoveryNext]_allVars => DInv'
<1> SUFFICES ASSUME DInv, [DiscoveryNext]_allVars PROVE FilesInv' /\ ReportInv' /\ WrittenInv'
  BY PinningKeeps DEF DInv
<1>1. CASE UNCHANGED allVars
  <2>1. FilesInv'
    BY <1>1, FilesStay DEF DInv, FilesInv, DiscoveryTypeOK, allVars, run, held, Found
  <2> QED
    BY <1>1, <2>1 DEF DInv, ReportInv, Parsed, PinnedRepos, WrittenInv, PastDiscovered,
                      PastRoutes, PastResources, BeforeResources, Running, Applied,
                      Writing, ReadersUnavailable, allVars, vars, run, held, files, worktrees,
                      loop, answer
<1> QED
  BY <1>1, BetweenRuns, RunFails, OthersWork, ScanKeeps, WriteDiscoveredKeeps, WriteRoutesKeeps,
     WriteResourcesKeeps, WriteListenersKeeps, WriteBaselineKeeps DEF DiscoveryNext, Work

LEMMA AlwaysDInv == DiscoverySpec => []DInv
BY InitDInv, NextDInv, PTL DEF DiscoverySpec

-----------------------------------------------------------------------------
(* A committed file says truly which commits it is of, over any number of   *)
(* runs that fail or are stopped anywhere.  An --apply that got through to  *)
(* the baseline leaves discovered.json and the routes at what it scanned,   *)
(* and resources.json and listeners.json either both at its pins or, after  *)
(* the early return for want of the readers, both as it found them.         *)
THEOREM FilesAreHonest == DiscoverySpec => []HonestFiles
<1>1. DInv => HonestFiles
  <2> SUFFICES ASSUME DInv, Applied PROVE ApplyAgrees
    BY DEF HonestFiles, DInv, FilesInv, ApplyAgrees, Applied
  <2> USE DEF Applied, Writing
  <2>1. discovered = [facts |-> report.facts, grades |-> report.grades]
    BY DEF DInv, WrittenInv, PastDiscovered
  <2>2. \A r \in PinnedRepos : report.facts[r] = pinned[r]
    BY FactsOfThePin DEF PinnedRepos
  <2>3. report.facts[Monolith] # Absent => routes = report.facts[Monolith]
    BY MonolithIsARepo DEF DInv, ReportInv, WrittenInv, PastRoutes
  <2>4. Monolith \in PinnedRepos <=> pinned[Monolith] # Absent
    BY MonolithIsARepo DEF PinnedRepos
  <2>5. Monolith \in PinnedRepos => routes = pinned[Monolith]
    BY <2>2, <2>3, <2>4
  <2>6. CASE ReadersUnavailable
    BY <2>1, <2>2, <2>3, <2>6 DEF DInv, WrittenInv, BeforeResources, ApplyAgrees
  <2>7. CASE ~ReadersUnavailable
    BY <2>1, <2>2, <2>3, <2>4, <2>5, <2>7 DEF DInv, WrittenInv, PastResources, ApplyAgrees
  <2> QED
    BY <2>6, <2>7
<1> QED
  BY <1>1, AlwaysDInv, PTL

(* No file is ever derived with the graph of a commit it was not read at.   *)
THEOREM GraphsAreOfTheFacts == DiscoverySpec => []GraphsOfTheSameCommit
<1>1. DInv => GraphsOfTheSameCommit
  BY DEF DInv, FilesInv
<1> QED
  BY <1>1, AlwaysDInv, PTL

(* A green check pinned every repository of the baseline, and the baseline   *)
(* holds what it found at that very commit.                                 *)
THEOREM GreenIsTheBaseline == DiscoverySpec => GreenMeansBaseline
<1> DEFINE A == Verdict /\ "fail" \in flags /\ exitCode' = 0 =>
                  /\ baseline.repos \subseteq PinnedRepos
                  /\ \A r \in PinnedRepos : <<r, pinned[r]>> \in baseline.keys
<1>1. DInv => A
  <2> SUFFICES ASSUME DInv, Verdict, "fail" \in flags, exitCode' = 0
               PROVE  /\ baseline.repos \subseteq PinnedRepos
                      /\ \A r \in PinnedRepos : <<r, pinned[r]>> \in baseline.keys
    OBVIOUS
  <2>1. Added = {} /\ Unscanned = {}
    BY DEF Verdict
  <2>2. \A r \in PinnedRepos : report.facts[r] = pinned[r]
    BY FactsOfThePin DEF Verdict, Writing, PinnedRepos
  <2> QED
    BY <2>1, <2>2 DEF Added, Unscanned, FindingKeys, PinnedRepos
<1>2. DInv /\ [DiscoveryNext]_allVars => [A]_allVars
  BY <1>1
<1> QED
  BY <1>2, AlwaysDInv, PTL DEF DiscoverySpec, GreenMeansBaseline

(* A graph cut short stops every later run of its repository before it has  *)
(* written a file or ended green.                                           *)
THEOREM CutGraphsStopTheRun == DiscoverySpec => CutGraphStops
<1> DEFINE A == files' # files \/ (Verdict /\ exitCode' = 0) =>
                  \A r \in CodeRepos \cap PinnedRepos : graph[r] # Broken
<1>1. DInv /\ [DiscoveryNext]_allVars => A
  <2> SUFFICES ASSUME DInv, [DiscoveryNext]_allVars, files' # files \/ Verdict
               PROVE  \A r \in CodeRepos \cap PinnedRepos : graph[r] # Broken
    OBVIOUS
  <2>1. phase = "ready" /\ next # "scan"
    BY DEF DiscoveryNext, Launch, World, Pin, Work, Stop, Scan, ScanFails, WriteDiscovered,
           WriteRoutes, WriteResources, WriteListeners, WriteBaseline, Verdict, Abort, Writing,
           files, allVars
  <2> QED
    BY <2>1 DEF DInv, ReportInv, Parsed
<1>2. DInv /\ [DiscoveryNext]_allVars => [A]_allVars
  BY <1>1
<1> QED
  BY <1>2, AlwaysDInv, PTL DEF DiscoverySpec, CutGraphStops
=============================================================================
