---------------------------- MODULE DiscoveryRun ----------------------------
(***************************************************************************)
(* One `pnpm discover --pinned` after another: discover.ts starts a run,    *)
(* pinned.ts pins (module Pinning), runDiscovery scans .pinned/ into a      *)
(* report, writeOutputs regenerates the committed files one by one, and     *)
(* baseline.ts accepts or refuses what was found.  A file is modelled by    *)
(* the commits it was derived from: every commit of a repository is taken   *)
(* to carry a finding of its own, so that any commit can be told from any   *)
(* other in the baseline.                                                   *)
(***************************************************************************)
EXTENDS Pinning

CONSTANTS Monolith,  (* skello-app                                         *)
          FlagSets,  (* the sets of "apply", "baseline" and "fail" on offer *)
          MaxRuns    (* bound: runs of the program                          *)

ASSUME MonolithAssumption == Monolith \in CodeRepos
ASSUME FlagAssumption == FlagSets \subseteq SUBSET {"apply", "baseline", "fail"} /\ MaxRuns \in Nat

VARIABLES
  runs,       (* how many were started                                      *)
  flags,      (* of the run: --apply, --write-baseline, --fail-on-new       *)
  next,       (* what main or writeOutputs does next                        *)
  report,     (* the report of the scan                                     *)
  exitCode,   (* of the last run, Absent while one lasts                    *)
  discovered, (* discovered.json: the facts and call-edge grades in it      *)
  routes,     (* monolith-routes.json: the commit it was read at            *)
  resources,  (* resources.json: facts, the graph of the readers, the pins  *)
  listeners,  (* listeners.json: the code, its graph and its pin            *)
  baseline,   (* baseline.json: the accepted findings, the repositories     *)
  earlier     (* resources.json and listeners.json as the run found them:   *)
              (* kept to state what an early return leaves                  *)

files == <<discovered, routes, resources, listeners, baseline>>
held == <<runs, flags, report, exitCode, earlier>>
run == <<next, held>>
allVars == <<vars, run, files>>

Steps == {"scan", "discovered", "routes", "resources", "listeners", "baseline", "verdict"}
Seen == Heads \cup {Absent}
Reports == [facts : [Repos -> Seen], grades : [CodeRepos -> Seen], readers : Seen]
Nothing == [resources |-> Absent, listeners |-> Absent]
NoReport == [facts |-> [r \in Repos |-> Absent], grades |-> [r \in CodeRepos |-> Absent],
             readers |-> Absent]

Resources == [facts : [Repos -> Seen], readers : Seen, pins : [Repos -> Seen]]
Listeners == [code : Seen, graph : Seen, pin : Seen]
Found == [resources : Resources \cup {Absent}, listeners : Listeners \cup {Absent}]

DiscoveryTypeOK ==
  /\ TypeOK
  /\ runs \in 0..MaxRuns
  /\ flags \subseteq {"apply", "baseline", "fail"}
  /\ next \in Steps
  /\ report \in Reports
  /\ exitCode \in {0, 1, 2, Absent}
  /\ discovered \in [facts : [Repos -> Seen], grades : [CodeRepos -> Seen]] \cup {Absent}
  /\ routes \in Seen
  /\ resources \in Resources \cup {Absent}
  /\ listeners \in Listeners \cup {Absent}
  /\ baseline.keys \subseteq Repos \X Seen
  /\ baseline.repos \subseteq Repos
  /\ earlier \in Found

DiscoveryInit ==
  /\ Init
  /\ runs = 0
  /\ flags = {}
  /\ next = "scan"
  /\ report = NoReport
  /\ exitCode = Absent
  /\ discovered = Absent
  /\ routes = Absent
  /\ resources = Absent
  /\ listeners = Absent
  /\ baseline = [keys |-> {}, repos |-> {}]
  /\ earlier = Nothing

-----------------------------------------------------------------------------
Launch ==
  /\ runs < MaxRuns
  /\ StartRun
  /\ runs' = runs + 1
  /\ flags' \in FlagSets
  /\ next' = "scan"
  /\ exitCode' = Absent
  /\ earlier' = [resources |-> resources, listeners |-> listeners]
  /\ UNCHANGED <<report, files>>

(* findRepos and the -tf pass: what there is to read under .pinned/.        *)
Scanned == {r \in Repos : tree[r] # Absent}

(* Mutant: the commit the graph was built at is not compared.               *)
AnyGraph(r) == IF pinned[r] # Absent THEN graph[r] ELSE Absent

(* The graph a pinned repository may be graded or read with: the one built  *)
(* at its pinned commit.                                                    *)
UsableGraph(r) == IF pinned[r] # Absent /\ graph[r] = pinned[r] THEN graph[r] ELSE Absent

(* The graphs checkCodeGrades parses, and the one for the readers: both only*)
(* of a pinned repository.  One with code in flows is taken to have a call  *)
(* edge within itself.                                                      *)
Parsed == CodeRepos \cap PinnedRepos

(* The report of runDiscovery, which reads the worktrees in one go.         *)
ScanReport == [facts |-> [r \in Repos |-> IF r \in Scanned THEN tree[r] ELSE Absent],
               grades |-> [r \in CodeRepos |-> UsableGraph(r)],
               readers |-> UsableGraph(Monolith)]

(* Mutant: a graph that does not parse is taken for none.                   *)
ScanAnyway ==
  /\ phase = "ready"
  /\ next = "scan"
  /\ report' = ScanReport
  /\ next' = IF "apply" \in flags THEN "discovered" ELSE "baseline"
  /\ UNCHANGED <<vars, runs, flags, exitCode, earlier, files>>

Scan ==
  /\ phase = "ready"
  /\ next = "scan"
  /\ \A r \in Parsed : graph[r] # Broken
  /\ report' = ScanReport
  /\ next' = IF "apply" \in flags THEN "discovered" ELSE "baseline"
  /\ UNCHANGED <<vars, runs, flags, exitCode, earlier, files>>

(* JSON.parse of a graph cut short, outside any try.                        *)
ScanFails ==
  /\ phase = "ready"
  /\ next = "scan"
  /\ \E r \in Parsed : graph[r] = Broken
  /\ phase' = "failed"
  /\ UNCHANGED <<clones, worktrees, fetchOrigin, todo, at, sha, began, answer, run, files>>

Writing(step) == phase = "ready" /\ next = step

WriteDiscovered ==
  /\ Writing("discovered")
  /\ discovered' = [facts |-> report.facts, grades |-> report.grades]
  /\ next' = "routes"
  /\ UNCHANGED <<vars, held, routes, resources, listeners, baseline>>

(* The findings of checkResources that stop writeOutputs: tables were read  *)
(* and no graph of the pinned commit to find their readers in.              *)
ReadersUnavailable == report.facts[Monolith] # Absent /\ report.readers = Absent

(* Mutant: only resources.json is left out without the readers.             *)
SkipResourcesOnly ==
  /\ Writing("routes")
  /\ routes' = IF Monolith \in Scanned THEN tree[Monolith] ELSE routes
  /\ next' = IF ReadersUnavailable THEN "listeners" ELSE "resources"
  /\ UNCHANGED <<vars, held, discovered, resources, listeners, baseline>>

(* The routes are read from the worktree again, and kept when it is gone.   *)
(* Without the readers writeOutputs returns: resources.json and             *)
(* listeners.json stay those of an earlier run.                             *)
WriteRoutes ==
  /\ Writing("routes")
  /\ routes' = IF Monolith \in Scanned THEN tree[Monolith] ELSE routes
  /\ next' = IF ReadersUnavailable THEN "baseline" ELSE "resources"
  /\ UNCHANGED <<vars, held, discovered, resources, listeners, baseline>>

WriteResources ==
  /\ Writing("resources")
  /\ resources' = [facts |-> report.facts, readers |-> report.readers, pins |-> pinned]
  /\ next' = "listeners"
  /\ UNCHANGED <<vars, held, discovered, routes, listeners, baseline>>

(* liveListeners is null without a schema or without the monolith's pin.    *)
WriteListeners ==
  /\ Writing("listeners")
  /\ listeners' = IF report.facts[Monolith] # Absent /\ pinned[Monolith] # Absent
                    THEN [code |-> report.facts[Monolith], graph |-> report.readers,
                          pin |-> pinned[Monolith]]
                    ELSE listeners
  /\ next' = "baseline"
  /\ UNCHANGED <<vars, held, discovered, routes, resources, baseline>>

(* findingKeys: one per repository and commit; a repository that is not     *)
(* there is a finding too ("repo not checked out locally").                 *)
FindingKeys == {<<r, report.facts[r]>> : r \in Repos}

WriteBaseline ==
  /\ Writing("baseline")
  /\ baseline' = IF "baseline" \in flags
                   THEN [keys |-> FindingKeys, repos |-> PinnedRepos]
                   ELSE baseline
  /\ next' = "verdict"
  /\ UNCHANGED <<vars, held, discovered, routes, resources, listeners>>

Added == FindingKeys \ baseline.keys

(* Mutant: what is under .pinned/ counts as scanned, pinned or not.         *)
UnscannedOnDisk == baseline.repos \ Scanned

(* unscannedRepos, over the baseline as it was before --write-baseline.     *)
(* The flags on offer never ask for both, as no script of the project does. *)
Unscanned == baseline.repos \ PinnedRepos

(* process.exitCode, and the end of a run that got through.                 *)
Verdict ==
  /\ Writing("verdict")
  /\ exitCode' = IF "fail" \in flags /\ (Added # {} \/ Unscanned # {}) THEN 1 ELSE 0
  /\ next' = "scan"
  /\ EndRun
  /\ report' = NoReport
  /\ flags' = {}
  /\ earlier' = Nothing
  /\ UNCHANGED <<runs, files>>

(* A PinError exits with 2, any other exception or signal with 1.           *)
Abort ==
  /\ phase \in {"failed", "refused"}
  /\ EndRun
  /\ exitCode' = IF phase = "refused" THEN 2 ELSE 1
  /\ next' = "scan"
  /\ report' = NoReport
  /\ flags' = {}
  /\ earlier' = Nothing
  /\ UNCHANGED <<runs, files>>

(* A write fails or the process is stopped between two of them.             *)
Stop == Crash /\ UNCHANGED <<run, files>>

World == (\E r \in Repos : Push(r) \/ MoveClone(r)) /\ UNCHANGED <<run, files>>

Pin == (PinStep \/ GraphStep) /\ UNCHANGED <<run, files>>

Work ==
  \/ Scan \/ ScanFails
  \/ WriteDiscovered \/ WriteRoutes \/ WriteResources \/ WriteListeners
  \/ WriteBaseline \/ Verdict \/ Abort

DiscoveryNext == Launch \/ World \/ Pin \/ Work \/ Stop

DiscoverySpec == DiscoveryInit /\ [][DiscoveryNext]_allVars

-----------------------------------------------------------------------------
(* What a committed file says it was pinned at is what it was derived from. *)
PinsAreHonest ==
  /\ resources # Absent =>
       \A r \in Repos : resources.pins[r] # Absent => resources.facts[r] = resources.pins[r]
  /\ listeners # Absent => listeners.code = listeners.pin

(* "a stale graph silently produced zero readers": tables are never written *)
(* with the readers of another commit's graph, or of none, nor listeners;   *)
(* and a call edge is graded with the graph of the very commit whose facts  *)
(* the overlay holds, or not at all.                                        *)
GraphsOfTheSameCommit ==
  /\ resources # Absent /\ resources.facts[Monolith] # Absent =>
       resources.readers = resources.facts[Monolith]
  /\ listeners # Absent => listeners.graph = listeners.code
  /\ discovered # Absent =>
       \A r \in CodeRepos :
         discovered.grades[r] # Absent => discovered.grades[r] = discovered.facts[r]

(* An --apply that got through to the baseline.  discovered.json and the    *)
(* routes are of the worktrees it scanned, those it pinned at their pins.   *)
(* Where the readers were at hand so are resources.json, and listeners.json *)
(* when the monolith was pinned; after the early return both are exactly    *)
(* what the run found, of whatever commit an earlier run read.              *)
ApplyAgrees ==
  Writing("baseline") /\ "apply" \in flags =>
    /\ discovered = [facts |-> report.facts, grades |-> report.grades]
    /\ \A r \in PinnedRepos : discovered.facts[r] = pinned[r]
    /\ report.facts[Monolith] # Absent => routes = report.facts[Monolith]
    /\ IF ReadersUnavailable
         THEN resources = earlier.resources /\ listeners = earlier.listeners
         ELSE /\ resources.facts = report.facts /\ resources.pins = pinned
              /\ IF Monolith \in PinnedRepos
                   THEN /\ routes = pinned[Monolith]
                        /\ listeners.code = pinned[Monolith] /\ listeners.pin = pinned[Monolith]
                   ELSE listeners = earlier.listeners

(* The files of a run agree with each other and with the commits they name. *)
HonestFiles == DiscoveryTypeOK /\ PinsAreHonest /\ ApplyAgrees

(* "a repo from the baseline's scanned set that was not pinned [turns the   *)
(* job red], since its findings would otherwise read as resolved": a green  *)
(* --fail-on-new pinned every baseline repository, and accepted what it     *)
(* found at that very commit.                                               *)
GreenMeansBaseline ==
  [][Verdict /\ "fail" \in flags /\ exitCode' = 0 =>
       /\ baseline.repos \subseteq PinnedRepos
       /\ \A r \in PinnedRepos : <<r, pinned[r]>> \in baseline.keys]_allVars

(* A graph cut short, by a graphify killed or failing in this run or in any *)
(* one before, stops every run that pins its repository before the run has  *)
(* touched a file or called itself green.                                   *)
CutGraphStops ==
  [][files' # files \/ (Verdict /\ exitCode' = 0) =>
       \A r \in CodeRepos \cap PinnedRepos : graph[r] # Broken]_allVars

(* "A skipped pin must leave nothing readable": what a pinned run reads is  *)
(* what it pinned.                                                          *)
ReadsOnlyPinned ==
  phase = "ready" /\ next # "scan" => \A r \in Repos : report.facts[r] # Absent => r \in PinnedRepos

(* "A derived surface must refuse to regenerate from missing inputs":       *)
(* resources.json is not rewritten by a run that could not pin the monolith.*)
RefusesMissingMonolith == [][resources' # resources => Monolith \in PinnedRepos]_allVars
=============================================================================
