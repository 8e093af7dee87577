---------------------------- MODULE SourceChecks ----------------------------
(***************************************************************************)
(* The checks of the dataset against the repositories' sources:              *)
(* discovery/src/flow-check.ts, branch-check.ts and area-check.ts.  Each     *)
(* walks over the references the dataset declares (a unit's path, an edge's *)
(* flag, a rule's source, ...) and judges every one by itself, so the model *)
(* holds one reference, the code of the repositories as a set of facts, and *)
(* which of the repositories are checked out.  The code, the check-outs and *)
(* with them the verdict change in any order.                               *)
(***************************************************************************)
EXTENDS Naturals, FiniteSets

CONSTANTS Repos,       (* repositories of services in the map               *)
          Monolith,    (* skello-app                                        *)
          Libs,        (* _skello-libs-ts, where the PII types are          *)
          SvcNamed,    (* the repositories whose name begins with svc-      *)
          References,  (* references a dataset may declare                  *)
          AbstractControllers, (* paths ABSTRACT_CONTROLLER matches          *)
          Alike,       (* pairs <<part, whole>> of queue names, normalized  *)
          None

Kinds == {"unit", "edgeEnd", "contract", "pii", "authorizer", "gate", "edgeFlag", "unitFlag",
          "branch", "async", "rule", "glob", "anchor", "evidence", "step"}

ASSUME SourceAssumption ==
  /\ Monolith \in Repos \ SvcNamed /\ Libs \notin Repos /\ None \notin Repos
  /\ \A r \in References : r.kind \in Kinds

VARIABLES ref, code, checkedOut

sourceVars == <<ref, code, checkedOut>>

Fact(repo, what, at, name) == [repo |-> repo, what |-> what, at |-> at, name |-> name]

FileAt(repo, path) == Fact(repo, "file", path, None)
Text(repo, path, token) == Fact(repo, "text", path, token)

(* What the scan finds: facts of the repositories that are there.           *)
Seen == {f \in code : f.repo \in checkedOut}

Exists(repo, path) == FileAt(repo, path) \in Seen
Contains(repo, path, token) == Exists(repo, path) /\ Text(repo, path, token) \in Seen

-----------------------------------------------------------------------------
(* checkFlowCodeLayers, one unit: routes are known once skello-app is scanned.*)
RoutelessController(r) ==
  /\ Monolith \in checkedOut
  /\ r.repo = Monolith /\ r.controller
  /\ Fact(Monolith, "route", r.path, None) \notin Seen
  /\ r.path \notin AbstractControllers

(* Mutant: a repository that is not checked out is not told apart.          *)
FileVerdictBlind(repo, path, missing) ==
  IF Exists(repo, path) THEN {"verified"} ELSE {missing}

FileVerdict(repo, path, missing) ==
  IF repo \notin checkedOut THEN {"skipped"}
  ELSE IF Exists(repo, path) THEN {"verified"} ELSE {missing}

UnitVerdict(r) ==
  IF r.repo \notin Repos THEN {"unknown-unit-service"}
  ELSE IF r.path = None THEN {}
  ELSE (IF RoutelessController(r) THEN {"controller-without-route"} ELSE {})
       \cup FileVerdict(r.repo, r.path, "missing-code-path")

EdgeEndVerdict(r) ==
  IF r.end \in r.units \cup Repos \cup r.infra THEN {"verified"} ELSE {"unknown-code-edge-endpoint"}

(* A name among the facts extracted of a service.  A service without any is  *)
(* skipped: for authorizers, queues and PII types an empty extraction is no *)
(* entry, for a spec it is an entry without operations.                     *)
Extracted(repo, what) == {f \in Seen : f.repo = repo /\ f.what = what}

NameVerdict(repo, what, name, missing) ==
  IF Extracted(repo, what) = {} THEN {"skipped"}
  ELSE IF Fact(repo, what, None, name) \in Seen THEN {"verified"} ELSE {missing}

(* checkContractRefs: the spec is a checked-in file.                        *)
ContractVerdict(r) ==
  IF ~Exists(r.repo, "spec") THEN {"skipped"}
  ELSE IF Fact(r.repo, "op", None, r.name) \in Seen THEN {"verified"} ELSE {"contract-not-in-spec"}

(* checkPiiRefs: the classes the SDK of the target types.                   *)
PiiVerdict(r) ==
  IF {f \in Extracted(Libs, "pii") : f.at = r.repo} = {} THEN {"skipped"}
  ELSE IF Fact(Libs, "pii", r.repo, r.name) \in Seen THEN {"verified"}
  ELSE {"pii-class-not-decorator-typed"}

AuthorizerVerdict(r) == NameVerdict(r.repo, "authorizer", r.name, "authorizer-not-in-config")

(* checkAuthContext and checkFeatureFlags: a token of an edge may be in the  *)
(* file of either unit; an end without a file does not count.               *)
SidesWithFile(r) == {s \in r.sides : s.path # None}
SidesPresent(r) == {s \in SidesWithFile(r) : s.repo \in checkedOut}

EdgeTokenVerdict(r, missing) ==
  (IF SidesPresent(r) # SidesWithFile(r) THEN {"skipped"} ELSE {})
  \cup (IF SidesPresent(r) = {} THEN {}
        ELSE IF \E s \in SidesPresent(r) : Contains(s.repo, s.path, r.name)
             THEN {"verified"} ELSE {missing})

(* A token of one unit: checkFeatureFlags, and checkBranches for the literal *)
(* of a branch.                                                             *)
UnitTokenVerdict(r, missing) ==
  IF r.path = None THEN {}
  ELSE IF r.repo \notin checkedOut THEN {"skipped"}
  ELSE IF Contains(r.repo, r.path, r.name) THEN {"verified"} ELSE {missing}

-----------------------------------------------------------------------------
(* checkFailureLayer: asynchronous hops of a code unit into a service.      *)
Wirings(repo) == {f.name : f \in Extracted(repo, "dlq")}
InScope(r) == r.mode \in {"async-job", "async-event"} /\ r.fromUnit /\ r.repo \in Repos \cap SvcNamed

Wired(dlq, wirings) ==
  \E w \in wirings : w.dlq # None /\ (<<dlq, w.dlq>> \in Alike \/ <<w.dlq, dlq>> \in Alike)

Contradicted(queue, wirings) ==
  \E w \in wirings : w.queue # None /\ w.dlq # None /\ <<queue, w.queue>> \in Alike

DlqVerdict(r) ==
  IF r.dlq = None THEN {}
  ELSE IF Wired(r.dlq, Wirings(r.repo)) THEN {"verified"} ELSE {"dlq-not-in-config"}

WaiverVerdict(r) ==
  IF ~r.waived THEN {}
  ELSE IF r.queue # None /\ Contradicted(r.queue, Wirings(r.repo)) THEN {"stale-dlq-waiver"}
  ELSE {"waived"}

AsyncVerdict(r) ==
  IF ~InScope(r) THEN {}
  ELSE IF r.dlq = None /\ ~r.waived THEN {"unannotated-async-edge"}
  ELSE IF Wirings(r.repo) = {} THEN {"skipped"} \cup (IF r.waived THEN {"waived"} ELSE {})
  ELSE DlqVerdict(r) \cup WaiverVerdict(r)

-----------------------------------------------------------------------------
(* checkDomainRules: a changed source asks for a new review of its rule.    *)
Drifted(r) == Fact(r.repo, "changed", r.path, None) \in Seen

RuleVerdict(r) ==
  IF r.path = None THEN {"missing-rule-source"}
  ELSE FileVerdict(r.repo, r.path, "missing-rule-source")
       \cup (IF r.stamped /\ Exists(r.repo, r.path) /\ Drifted(r) THEN {"rule-source-drift"} ELSE {})

(* checkAreas: a glob is as good as the files it matches.                   *)
GlobVerdict(r) ==
  IF r.repo \notin checkedOut THEN {"skipped"}
  ELSE IF \E path \in r.matches : Exists(r.repo, path) THEN {"verified"} ELSE {"dead-glob"}

AnchorVerdict(r) ==
  IF r.repo \notin checkedOut THEN {"skipped"}
  ELSE IF ~Exists(r.repo, r.path) THEN {"missing-anchor"}
  ELSE IF Contains(r.repo, r.path, r.name) THEN {"verified"} ELSE {"anchor-symbol-absent"}

(* A gem, an npm package or a literal: the files it is looked for in.       *)
EvidenceVerdict(r) ==
  IF r.repo \notin checkedOut THEN {"skipped"}
  ELSE IF \E path \in r.matches : Contains(r.repo, path, r.name) THEN {"verified"}
  ELSE {"missing-external-evidence"}

-----------------------------------------------------------------------------
(* checkFlows: a step between two services, against the dataset's own         *)
(* connections and endpoints.  An end that is no service is None.           *)
Connected(from, to) == Fact(from, "connection", None, to) \in code
Endpoints(service) == {f.name : f \in {g \in code : g.repo = service /\ g.what = "endpoint"}}

ConnectionVerdict(r) ==
  IF None \in {r.from, r.to} \/ r.from = r.to THEN {}
  ELSE IF Connected(r.from, r.to) THEN {"verified"}
  ELSE IF Connected(r.to, r.from) THEN {"response"} ELSE {"no-connection"}

(* The path of a response belongs to the caller's own endpoints.            *)
PathIsChecked(r) ==
  /\ r.to # None /\ r.path # None
  /\ r.from = None \/ ~Connected(r.to, r.from)
  /\ Endpoints(r.to) # {}

PathVerdict(r) ==
  IF ~PathIsChecked(r) THEN {}
  ELSE IF r.path \in Endpoints(r.to) THEN {"verified"} ELSE {"unknown-endpoint-path"}

Verdict(r) ==
  CASE r.kind = "unit" -> UnitVerdict(r)
    [] r.kind = "edgeEnd" -> EdgeEndVerdict(r)
    [] r.kind = "contract" -> ContractVerdict(r)
    [] r.kind = "pii" -> PiiVerdict(r)
    [] r.kind = "authorizer" -> AuthorizerVerdict(r)
    [] r.kind = "gate" -> EdgeTokenVerdict(r, "gate-not-in-source")
    [] r.kind = "edgeFlag" -> EdgeTokenVerdict(r, "flag-not-in-source")
    [] r.kind = "unitFlag" -> UnitTokenVerdict(r, "flag-not-in-source")
    [] r.kind = "branch" -> UnitTokenVerdict(r, "missing-branch-literal")
    [] r.kind = "async" -> AsyncVerdict(r)
    [] r.kind = "rule" -> RuleVerdict(r)
    [] r.kind = "glob" -> GlobVerdict(r)
    [] r.kind = "anchor" -> AnchorVerdict(r)
    [] r.kind = "evidence" -> EvidenceVerdict(r)
    [] r.kind = "step" -> ConnectionVerdict(r) \cup PathVerdict(r)

Passed == {"verified", "waived", "response"}
Findings(r) == Verdict(r) \ (Passed \cup {"skipped"})

-----------------------------------------------------------------------------
SourceInit ==
  /\ ref \in References
  /\ code = ref.about
  /\ checkedOut = Repos \cup {Libs}

(* A file, a token, a queue, an endpoint comes or goes.                     *)
CodeChanges(f) ==
  /\ f \in ref.about
  /\ code' = IF f \in code THEN code \ {f} ELSE code \cup {f}
  /\ UNCHANGED <<ref, checkedOut>>

(* A repository is checked out or pinned, or is not any more.               *)
CheckOutChanges(repo) ==
  /\ checkedOut' = IF repo \in checkedOut THEN checkedOut \ {repo} ELSE checkedOut \cup {repo}
  /\ UNCHANGED <<ref, code>>

SourceNext ==
  \/ \E f \in ref.about : CodeChanges(f)
  \/ \E repo \in Repos \cup {Libs} : CheckOutChanges(repo)

SourceSpec == SourceInit /\ [][SourceNext]_sourceVars

-----------------------------------------------------------------------------
(* What a reference says of the code, wherever it is checked out.           *)
FileIs(repo, path) == FileAt(repo, path) \in code
TokenIs(repo, path, token) == FileIs(repo, path) /\ Text(repo, path, token) \in code
WiredTo(r) == {f.name : f \in {g \in code : g.repo = r.repo /\ g.what = "dlq"}}

Holds(r) ==
  CASE r.kind = "unit" ->
         /\ r.repo \in Repos
         /\ r.path # None =>
              /\ FileIs(r.repo, r.path)
              /\ r.repo = Monolith /\ r.controller /\ r.path \notin AbstractControllers
                   => Fact(Monolith, "route", r.path, None) \in code
    [] r.kind = "edgeEnd" -> r.end \in r.units \/ r.end \in Repos \/ r.end \in r.infra
    [] r.kind = "contract" -> Fact(r.repo, "op", None, r.name) \in code
    [] r.kind = "pii" -> Fact(Libs, "pii", r.repo, r.name) \in code
    [] r.kind = "authorizer" -> Fact(r.repo, "authorizer", None, r.name) \in code
    [] r.kind \in {"gate", "edgeFlag"} ->
         \E s \in r.sides : s.path # None /\ TokenIs(s.repo, s.path, r.name)
    [] r.kind \in {"unitFlag", "branch", "anchor"} -> TokenIs(r.repo, r.path, r.name)
    [] r.kind = "async" ->
         /\ r.dlq # None \/ r.waived
         /\ r.dlq # None => Wired(r.dlq, WiredTo(r))
         /\ r.waived /\ r.queue # None => ~Contradicted(r.queue, WiredTo(r))
    [] r.kind = "rule" ->
         /\ r.path # None /\ FileIs(r.repo, r.path)
         /\ r.stamped => Fact(r.repo, "changed", r.path, None) \notin code
    [] r.kind = "glob" -> \E path \in r.matches : FileIs(r.repo, path)
    [] r.kind = "evidence" -> \E path \in r.matches : TokenIs(r.repo, path, r.name)
    [] r.kind = "step" ->
         /\ None \in {r.from, r.to} \/ r.from = r.to \/ Connected(r.from, r.to) \/ Connected(r.to, r.from)
         /\ PathIsChecked(r) => r.path \in Endpoints(r.to)

(* An edge's token that only a repository not checked out has: the check      *)
(* looks for it in the other end's, if that is there, and finds none.       *)
OnlyElsewhere(r) ==
  /\ r.kind \in {"gate", "edgeFlag"}
  /\ \A s \in SidesWithFile(r) : TokenIs(s.repo, s.path, r.name) => s.repo \notin checkedOut

(* A check blames a reference only if the code contradicts it, whatever is   *)
(* checked out, save for one kind: of an edge with one end checked out it   *)
(* misses the token that only the other end's repository has, and then it   *)
(* names that repository as skipped.  And a reference that is passed without *)
(* being skipped does hold: the last fact of a service going away, or its   *)
(* whole repository, ends in a skip and never in a pass.                    *)
VerdictsAreTrue ==
  /\ Findings(ref) # {} /\ Holds(ref) => OnlyElsewhere(ref) /\ "skipped" \in Verdict(ref)
  /\ Verdict(ref) # {} /\ Findings(ref) = {} /\ "skipped" \notin Verdict(ref) => Holds(ref)
=============================================================================
