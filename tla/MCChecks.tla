------------------------------ MODULE MCChecks ------------------------------
(* One reference of each kind and the variants its check tells apart, over    *)
(* the monolith, one service and the shared libraries.                      *)
EXTENDS SourceChecks

CONSTANT Service

Files(repos, path) == {FileAt(repo, path) : repo \in repos}
Tokens(repos, path) == Files(repos, path) \cup {Text(repo, path, "token") : repo \in repos}

Unit(repo, path, controller) ==
  [kind |-> "unit", repo |-> repo, path |-> path, controller |-> controller,
   about |-> {FileAt(repo, path), Fact(repo, "route", path, None)}]

Units == {Unit(Monolith, "a", TRUE), Unit(Monolith, "a", FALSE), Unit(Monolith, "base", TRUE),
          Unit(Service, "a", TRUE), Unit(Service, None, FALSE),
          Unit("elsewhere", None, FALSE)}

Ends == {[kind |-> "edgeEnd", end |-> e, units |-> {"unit"}, infra |-> {"queue"}, about |-> {}] :
           e \in {"unit", "queue", "service", Service}}

Given(kind, what) ==
  {[kind |-> kind, repo |-> Service, name |-> "n",
    about |-> {Fact(Service, what, None, name) : name \in {"n", "other"}} \cup Files({Service}, "spec")]}

Pii == {[kind |-> "pii", repo |-> Service, name |-> "n",
         about |-> {Fact(Libs, "pii", repo, name) : repo \in {Service, Monolith}, name \in {"n", "other"}}]}

Side(repo, path) == [repo |-> repo, path |-> path]

EdgeTokens ==
  {[kind |-> kind, sides |-> {Side(Monolith, path), Side(Service, "a")}, name |-> "token",
    about |-> Tokens({Monolith, Service}, "a")] : kind \in {"gate", "edgeFlag"}, path \in {"a", None}}

UnitTokens ==
  {[kind |-> kind, repo |-> Service, path |-> "a", name |-> "token", about |-> Tokens({Service}, "a")] :
     kind \in {"unitFlag", "branch", "anchor"}}

MCAlike == {<<"q", "q">>, <<"q", "long-q">>, <<"long-q", "long-q">>, <<"d", "d">>, <<"d", "long-d">>, <<"long-d", "long-d">>}

Async ==
  {[kind |-> "async", repo |-> repo, mode |-> mode, fromUnit |-> TRUE, dlq |-> dlq, waived |-> waived, queue |-> queue,
    about |-> {Fact(repo, "dlq", None, [queue |-> q, dlq |-> d]) : q \in {"long-q", None}, d \in {"d", "other", None}}] :
     repo \in {Service, Monolith}, mode \in {"async-job"}, dlq \in {"long-d", None},
     waived \in BOOLEAN, queue \in {"q", None}}

Rules ==
  {[kind |-> "rule", repo |-> Service, path |-> path, stamped |-> stamped,
    about |-> {FileAt(Service, "a"), Fact(Service, "changed", "a", None)}] : path \in {"a", None}, stamped \in BOOLEAN}

Patterns ==
  {[kind |-> kind, repo |-> Service, matches |-> {"a", "b"}, name |-> "token",
    about |-> Tokens({Service}, "a") \cup Tokens({Service}, "b")] : kind \in {"glob", "evidence"}}

Steps ==
  {[kind |-> "step", from |-> from, to |-> to, path |-> "p",
    about |-> {Fact(Service, "connection", None, Monolith), Fact(Monolith, "connection", None, Service)}
              \cup {Fact(Service, "endpoint", None, path) : path \in {"p", "other"}}] :
     from \in {Monolith, None}, to \in {Service, None}}

MCReferences ==
  Units \cup Ends \cup Given("contract", "op") \cup Given("authorizer", "authorizer") \cup Pii
  \cup EdgeTokens \cup UnitTokens \cup Async \cup Rules \cup Patterns \cup Steps
=============================================================================
