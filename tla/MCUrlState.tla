----------------------------- MODULE MCUrlState -----------------------------
(* The monolith and one service, one or two of the rest; the links are the  *)
(* documented forms, old ones among them, and links to what is gone.        *)
EXTENDS UrlState

CONSTANTS svc, area, term, flow, flow2, unit, store, route, flag, file, resource, bucket,
          call, event, team, Gone

MCServices == {MONOLITH, svc}
MCAreaOfTerm == term :> area
MCFlowOfUnit == unit :> flow @@ store :> flow2
MCFromService == call :> svc @@ event :> MONOLITH
MCServiceOfEndpoint == route :> MONOLITH

PageLinks == {<< >>, [page |-> "flows", flow |-> flow, unit |-> unit],
              [page |-> "ownership", team |-> Gone], [page |-> "flows", flow |-> Gone],
              [page |-> "monolith", s |-> svc, drawer |-> svc],
              [page |-> "areas", area |-> Gone, term |-> term, present |-> "1"]}
OldLinks == {[view |-> "domains", area |-> area], [s |-> MONOLITH], [blast |-> "1", s |-> svc],
             [flow |-> flow]}
MCLinks == PageLinks \cup OldLinks

(* What the proofs ask for.                                                 *)
ASSUME ProofAssumption == LinksAreTidy
=============================================================================
