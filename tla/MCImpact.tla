------------------------------ MODULE MCImpact ------------------------------
(* Four services that call and message each other in circles, some of them,  *)
(* and three relations to a table.                                          *)
EXTENDS ImpactSearch

Link(from, to, kind) == [from |-> from, to |-> to, kind |-> kind]
RelationOf(service, relation) == [service |-> service, relation |-> relation]

MCServices == {"app", "bff", "mail", "jobs"}
MCConnections ==
  {Link("app", "bff", "sync"), Link("bff", "app", "sync"), Link("bff", "mail", "sync"), Link("jobs", "app", "sync"),
   Link("app", "mail", "async"), Link("mail", "jobs", "async"), Link("app", "jobs", "async"), Link("jobs", "bff", "async")}
MCRelations == {RelationOf("mail", "uses"), RelationOf("mail", "consumes"), RelationOf("jobs", "consumes")}
=============================================================================
