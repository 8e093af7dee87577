------------------------------ MODULE MCAnswers ------------------------------
(* Answers that come late, in pages, cut or not at all, one kind per behaviour *)
(* (part): a paged list, the labels behind Jira's suggestions, overlays read *)
(* by several components, Mermaid renders and copies, an AWS account.       *)
EXTENDS PagedFetch, LabelSearch, OverlayLoad, MermaidRender, AwsSnapshot

VARIABLE part

(* Two characters that are probed and one that is not.                      *)
MCWords == {<<"a">>, <<"b">>, <<"a", "a">>, <<"a", "b">>, <<"a", "z">>, <<"b", "a">>,
            <<"z", "a">>, <<"a", "a", "a">>, <<"a", "a", "b">>, <<"a", "b", "b">>}
MCLabelChars == <<"a", "b">>

(* A date that is past, two hours.                                           *)
MCAsked == {-5, 7200}

MCOverlayOf == [r \in Readers |-> IF r = "resource" THEN "datadog" ELSE "jira"]

(* Two stages of one queue.                                                 *)
MCBare == [q \in Queues |-> "documents"]

vars == <<part, pagingVars, labelVars, overlayVars, renderVars, awsVars>>

NoPaging ==
  /\ kind = "bugs" /\ service = {} /\ page = Null /\ items = <<>> /\ n = 0 /\ attempt = 0
  /\ stall = 0 /\ reading = "done" /\ lasting = {} /\ removals = 0 /\ insertions = 0 /\ repeats = 0

NoLabels == labels = {} /\ level = {} /\ left = 0 /\ found = {} /\ threw = FALSE /\ opened = {} /\ probed = {}

NoReaders == OverlayInit /\ file = [name \in Names |-> "null"]

NoDiagram == RenderInit /\ broken = {}

NoAccount == AwsInit /\ queues = {} /\ mappings = {} /\ couplings = {}

Init ==
  \/ part = "pages" /\ PagingInit /\ NoLabels /\ NoReaders /\ NoDiagram /\ NoAccount
  \/ part = "labels" /\ NoPaging /\ LabelInit /\ NoReaders /\ NoDiagram /\ NoAccount
  \/ part = "overlays" /\ NoPaging /\ NoLabels /\ OverlayInit /\ NoDiagram /\ NoAccount
  \/ part = "diagram" /\ NoPaging /\ NoLabels /\ NoReaders /\ RenderInit /\ NoAccount
  \/ part = "account" /\ NoPaging /\ NoLabels /\ NoReaders /\ NoDiagram /\ AwsInit

Pages == part = "pages" /\ PagingNext /\ UNCHANGED <<part, labelVars, overlayVars, renderVars, awsVars>>
Labels == part = "labels" /\ LabelNext /\ UNCHANGED <<part, pagingVars, overlayVars, renderVars, awsVars>>
Overlays == part = "overlays" /\ OverlayNext /\ UNCHANGED <<part, pagingVars, labelVars, renderVars, awsVars>>
Diagram == part = "diagram" /\ RenderNext /\ UNCHANGED <<part, pagingVars, labelVars, overlayVars, awsVars>>
Account == part = "account" /\ AwsNext /\ UNCHANGED <<part, pagingVars, labelVars, overlayVars, renderVars>>

Next == Pages \/ Labels \/ Overlays \/ Diagram \/ Account

(* Mermaid always resolves or rejects; nothing else is owed.                *)
RenderStep ==
  part = "diagram" /\ RenderScheduled /\ UNCHANGED <<part, pagingVars, labelVars, overlayVars, awsVars>>

Spec == Init /\ [][Next]_vars /\ WF_vars(RenderStep)
=============================================================================
