---------------------------- MODULE MermaidRender ----------------------------
(***************************************************************************)
(* The Mermaid drawing of web/src/diagram: renderers/MermaidDiagram.tsx      *)
(* renders a source asynchronously while the reader turns to another model  *)
(* or renderer; Diagram.tsx keeps the last render for the PNG export and    *)
(* CopyMermaid.tsx the outcome of the last copy.                            *)
(***************************************************************************)
EXTENDS Naturals, FiniteSets

CONSTANTS Sources,     (* Mermaid sources the models give                   *)
          MaxTurns,    (* bound: changes of source or renderer              *)
          MaxCopies,   (* bound: clicks on Copy                             *)
          Nothing

ASSUME RenderAssumption == MaxTurns \in Nat /\ MaxCopies \in Nat /\ Nothing \notin Sources

VARIABLES broken,    (* sources mermaid cannot draw                         *)
          source,    (* Diagram: source, Nothing while another renderer is on*)
          rendered,  (* MermaidDiagram: rendered                            *)
          last,      (* Diagram: mermaidRender.current                      *)
          renders,   (* renderMermaid calls that are out                    *)
          turns,     (* history: the turn each render belongs to            *)
          status,    (* CopyMermaid: status                                 *)
          copying,   (* writes to the clipboard that are out                *)
          onScreen,  (* history: the instance of CopyMermaid on screen      *)
          clipboard, (* the text the clipboard took last, and from which    *)
             (* instance of CopyMermaid                              *)
          copies     (* history: clicks on Copy                             *)

renderVars == <<broken, source, rendered, last, renders, turns, status, copying, onScreen, clipboard, copies>>

RenderInit ==
  /\ broken \in SUBSET Sources
  /\ source = Nothing
  /\ rendered = Nothing
  /\ last = Nothing
  /\ renders = {}
  /\ turns = 0
  /\ status = Nothing
  /\ copying = {}
  /\ onScreen = 0
  /\ clipboard = [source |-> Nothing, by |-> 0]
  /\ copies = 0

(* Another source: the effect is cleaned up and runs again.  Another          *)
(* renderer: MermaidDiagram and CopyMermaid unmount with their state, and,  *)
(* on another page, Diagram too.                                            *)
Turn(s) ==
  /\ turns < MaxTurns
  /\ s # source
  /\ turns' = turns + 1
  /\ source' = s
  /\ IF s = Nothing
     THEN /\ rendered' = Nothing /\ status' = Nothing
          /\ last' \in {last, Nothing}
          /\ UNCHANGED <<renders, onScreen>>
     ELSE /\ renders' = renders \cup {[source |-> s, turn |-> turns + 1]}
          /\ onScreen' = IF source = Nothing THEN onScreen + 1 ELSE onScreen
          /\ UNCHANGED <<rendered, last, status>>
  /\ UNCHANGED <<broken, copying, clipboard, copies>>

(* Mutant: the effect has no cleanup.                                       *)
AlwaysLive(r) == source # Nothing /\ r \in renders

Live(r) == source # Nothing /\ r.turn = turns

Outcome(s) == [source |-> s, error |-> s \in broken]

(* A render ends, in any order; only the one of the last effect is kept.    *)
RenderEnds(r) ==
  /\ r \in renders
  /\ renders' = renders \ {r}
  /\ IF Live(r)
     THEN /\ rendered' = Outcome(r.source)
          /\ last' = IF r.source \in broken THEN last ELSE r.source
     ELSE UNCHANGED <<rendered, last>>
  /\ UNCHANGED <<broken, source, turns, status, copying, onScreen, clipboard, copies>>

(* Copy writes the source of the click and waits.                           *)
Copy ==
  /\ source # Nothing
  /\ copies < MaxCopies
  /\ copies' = copies + 1
  /\ copying' = copying \cup {[source |-> source, copy |-> copies + 1, by |-> onScreen]}
  /\ UNCHANGED <<broken, source, rendered, last, renders, turns, status, onScreen, clipboard>>

(* Mutant: the status is that of the source on screen.                      *)
StatusOfScreen(c, ok) == [source |-> source, ok |-> ok]

StatusOf(c, ok) == [source |-> c.source, ok |-> ok]

(* The clipboard takes the text or refuses it, be the button still there or  *)
(* not; the button says so if it is.                                        *)
CopyEnds(c) ==
  /\ c \in copying
  /\ copying' = copying \ {c}
  /\ \E ok \in BOOLEAN :
       /\ clipboard' = IF ok THEN [source |-> c.source, by |-> c.by] ELSE clipboard
       /\ status' = IF source # Nothing /\ c.by = onScreen THEN StatusOf(c, ok) ELSE status
  /\ UNCHANGED <<broken, source, rendered, last, renders, turns, onScreen, copies>>

RenderScheduled == \E r \in renders : RenderEnds(r)

RenderNext ==
  \/ \E s \in Sources \cup {Nothing} : Turn(s)
  \/ RenderScheduled
  \/ Copy
  \/ \E c \in copying : CopyEnds(c)

RenderSpec == RenderInit /\ [][RenderNext]_renderVars

-----------------------------------------------------------------------------
(* What is on screen, what Export PNG saves and what Copy says it copied.    *)
Current == IF rendered # Nothing /\ rendered.source = source THEN rendered ELSE Nothing
Exported == IF last = source THEN last ELSE Nothing
SaysCopied == source # Nothing /\ status # Nothing /\ status.source = source /\ status.ok

(* The drawing, the export and the copy are those of the diagram on screen:  *)
(* an error is shown for a source that has one, the export saves no drawing *)
(* that failed or is of another source, and "Copied" is said only if the     *)
(* clipboard holds this source, or has since been given another by a click  *)
(* on a button that is gone: nothing else that ends late belies it.         *)
DrawnIsWhatIsAsked ==
  /\ Current # Nothing => source # Nothing /\ Current.error = (source \in broken)
  /\ Exported # Nothing /\ source # Nothing => source \notin broken
  /\ SaysCopied => clipboard.source = source \/ clipboard.by # onScreen

(* A diagram that stays on screen gets its drawing or its error: a render of *)
(* an earlier source that ends last does not put it back to "Rendering...". *)
DrawingArrives == <>[](source # Nothing => Current # Nothing)
=============================================================================
