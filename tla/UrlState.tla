------------------------------ MODULE UrlState ------------------------------
(***************************************************************************)
(* Where the reader of the explorer is: the state useUrlState keeps, the    *)
(* address it writes, the browser's history and the patches the pages       *)
(* offer (web/src/hooks/useUrlState.ts, shell/Explorer.tsx and the pages).  *)
(* A click offers a patch; commitPatch merges it, writes the address and    *)
(* pushes or replaces a history entry; a reload, Back and Forward read the  *)
(* address again.  history.back() only asks: the browser moves later.       *)
(***************************************************************************)
EXTENDS Integers, Sequences, FiniteSets

CONSTANTS
  Services, Areas, Teams, Flows, Flags, Files, Resources,  (* ids of the map *)
  FromService,  (* the connections, each with its caller; edge: a set of them *)
  AreaOfTerm,   (* the glossary terms, each with its area                    *)
  FlowOfUnit,   (* the units and stores of the flows, each with its flow     *)
  ServiceOfEndpoint,
  FlowNodes,    (* the services drawn as nodes of a flow's lanes             *)
  Links,        (* the addresses the explorer is opened at                   *)
  MONOLITH, None,
  MaxEntries,   (* the entries a history holds: the browser drops older ones *)
  MaxAsked      (* bound: history moves asked for and not made yet           *)

ASSUME MonolithAssumption == MONOLITH \in Services
(* What the integrity tests of the dataset see to, and ids that are no       *)
(* keywords of the address.                                                 *)
ASSUME MapAssumption ==
  /\ AreaOfTerm \in [DOMAIN AreaOfTerm -> Areas]
  /\ FlowOfUnit \in [DOMAIN FlowOfUnit -> Flows]
  /\ ServiceOfEndpoint \in [DOMAIN ServiceOfEndpoint -> Services]
  /\ FromService \in [DOMAIN FromService -> Services]
  /\ FlowNodes \subseteq Services
  /\ None \notin Services \cup Areas \cup Flows
  /\ None \notin {"1", "home", "areas", "domains", "context", "services", "microservices", "monolith",
                   "flows", "resources", "teams", "impact", "ownership"}
  /\ "1" \notin Services \cup Resources
ASSUME BoundAssumption == MaxEntries \in Nat \ {0, 1} /\ MaxAsked \in Nat

VARIABLES
  state,    (* the current UrlState: page, present, notFound and the keys    *)
  entries,  (* the history: the address of each entry and its inApp mark     *)
  pos,      (* the entry the browser is at; 0: it has left the explorer      *)
  oldest,   (* 0 while the page before the explorer is in the history, or 1  *)
  asked,    (* the moves asked of the browser and not made yet, in order     *)
  shown     (* for checking: what each entry last had on screen              *)
vars == <<state, entries, pos, oldest, asked, shown>>

(* A spread that p's keys win, and the object with the one key k.          *)
p @@ q == [k \in DOMAIN p \cup DOMAIN q |-> IF k \in DOMAIN p THEN p[k] ELSE q[k]]
k :> id == [key \in {k} |-> id]

Terms == DOMAIN AreaOfTerm
Units == DOMAIN FlowOfUnit
Endpoints == DOMAIN ServiceOfEndpoint
Conns == DOMAIN FromService
Edges == (SUBSET Conns) \ {{}}

Pages == {"home", "areas", "microservices", "monolith", "flows", "resources", "impact", "ownership"}
ArchitectureKeys == {"s", "area", "edge", "drawer", "ep"}
(* Mutant: the panel keys were forgotten on the flows page.                 *)
PageKeysNoPanel ==
  [home |-> {}, areas |-> {"area", "term"},
   microservices |-> ArchitectureKeys, monolith |-> ArchitectureKeys,
   flows |-> {"flow", "unit", "flag", "file"},
   resources |-> {"resource"}, impact |-> {"blast"}, ownership |-> {"team"}]

PageKeys == [home |-> {}, areas |-> {"area", "term"},
             microservices |-> ArchitectureKeys, monolith |-> ArchitectureKeys,
             flows |-> {"flow", "unit", "flag", "file", "drawer", "ep"},
             resources |-> {"resource"}, impact |-> {"blast"}, ownership |-> {"team"}]
Keys == UNION {PageKeys[pg] : pg \in Pages}
ParentKey == [term |-> "area", unit |-> "flow", ep |-> "drawer"]
NavigationKeys == {"page", "area", "s", "team", "flow", "edge", "drawer", "flag", "file",
                   "resource", "blast"}
LegacyViewPage == [areas |-> "areas", domains |-> "areas", context |-> "microservices",
                   services |-> "microservices", resources |-> "resources", teams |-> "ownership"]

ServicePage(name) == IF name = MONOLITH THEN "monolith" ELSE "microservices"
Nothing(keys) == [k \in keys |-> None]

-----------------------------------------------------------------------------
(* The address: a function from the keys it has to their values.            *)

Get(address, k) == IF k \in DOMAIN address THEN address[k] ELSE None

InferPage(address) ==
  LET has(k) == Get(address, k) # None IN
  IF has("flow") \/ has("file") \/ has("flag") THEN "flows"
  ELSE IF has("resource") THEN "resources"
  ELSE IF has("blast") THEN "impact"
  ELSE IF Get(address, "view") \in DOMAIN LegacyViewPage THEN LegacyViewPage[address.view]
  ELSE IF has("s") THEN ServicePage(address.s) ELSE "home"

ParseUrl(address) ==
  [k \in Keys |-> IF k = "blast" /\ Get(address, "blast") = "1" THEN Get(address, "s")
                  ELSE Get(address, k)]
  @@ [page |-> IF Get(address, "page") \in Pages THEN address.page ELSE InferPage(address),
      present |-> Get(address, "present") = "1",
      notFound |-> None]

ToQueryString(st) ==
  LET written == {k \in PageKeys[st.page] :
                    /\ st[k] # None
                    /\ k \in DOMAIN ParentKey => st[ParentKey[k]] # None}
  IN  [k \in written |-> st[k]]
      @@ (IF st.page # "home" THEN [page |-> st.page] ELSE << >>)
      @@ (IF st.present THEN [present |-> "1"] ELSE << >>)

(* Does the value of k name something the map has?                          *)
Resolves(st, k) ==
  \/ st[k] = None
  \/ CASE k \in {"s", "drawer"} -> st[k] \in Services
       [] k = "area" -> st.area \in Areas
       [] k = "term" -> st.term \in Terms /\ AreaOfTerm[st.term] = st.area
       [] k = "flow" -> st.flow \in Flows
       [] k = "unit" -> st.unit \in Units /\ FlowOfUnit[st.unit] = st.flow
       [] k = "resource" -> st.resource \in Resources
       [] k = "team" -> st.team \in Teams
       [] k = "flag" -> st.flag \in Flags
       [] k = "file" -> st.file \in Files
       [] k = "edge" -> st.edge \in Edges
       [] k = "ep" -> st.ep \in Endpoints /\ ServiceOfEndpoint[st.ep] = st.drawer
       [] k = "blast" -> st.blast \in Services \cup Resources

Reported == <<"s", "area", "term", "flow", "resource", "blast">>

ValidateUrlState(st) ==
  LET repaired == [k \in Keys |-> IF Resolves(st, k) THEN st[k] ELSE None]
      lost == {i \in DOMAIN Reported : ~Resolves(st, Reported[i])}
      page == IF st.page \in {"microservices", "monolith"} /\ repaired.s # None
                THEN ServicePage(repaired.s) ELSE st.page
  IN  repaired @@ [page |-> page, present |-> st.present,
                   notFound |-> IF lost = {} THEN None
                                ELSE Reported[CHOOSE i \in lost : \A j \in lost : i <= j]]

Read(address) == ValidateUrlState(ParseUrl(address))

(* An old impact link leaves its s in the state; apart from it, a state      *)
(* keeps the keys of its page only, and shows a flow, a flag or a file.     *)
Tidy(st) ==
  /\ \A k \in Keys \ PageKeys[st.page] : st[k] = None \/ (k = "s" /\ st.page = "impact")
  /\ \A j, k \in {"flow", "flag", "file"} : st[j] # None /\ st[k] # None => j = k

(* The links say nothing of other pages than theirs.                        *)
LinksAreTidy == \A link \in Links : Tidy(Read(link))

-----------------------------------------------------------------------------
(* What is on screen.  The panel is hidden on home and while presenting.    *)

ServiceOrOverview(st) ==
  IF st.s # None THEN <<"service", st.s>> ELSE <<"overview", st.area>>

Main(st) ==
  CASE st.page = "home" -> <<"home">>
    [] st.page = "areas" -> IF st.area # None THEN <<"area", st.area, st.term>> ELSE <<"areas">>
    [] st.page = "microservices" -> ServiceOrOverview(st)
    [] st.page = "monolith" ->
         IF st.s = MONOLITH THEN ServiceOrOverview(st)
         ELSE IF st.present THEN <<"inside", st.area>> ELSE <<"inside">>
    [] st.page = "flows" ->
         IF st.flow # None THEN <<"flow", st.flow>>
         ELSE IF st.flag # None THEN <<"flag", st.flag>>
         ELSE IF st.file # None THEN <<"file", st.file>> ELSE <<"flows">>
    [] st.page = "resources" -> <<"resource", st.resource>>
    [] st.page = "impact" -> <<"impact", st.blast>>
    [] st.page = "ownership" -> <<"team", st.team>>

Architecture(st) == st.page \in {"microservices", "monolith"}

Panel(st) ==
  IF st.page = "home" \/ st.present THEN <<"none">>
  ELSE IF st.page = "flows" /\ st.flow # None /\ st.unit # None THEN <<"unit", st.unit>>
  ELSE IF Architecture(st) /\ st.edge # None THEN <<"connections", st.edge>>
  ELSE IF (Architecture(st) \/ st.page = "flows") /\ st.drawer # None
    THEN <<"endpoints", st.drawer, st.ep>>
  ELSE IF Architecture(st) /\ st.area # None THEN <<"slice", st.area>>
  ELSE <<"none">>

Screen(st) == [page |-> st.page, present |-> st.present, notFound |-> st.notFound,
               main |-> Main(st), panel |-> Panel(st)]

-----------------------------------------------------------------------------
(* The patches.  In p @@ q, p wins: a spread that comes later in the code.  *)

PagePatch(pg) == [page |-> pg] @@ Nothing(Keys)
SelectServicePatch(name) == [s |-> name] @@ PagePatch(ServicePage(name))
OpenOn(pg, k, ids) == {(k :> id) @@ PagePatch(pg) : id \in ids}
SelectService == {SelectServicePatch(name) : name \in Services}
OpenResource == OpenOn("resources", "resource", Resources)
OpenFlow == {[page |-> "flows", flow |-> f] : f \in Flows}

(* selectPatch: what a click on a diagram does; panel-only targets do       *)
(* nothing while presenting.                                                *)
ServiceRefs(names) == {[drawer |-> name, ep |-> None, edge |-> None] : name \in names}
AreaRefs == {[area |-> a, drawer |-> None, ep |-> None, edge |-> None] : a \in Areas}
ConnectionRefs == {[edge |-> cs, drawer |-> None, ep |-> None] : cs \in Edges}
UnitRefs(f) == {[unit |-> u] : u \in {v \in Units : FlowOfUnit[v] = f}}
PanelOnly(st, refs) == IF st.present THEN {} ELSE refs

MicroservicesOffers(st) ==
  LET service == st.s # None
      aside == ~service /\ (st.area # None \/ st.edge # None \/ st.drawer # None)
  IN  (IF ~st.present /\ ~aside THEN SelectService ELSE {})
      \cup PanelOnly(st, ServiceRefs(Services))
      \cup (IF service \/ st.area # None THEN PanelOnly(st, ConnectionRefs) ELSE {})
      \cup (IF ~service \/ st.present THEN AreaRefs ELSE {})
      \cup (IF service THEN OpenResource \cup {[page |-> "impact", blast |-> st.s]} ELSE {})
      \cup (IF service /\ ~st.present THEN OpenFlow ELSE {})
      \cup (IF ~service /\ st.present THEN {[area |-> a] : a \in Areas} ELSE {})

MonolithOffers(st) ==
  {[s |-> None, drawer |-> None, ep |-> None, edge |-> None], [s |-> MONOLITH, area |-> None]}
  \cup (IF st.s = MONOLITH THEN MicroservicesOffers(st)
        ELSE IF st.present THEN AreaRefs ELSE {[area |-> a] : a \in Areas})

FileOffers(st) ==
  {[flow |-> FlowOfUnit[u], file |-> None, unit |-> u] : u \in Units}
  \cup {[page |-> "monolith", file |-> None, drawer |-> MONOLITH, ep |-> r] :
          r \in {e \in Endpoints : ServiceOfEndpoint[e] = MONOLITH}}
  \cup OpenResource

FlowOffers(st) ==
  PanelOnly(st, UnitRefs(st.flow) \cup ServiceRefs(FlowNodes)) \cup OpenResource
  \cup OpenOn("flows", "flow", Flows) \cup OpenOn("areas", "area", Areas)

MainOffers(st) ==
  CASE st.page = "home" ->
         {PagePatch(pg) : pg \in {"monolith", "microservices", "flows", "impact"}}
    [] st.page = "areas" ->
         {[area |-> a, term |-> None] : a \in Areas}
         \cup (IF st.area = None THEN {[page |-> "microservices", s |-> None]}
               ELSE {[area |-> None, term |-> None]} \cup OpenFlow \cup SelectService)
    [] st.page = "microservices" -> MicroservicesOffers(st)
    [] st.page = "monolith" -> MonolithOffers(st)
    [] st.page = "flows" ->
         IF st.flow # None THEN FlowOffers(st)
         ELSE IF st.flag # None THEN {[flow |-> f, flag |-> None] : f \in Flows}
         ELSE IF st.file # None THEN FileOffers(st)
         ELSE {[flow |-> f] : f \in Flows}
    [] st.page = "resources" ->
         OpenResource
         \cup (IF st.resource = None THEN {}
               ELSE {[page |-> "flows", resource |-> None, file |-> fl] : fl \in Files}
                    \cup OpenFlow \cup SelectService \cup {[page |-> "impact", blast |-> st.resource]})
    [] st.page = "impact" ->
         {[blast |-> id] : id \in Services \cup Resources}
         \cup (IF st.blast = None THEN {} ELSE OpenResource \cup SelectService \cup OpenFlow)
    [] st.page = "ownership" ->
         {[team |-> t] : t \in Teams \cup {None}} \cup SelectService
         \cup {[page |-> "areas", area |-> a, term |-> None] : a \in Areas}

PanelOffers(st) ==
  LET at == Panel(st)[1] IN
  CASE at = "unit" -> {[flow |-> f, unit |-> None] : f \in Flows} \cup OpenResource
                      \cup {[unit |-> None]}
    [] at = "connections" ->
         {[edge |-> None]}
         \cup (IF Cardinality(st.edge) > 1 THEN {[edge |-> {c}] : c \in st.edge}
               ELSE ServiceRefs(Services))
    [] at = "endpoints" -> {[drawer |-> None, ep |-> None], SelectServicePatch(st.drawer)}
    [] at = "slice" -> OpenOn("areas", "area", {st.area}) \cup OpenResource \cup SelectService
                       \cup OpenOn("flows", "flow", Flows) \cup {[area |-> None]}
    [] at = "none" -> {}

(* Mutant: a result leaves the flow, the flag and the file as they are.     *)
SearchOffersKeepFlow ==
  OpenFlow \cup {[page |-> "flows", file |-> fl] : fl \in Files}
  \cup {[page |-> "flows", flag |-> g] : g \in Flags}

(* buildSearchIndex: every patch closes what CLOSE_OVERLAYS names, but s    *)
(* and team are set by the entries that say so.                             *)
SearchOffers ==
  LET found == {[page |-> ServicePage(n), s |-> n] : n \in Services}
        \cup {[page |-> ServicePage(ServiceOfEndpoint[e]), s |-> ServiceOfEndpoint[e],
               drawer |-> ServiceOfEndpoint[e], ep |-> e] : e \in Endpoints}
        \cup {[page |-> ServicePage(FromService[c]), s |-> FromService[c], edge |-> {c}] : c \in Conns}
        \cup {[page |-> "resources", resource |-> r] : r \in Resources}
        \cup OpenFlow \cup {[page |-> "flows", file |-> fl] : fl \in Files}
        \cup {[page |-> "flows", flag |-> g] : g \in Flags}
        \cup {[page |-> "ownership", team |-> t, s |-> None] : t \in Teams}
        \cup {[page |-> "areas", area |-> a, s |-> None] : a \in Areas}
        \cup {[page |-> "areas", area |-> AreaOfTerm[t], term |-> t, s |-> None] : t \in Terms}
        \cup {[page |-> "microservices", s |-> None]}
  IN  {p @@ Nothing(Keys \ {"s", "team"}) : p \in found}

Offers(st) ==
  MainOffers(st) \cup PanelOffers(st) \cup SearchOffers
  \cup {[present |-> ~st.present], PagePatch("home")}
  \cup (IF st.page = "home" \/ st.present THEN {} ELSE {PagePatch(pg) : pg \in Pages \ {"home"}})
  \cup (IF st.notFound = None THEN {} ELSE {[notFound |-> None]})

(* breadcrumb: the patches of every crumb but the last, always pushed.      *)
CrumbOffers(st) ==
  LET linked(patches) == {patches[i] : i \in 1..(Len(patches) - 1)}
      opened(k) == IF st[k] # None THEN << << >> >> ELSE << >>
      root == <<PagePatch(st.page)>>
  IN  CASE st.page = "home" -> {}
        [] st.page = "areas" ->
             linked(root \o (IF st.area # None THEN <<[area |-> st.area] @@ PagePatch("areas")>>
                                              ELSE << >>) \o opened("term"))
        [] st.page \in {"microservices", "monolith"} -> linked(root \o opened("s"))
        [] st.page = "flows" -> linked(root \o opened("flow") \o opened("file") \o opened("flag"))
        [] st.page = "resources" -> linked(root \o opened("resource"))
        [] st.page = "impact" -> linked(root \o opened("blast"))
        [] st.page = "ownership" -> linked(root \o opened("team"))

-----------------------------------------------------------------------------
IsNavigation(st, p) == \E k \in NavigationKeys \cap DOMAIN p : p[k] # st[k] /\ p[k] # None

ForgetOtherPages(st) == [k \in Keys \ PageKeys[st.page] |-> None] @@ st

Merge(st, p) ==
  LET merged == p @@ [notFound |-> None] @@ st
  IN  IF merged.page # st.page THEN ForgetOtherPages(merged) ELSE merged

(* The history of the browser.  A push forgets the entries ahead, and the   *)
(* oldest one when the history is full.                                     *)
Behind(seq) == SubSeq(seq, IF pos = MaxEntries THEN 2 ELSE 1, pos)

PushState(entry) ==
  /\ entries' = Append(Behind(entries), entry)
  /\ shown' = Append(Behind(shown), Screen(state'))
  /\ pos' = Len(entries')
  /\ oldest' = IF pos = MaxEntries THEN 1 ELSE oldest

(* Mutant: a replaced entry is marked like a pushed one.                    *)
ReplaceMarked(entry) ==
  /\ entries' = [entries EXCEPT ![pos] = [entry EXCEPT !.inApp = TRUE]]
  /\ shown' = [shown EXCEPT ![pos] = Screen(state')]
  /\ UNCHANGED <<pos, oldest>>

ReplaceState(entry) ==
  /\ entries' = [entries EXCEPT ![pos] = entry]
  /\ shown' = [shown EXCEPT ![pos] = Screen(state')]
  /\ UNCHANGED <<pos, oldest>>

CommitPatch(p, push) ==
  LET next == Merge(state, p)
      address == ToQueryString(next)
  IN  /\ pos > 0
      /\ state' = next
      /\ IF push THEN PushState([address |-> address, inApp |-> TRUE])
                 ELSE ReplaceState([address |-> address, inApp |-> entries[pos].inApp])
      /\ UNCHANGED asked

Pick == \E p \in Offers(state) : CommitPatch(p, IsNavigation(state, p))
PickCrumb == \E p \in CrumbOffers(state) : CommitPatch(p, TRUE)

(* FlowPage's Back: the browser's back if this entry is one the explorer    *)
(* pushed, otherwise a patch to the index.                                  *)
(* A move: -1 back, 1 forward; sure, for checking: FlowPage's Back asked for *)
(* it while no other move back was still to come.                           *)
Moves == [move : {-1, 1}, sure : BOOLEAN]
BackPending == \E i \in 1..Len(asked) : asked[i].move = -1

CanGoBack == entries[pos].inApp
Ask(m) == Len(asked) < MaxAsked /\ asked' = Append(asked, m)
          /\ UNCHANGED <<state, entries, pos, oldest, shown>>
FlowBack ==
  /\ pos > 0 /\ state.page = "flows" /\ state.flow # None
  /\ \/ CanGoBack /\ Ask([move |-> -1, sure |-> ~BackPending])
     \/ ~CanGoBack /\ CommitPatch([flow |-> None, unit |-> None], FALSE)

(* The browser's own buttons, which may leave the explorer and come back.   *)
BrowserButton ==
  \E move \in {-1, 1} : /\ pos + move \in oldest..Len(entries)
                        /\ Ask([move |-> move, sure |-> FALSE])

(* The browser makes the first move asked of it; popstate, or loading the   *)
(* explorer again, reads the address.                                       *)
Traverse ==
  /\ asked # << >>
  /\ asked' = Tail(asked)
  /\ IF pos + Head(asked).move \in oldest..Len(entries)
       THEN /\ pos' = pos + Head(asked).move
            /\ state' = IF pos' = 0 THEN state ELSE Read(entries[pos'].address)
       ELSE UNCHANGED <<pos, state>>
  /\ UNCHANGED <<entries, oldest, shown>>

Reload ==
  /\ pos > 0 /\ asked = << >>
  /\ state' = Read(entries[pos].address)
  /\ UNCHANGED <<entries, pos, oldest, asked, shown>>

Init ==
  /\ \E link \in Links : /\ entries = <<[address |-> link, inApp |-> FALSE]>>
                         /\ state = Read(link)
  /\ shown = <<Screen(state)>>
  /\ pos = 1 /\ oldest = 0 /\ asked = << >>

Next == Pick \/ PickCrumb \/ FlowBack \/ BrowserButton \/ Traverse \/ Reload

Spec == Init /\ [][Next]_vars

-----------------------------------------------------------------------------
(* Properties.                                                              *)

(* The state names only what the map has, whatever the address said, and    *)
(* the history is one the browser could hold.                               *)
TypeOK ==
  /\ DOMAIN state = Keys \cup {"page", "present", "notFound"}
  /\ state.page \in Pages /\ state.present \in BOOLEAN
  /\ \A k \in Keys : Resolves(state, k)
  /\ pos \in oldest..Len(entries) /\ oldest \in 0..1 /\ Len(entries) \in 1..MaxEntries /\ Len(shown) = Len(entries)
  /\ asked \in UNION {[1..n -> Moves] : n \in 0..MaxAsked}

(* "Every view state is encoded in the query string": whatever link was      *)
(* opened, the state names only what the map has, and what the reader sees  *)
(* at an entry, after a reload, Back or Forward too, is what was on screen  *)
(* when the entry was last written.                                         *)
EntryShowsWhatWasLeft == TypeOK /\ (pos > 0 => Screen(state) = shown[pos])

(* FlowPage's Back leads out of the explorer only when it is pressed while   *)
(* another move back is still to come (Explorer.tsx:85 does not wait for     *)
(* the first): pressed with none to come, it lands on an entry of the       *)
(* explorer, whatever was picked, pressed or dropped from the history since. *)
BackStaysInside == [][pos > 0 /\ pos' = 0 => ~Head(asked).sure]_vars

Pushed == /\ entries' # entries /\ pos' = Len(entries') /\ pos' > 1
          /\ entries'[pos' - 1] = entries[pos]

(* Whatever is picked is what the page shows: nothing left over from an     *)
(* earlier page or pick hides it, and the pushed entry has an address of    *)
(* its own, so that Back always undoes something.                           *)
PickLandsOnItsPage ==
  [][Pushed => /\ entries'[pos'].address # entries[pos].address
               /\ \A k \in {"flow", "flag", "file", "resource", "team", "blast", "s"} :
                    state'[k] \notin {None, state[k]} => Main(state')[2] = state'[k]]_vars
=============================================================================
