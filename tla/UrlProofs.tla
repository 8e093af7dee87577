----------------------------- MODULE UrlProofs -----------------------------
(***************************************************************************)
(* The reader's place in the explorer: what each entry of the history says, *)
(* for every map, every patch the pages offer and any number of picks,      *)
(* moves and reloads.                                                       *)
(***************************************************************************)
EXTENDS UrlState, SequenceTheorems, TLAPS

(* A state that the current page and the map agree with.                    *)
Fields == Keys \cup {"page", "present", "notFound"}

Placed(st) == Architecture(st) /\ st.s # None => st.page = ServicePage(st.s)

Proper(st) ==
  /\ DOMAIN st = Fields
  /\ st.page \in Pages /\ st.present \in BOOLEAN
  /\ \A k \in Keys : Resolves(st, k)
  /\ Tidy(st)
  /\ Placed(st)

(* The two have the same page and the same keys of it.                      *)
Alike(st, t) == /\ st.page = t.page /\ st.present = t.present /\ st.notFound = t.notFound
                /\ \A k \in PageKeys[st.page] : st[k] = t[k]

(* The history is one the browser could hold; what it remembers of the page *)
(* before the explorer is that the first entry was not pushed.              *)
IsSeq(q) == q \in Seq({q[i] : i \in 1..Len(q)})
HistoryInv ==
  /\ IsSeq(entries) /\ IsSeq(shown) /\ Len(shown) = Len(entries) /\ Len(entries) \in 1..MaxEntries
  /\ \A i \in 1..Len(entries) :
       entries[i] = [address |-> entries[i].address, inApp |-> entries[i].inApp]
  /\ oldest \in 0..1 /\ pos \in oldest..Len(entries)
  /\ oldest = 0 => ~entries[1].inApp
  /\ asked \in Seq(Moves) /\ Len(asked) <= MaxAsked

(* Every entry reads as a proper state that shows what was left there, and  *)
(* the current state is like the one its entry reads as.                    *)
StatesInv ==
  /\ \A i \in 1..Len(entries) : /\ Proper(Read(entries[i].address))
                                /\ Screen(Read(entries[i].address)) = shown[i]
  /\ Proper(state)
  /\ pos > 0 => Alike(state, Read(entries[pos].address))

(* A sure move has an entry of the explorer behind it, and no move back is   *)
(* made before it.                                                          *)
BackInv == \A i \in 1..Len(asked) : asked[i].sure =>
             /\ pos > 1 \/ oldest = 1
             /\ \A j \in 1..(i - 1) : asked[j].move = 1

-----------------------------------------------------------------------------
LEMMA KeysAre ==
  Keys = {"area", "term", "s", "edge", "drawer", "ep", "flow", "unit", "flag", "file",
          "resource", "blast", "team"}
BY DEF Keys, Pages, PageKeys, ArchitectureKeys

LEMMA PageKeysAre ==
  /\ PageKeys["home"] = {} /\ PageKeys["areas"] = {"area", "term"}
  /\ PageKeys["microservices"] = {"s", "area", "edge", "drawer", "ep"}
  /\ PageKeys["monolith"] = {"s", "area", "edge", "drawer", "ep"}
  /\ PageKeys["flows"] = {"flow", "unit", "flag", "file", "drawer", "ep"}
  /\ PageKeys["resources"] = {"resource"} /\ PageKeys["impact"] = {"blast"}
  /\ PageKeys["ownership"] = {"team"}
BY DEF PageKeys, ArchitectureKeys

(* Every key names something of the map, said key by key.                   *)
Resolved(st) ==
  /\ st.s \in Services \cup {None} /\ st.drawer \in Services \cup {None}
  /\ st.area \in Areas \cup {None} /\ st.flow \in Flows \cup {None}
  /\ st.term = None \/ (st.term \in Terms /\ AreaOfTerm[st.term] = st.area)
  /\ st.unit = None \/ (st.unit \in Units /\ FlowOfUnit[st.unit] = st.flow)
  /\ st.ep = None \/ (st.ep \in Endpoints /\ ServiceOfEndpoint[st.ep] = st.drawer)
  /\ st.resource \in Resources \cup {None} /\ st.team \in Teams \cup {None}
  /\ st.flag \in Flags \cup {None} /\ st.file \in Files \cup {None}
  /\ st.edge \in Edges \cup {None} /\ st.blast \in Services \cup Resources \cup {None}

LEMMA ResolvedIs == ASSUME NEW st PROVE (\A k \in Keys : Resolves(st, k)) <=> Resolved(st)
BY KeysAre, SMTT(60) DEF Resolves, Resolved

(* A state keeps the keys of its page only, said key by key.                *)
Kept(st) ==
  /\ st.area # None => st.page \in {"areas", "microservices", "monolith"}
  /\ st.term # None => st.page = "areas"
  /\ st.s # None => st.page \in {"microservices", "monolith", "impact"}
  /\ st.edge # None => st.page \in {"microservices", "monolith"}
  /\ st.drawer # None => st.page \in {"microservices", "monolith", "flows"}
  /\ st.ep # None => st.page \in {"microservices", "monolith", "flows"}
  /\ st.flow # None => st.page = "flows" /\ st.flag = None /\ st.file = None
  /\ st.flag # None => st.page = "flows" /\ st.file = None
  /\ st.file # None => st.page = "flows"
  /\ st.unit # None => st.page = "flows"
  /\ st.resource # None => st.page = "resources"
  /\ st.blast # None => st.page = "impact"
  /\ st.team # None => st.page = "ownership"

LEMMA KeptIs == ASSUME NEW st, st.page \in Pages PROVE Tidy(st) <=> Kept(st)
BY KeysAre, PageKeysAre, SMTT(60) DEF Tidy, Kept, Pages

LEMMA MergeAt ==
  ASSUME NEW st, NEW p, DOMAIN st = Fields, DOMAIN p \subseteq Fields,
         NEW pg, pg = IF "page" \in DOMAIN p THEN p.page ELSE st.page
  PROVE  LET m == Merge(st, p) IN
         /\ DOMAIN m = Fields /\ m.page = pg
         /\ m.present = IF "present" \in DOMAIN p THEN p.present ELSE st.present
         /\ m.notFound = IF "notFound" \in DOMAIN p THEN p.notFound ELSE None
         /\ \A k \in Keys : m[k] = IF pg # st.page /\ k \notin PageKeys[pg] THEN None
                                   ELSE IF k \in DOMAIN p THEN p[k] ELSE st[k]
<1> DEFINE merged == p @@ [notFound |-> None] @@ st
<1>0. {"page", "present", "notFound"} \cap Keys = {}
  BY KeysAre
<1>1. /\ DOMAIN merged = Fields
      /\ merged["page"] = pg
      /\ merged["present"] = IF "present" \in DOMAIN p THEN p.present ELSE st.present
      /\ merged["notFound"] = IF "notFound" \in DOMAIN p THEN p.notFound ELSE None
      /\ \A k \in Keys : merged[k] = IF k \in DOMAIN p THEN p[k] ELSE st[k]
  BY <1>0 DEF @@, Fields
<1>2. CASE pg = st.page
  BY <1>1, <1>2 DEF Merge
<1>3. CASE pg # st.page
  <2>1. Merge(st, p) = [k \in Keys \ PageKeys[pg] |-> None] @@ merged
    BY <1>1, <1>3 DEF Merge, ForgetOtherPages
  <2> QED  BY <1>0, <1>1, <1>3, <2>1 DEF @@, Fields
<1> QED  BY <1>2, <1>3

LEMMA ProperIs ==
  ASSUME NEW st
  PROVE  Proper(st) <=> /\ DOMAIN st = Fields /\ st.page \in Pages /\ st.present \in BOOLEAN
                        /\ Resolved(st) /\ Kept(st) /\ Placed(st)
BY ResolvedIs, KeptIs DEF Proper

(* What p does to st is fit for the pages: the state it leaves is Proper.   *)
Fits(st, p) ==
  /\ DOMAIN p \subseteq Fields
  /\ Proper(Merge(st, p)) /\ Merge(st, p).notFound = None
  /\ Merge(st, p).page = "impact" => Merge(st, p).s \in {None, st.s}

LEMMA FitsWhen ==
  ASSUME NEW st, NEW p, NEW m, m = Merge(st, p), DOMAIN p \subseteq Fields, DOMAIN m = Fields,
         m.page \in Pages, m.present \in BOOLEAN, m.notFound = None,
         m.page = "impact" => m.s \in {None, st.s},
         Resolved(m), Kept(m), Placed(m)
  PROVE  Fits(st, p)
BY ProperIs DEF Fits

LEMMA JumpFits ==
  ASSUME NEW st, Proper(st), NEW pg \in Pages, NEW k \in Keys, NEW id,
         NEW p, p = (k :> id) @@ PagePatch(pg),
         \/ k = "s" /\ id \in Services /\ pg = ServicePage(id)
         \/ k = "area" /\ id \in Areas /\ pg = "areas"
         \/ k = "resource" /\ id \in Resources /\ pg = "resources"
         \/ k = "flow" /\ id \in Flows /\ pg = "flows"
  PROVE  Fits(st, p)
<1>1. /\ DOMAIN p = Keys \cup {"page"} /\ p["page"] = pg
      /\ \A j \in Keys : p[j] = IF j = k THEN id ELSE None
  BY KeysAre DEF PagePatch, Nothing, @@, :>
<1> DEFINE m == Merge(st, p)
<1>2. /\ DOMAIN m = Fields /\ m.page = pg /\ m.present = st.present /\ m.notFound = None
      /\ \A j \in Keys : m[j] = IF j = k THEN id ELSE None
  BY <1>1, MergeAt, KeysAre, PageKeysAre DEF Proper, Fields, ServicePage
<1>3. Resolved(m) /\ Kept(m) /\ Placed(m)
  BY <1>2, KeysAre DEF Resolved, Kept, Placed, ServicePage, Architecture
<1>4. pg # "impact"
  BY DEF ServicePage
<1> QED  BY <1>1, <1>2, <1>3, <1>4, FitsWhen DEF Fields, Proper

LEMMA SearchShape ==
  ASSUME NEW q, NEW p, p = q @@ Nothing(Keys \ {"s", "team"})
  PROVE  /\ DOMAIN p = DOMAIN q \cup (Keys \ {"s", "team"})
         /\ \A k \in DOMAIN p : p[k] = IF k \in DOMAIN q THEN q[k] ELSE None
BY DEF @@, Nothing

(* What a result of the search leaves.                                      *)
LEMMA SearchLeaves ==
  ASSUME NEW st, Proper(st), NEW q, q.page \in Pages \ {"impact"},
         DOMAIN q \subseteq Keys \cup {"page"}, "page" \in DOMAIN q,
         \A k \in Keys \cap DOMAIN q : k \in PageKeys[q.page] \/ q[k] = None,
         q.page \in {"microservices", "monolith"} => "s" \in DOMAIN q,
         q.page = "ownership" => "team" \in DOMAIN q,
         NEW p, p = q @@ Nothing(Keys \ {"s", "team"}), NEW m, m = Merge(st, p)
  PROVE  /\ DOMAIN p \subseteq Fields /\ DOMAIN m = Fields /\ m.page = q.page
         /\ m.present = st.present /\ m.notFound = None
         /\ \A k \in Keys : m[k] = IF k \in DOMAIN q THEN q[k] ELSE None
<1>1. /\ DOMAIN p = DOMAIN q \cup (Keys \ {"s", "team"})
      /\ \A k \in DOMAIN p : p[k] = IF k \in DOMAIN q THEN q[k] ELSE None
  BY SearchShape
<1>2. DOMAIN p \subseteq Fields /\ DOMAIN st = Fields /\ Kept(st) /\ st.page \in Pages
  BY <1>1, ProperIs DEF Fields
<1>3. /\ DOMAIN m = Fields /\ m.page = q.page /\ m.present = st.present /\ m.notFound = None
      /\ \A k \in Keys : m[k] = IF q.page # st.page /\ k \notin PageKeys[q.page] THEN None
                                ELSE IF k \in DOMAIN p THEN p[k] ELSE st[k]
  BY <1>1, <1>2, MergeAt, KeysAre
<1>4. \A k \in Keys : m[k] = IF k \in DOMAIN q THEN q[k] ELSE None
  BY <1>1, <1>2, <1>3, KeysAre, PageKeysAre DEF Kept, Pages
<1> QED  BY <1>2, <1>3, <1>4

LEMMA SearchFits == ASSUME NEW st, Proper(st), NEW p \in SearchOffers PROVE Fits(st, p)
<1> DEFINE m == Merge(st, p)
           Leaves(q) == /\ DOMAIN p \subseteq Fields /\ DOMAIN m = Fields
                        /\ m.present \in BOOLEAN /\ m.notFound = None /\ m.page = q.page
                        /\ \A k \in Keys : m[k] = IF k \in DOMAIN q THEN q[k] ELSE None
<1>1. ASSUME NEW q, DOMAIN q \subseteq Keys \cup {"page"}, "page" \in DOMAIN q,
             q.page \in Pages \ {"impact"}, p = q @@ Nothing(Keys \ {"s", "team"}),
             \A k \in Keys \cap DOMAIN q : k \in PageKeys[q.page] \/ q[k] = None,
             q.page \in {"microservices", "monolith"} => "s" \in DOMAIN q,
             q.page = "ownership" => "team" \in DOMAIN q
      PROVE  Leaves(q)
  BY <1>1, SearchLeaves DEF Proper
<1>2. \A n : ServicePage(n) \in {"microservices", "monolith"}
  BY DEF ServicePage
<1>3. ASSUME NEW n \in Services, NEW q, q = [page |-> ServicePage(n), s |-> n],
             p = q @@ Nothing(Keys \ {"s", "team"})
      PROVE  Fits(st, p)
  <2>1. Leaves(q)
    BY <1>3, <1>1, <1>2, KeysAre, PageKeysAre DEF Pages
  <2> HIDE DEF m
  <2>2. Resolved(m) /\ Kept(m) /\ Placed(m)
    BY <1>3, <2>1, KeysAre, MapAssumption
    DEF Resolved, Kept, Placed, ServicePage, Architecture, Endpoints, Conns, Terms, Edges
  <2> QED  BY <1>3, <1>2, <2>1, <2>2, FitsWhen DEF m, Pages
<1>4. ASSUME NEW e \in Endpoints, NEW q,
             q = [page |-> ServicePage(ServiceOfEndpoint[e]), s |-> ServiceOfEndpoint[e],
               drawer |-> ServiceOfEndpoint[e], ep |-> e],
             p = q @@ Nothing(Keys \ {"s", "team"})
      PROVE  Fits(st, p)
  <2>1. Leaves(q)
    BY <1>4, <1>1, <1>2, KeysAre, PageKeysAre DEF Pages
  <2> HIDE DEF m
  <2>2. Resolved(m) /\ Kept(m) /\ Placed(m)
    BY <1>4, <2>1, KeysAre, MapAssumption
    DEF Resolved, Kept, Placed, ServicePage, Architecture, Endpoints, Conns, Terms, Edges
  <2> QED  BY <1>4, <1>2, <2>1, <2>2, FitsWhen DEF m, Pages
<1>5. ASSUME NEW c \in Conns, NEW q,
             q = [page |-> ServicePage(FromService[c]), s |-> FromService[c], edge |-> {c}],
             p = q @@ Nothing(Keys \ {"s", "team"})
      PROVE  Fits(st, p)
  <2>1. Leaves(q)
    BY <1>5, <1>1, <1>2, KeysAre, PageKeysAre, SMTT(60) DEF Pages
  <2> HIDE DEF m
  <2>2. Resolved(m) /\ Kept(m) /\ Placed(m)
    BY <1>5, <2>1, KeysAre, MapAssumption
    DEF Resolved, Kept, Placed, ServicePage, Architecture, Endpoints, Conns, Terms, Edges
  <2> QED  BY <1>5, <1>2, <2>1, <2>2, FitsWhen DEF m, Pages
<1>6. ASSUME NEW r \in Resources, NEW q, q = [page |-> "resources", resource |-> r],
             p = q @@ Nothing(Keys \ {"s", "team"})
      PROVE  Fits(st, p)
  <2>1. Leaves(q)
    BY <1>6, <1>1, <1>2, KeysAre, PageKeysAre DEF Pages
  <2> HIDE DEF m
  <2>2. Resolved(m) /\ Kept(m) /\ Placed(m)
    BY <1>6, <2>1, KeysAre, MapAssumption
    DEF Resolved, Kept, Placed, ServicePage, Architecture, Endpoints, Conns, Terms, Edges
  <2> QED  BY <1>6, <1>2, <2>1, <2>2, FitsWhen DEF m, Pages
<1>7. ASSUME NEW f \in Flows, NEW q, q = [page |-> "flows", flow |-> f],
             p = q @@ Nothing(Keys \ {"s", "team"})
      PROVE  Fits(st, p)
  <2>1. Leaves(q)
    BY <1>7, <1>1, <1>2, KeysAre, PageKeysAre DEF Pages
  <2> HIDE DEF m
  <2>2. Resolved(m) /\ Kept(m) /\ Placed(m)
    BY <1>7, <2>1, KeysAre, MapAssumption
    DEF Resolved, Kept, Placed, ServicePage, Architecture, Endpoints, Conns, Terms, Edges
  <2> QED  BY <1>7, <1>2, <2>1, <2>2, FitsWhen DEF m, Pages
<1>8. ASSUME NEW fl \in Files, NEW q, q = [page |-> "flows", file |-> fl],
             p = q @@ Nothing(Keys \ {"s", "team"})
      PROVE  Fits(st, p)
  <2>1. Leaves(q)
    BY <1>8, <1>1, <1>2, KeysAre, PageKeysAre DEF Pages
  <2> HIDE DEF m
  <2>2. Resolved(m) /\ Kept(m) /\ Placed(m)
    BY <1>8, <2>1, KeysAre, MapAssumption
    DEF Resolved, Kept, Placed, ServicePage, Architecture, Endpoints, Conns, Terms, Edges
  <2> QED  BY <1>8, <1>2, <2>1, <2>2, FitsWhen DEF m, Pages
<1>9. ASSUME NEW g \in Flags, NEW q, q = [page |-> "flows", flag |-> g],
             p = q @@ Nothing(Keys \ {"s", "team"})
      PROVE  Fits(st, p)
  <2>1. Leaves(q)
    BY <1>9, <1>1, <1>2, KeysAre, PageKeysAre DEF Pages
  <2> HIDE DEF m
  <2>2. Resolved(m) /\ Kept(m) /\ Placed(m)
    BY <1>9, <2>1, KeysAre, MapAssumption
    DEF Resolved, Kept, Placed, ServicePage, Architecture, Endpoints, Conns, Terms, Edges
  <2> QED  BY <1>9, <1>2, <2>1, <2>2, FitsWhen DEF m, Pages
<1>10. ASSUME NEW t \in Teams, NEW q, q = [page |-> "ownership", team |-> t, s |-> None],
             p = q @@ Nothing(Keys \ {"s", "team"})
      PROVE  Fits(st, p)
  <2>1. Leaves(q)
    BY <1>10, <1>1, <1>2, KeysAre, PageKeysAre DEF Pages
  <2> HIDE DEF m
  <2>2. Resolved(m) /\ Kept(m) /\ Placed(m)
    BY <1>10, <2>1, KeysAre, MapAssumption
    DEF Resolved, Kept, Placed, ServicePage, Architecture, Endpoints, Conns, Terms, Edges
  <2> QED  BY <1>10, <1>2, <2>1, <2>2, FitsWhen DEF m, Pages
<1>11. ASSUME NEW a \in Areas, NEW q, q = [page |-> "areas", area |-> a, s |-> None],
             p = q @@ Nothing(Keys \ {"s", "team"})
      PROVE  Fits(st, p)
  <2>1. Leaves(q)
    BY <1>11, <1>1, <1>2, KeysAre, PageKeysAre DEF Pages
  <2> HIDE DEF m
  <2>2. Resolved(m) /\ Kept(m) /\ Placed(m)
    BY <1>11, <2>1, KeysAre, MapAssumption
    DEF Resolved, Kept, Placed, ServicePage, Architecture, Endpoints, Conns, Terms, Edges
  <2> QED  BY <1>11, <1>2, <2>1, <2>2, FitsWhen DEF m, Pages
<1>12. ASSUME NEW t \in Terms, NEW q,
              q = [page |-> "areas", area |-> AreaOfTerm[t], term |-> t, s |-> None],
             p = q @@ Nothing(Keys \ {"s", "team"})
      PROVE  Fits(st, p)
  <2>1. Leaves(q)
    BY <1>12, <1>1, <1>2, KeysAre, PageKeysAre DEF Pages
  <2> HIDE DEF m
  <2>2. Resolved(m) /\ Kept(m) /\ Placed(m)
    BY <1>12, <2>1, KeysAre, MapAssumption
    DEF Resolved, Kept, Placed, ServicePage, Architecture, Endpoints, Conns, Terms, Edges
  <2> QED  BY <1>12, <1>2, <2>1, <2>2, FitsWhen DEF m, Pages
<1>13. ASSUME NEW q, q = [page |-> "microservices", s |-> None],
             p = q @@ Nothing(Keys \ {"s", "team"})
      PROVE  Fits(st, p)
  <2>1. Leaves(q)
    BY <1>13, <1>1, <1>2, KeysAre, PageKeysAre DEF Pages
  <2> HIDE DEF m
  <2>2. Resolved(m) /\ Kept(m) /\ Placed(m)
    BY <1>13, <2>1, KeysAre, MapAssumption
    DEF Resolved, Kept, Placed, ServicePage, Architecture, Endpoints, Conns, Terms, Edges
  <2> QED  BY <1>13, <1>2, <2>1, <2>2, FitsWhen DEF m, Pages
<1> QED  BY <1>3, <1>4, <1>5, <1>6, <1>7, <1>8, <1>9, <1>10, <1>11, <1>12, <1>13
    DEF SearchOffers, OpenFlow

(* What a patch within a page leaves, and one that turns to a page.         *)
Stays(st, p, m) ==
  /\ DOMAIN p \subseteq Fields /\ DOMAIN m = Fields /\ m.page = st.page
  /\ m.present = st.present /\ m.notFound = None
  /\ \A k \in Keys : m[k] = IF k \in DOMAIN p THEN p[k] ELSE st[k]
Turns(st, p, m) ==
  /\ DOMAIN p \subseteq Fields /\ DOMAIN m = Fields /\ m.page = p.page
  /\ m.present = st.present /\ m.notFound = None
  /\ \A k \in Keys : m[k] = IF k \notin PageKeys[p.page] THEN None
                            ELSE IF k \in DOMAIN p THEN p[k] ELSE st[k]

LEMMA StayLeaves ==
  ASSUME NEW st, Proper(st), NEW p, DOMAIN p \subseteq Keys PROVE Stays(st, p, Merge(st, p))
BY MergeAt, KeysAre DEF Fields, Proper, Stays

LEMMA TurnLeaves ==
  ASSUME NEW st, Proper(st), NEW p, DOMAIN p \subseteq Keys \cup {"page"}, "page" \in DOMAIN p,
         p.page # st.page
  PROVE  Turns(st, p, Merge(st, p))
BY MergeAt, KeysAre DEF Fields, Proper, Turns

LEMMA PagePatchFits == ASSUME NEW st, Proper(st), NEW pg \in Pages PROVE Fits(st, PagePatch(pg))
<1> DEFINE p == PagePatch(pg)
           m == Merge(st, p)
<1>1. DOMAIN p = Keys \cup {"page"} /\ p.page = pg /\ \A k \in Keys : p[k] = None
  BY KeysAre DEF PagePatch, Nothing, @@
<1>2. /\ DOMAIN m = Fields /\ m.page = pg /\ m.present = st.present /\ m.notFound = None
      /\ \A k \in Keys : m[k] = None
  BY <1>1, MergeAt, KeysAre DEF Proper, Fields
<1>3. Resolved(m) /\ Kept(m) /\ Placed(m)
  BY <1>2, KeysAre DEF Resolved, Kept, Placed
<1> QED  BY <1>1, <1>2, <1>3, FitsWhen, KeysAre DEF Fields, Proper

LEMMA JumpsFit ==
  ASSUME NEW st, Proper(st)
  PROVE  /\ \A p \in SelectService : Fits(st, p)
         /\ \A p \in OpenResource : Fits(st, p)
         /\ \A p \in OpenOn("flows", "flow", Flows) : Fits(st, p)
         /\ \A p \in OpenOn("areas", "area", Areas) : Fits(st, p)
<1>1. \A n \in Services : SelectServicePatch(n) = ("s" :> n) @@ PagePatch(ServicePage(n))
  BY DEF SelectServicePatch, :>
<1>2. \A n : ServicePage(n) \in Pages
  BY DEF ServicePage, Pages
<1> QED  BY <1>1, <1>2, JumpFits, KeysAre DEF SelectService, OpenResource, OpenOn, Pages

(* A click in a diagram of the architecture.                                *)
LEMMA RefsFit ==
  ASSUME NEW st, Proper(st), Architecture(st)
  PROVE  /\ \A p \in ServiceRefs(Services) : Fits(st, p)
         /\ \A p \in AreaRefs : Fits(st, p)
         /\ \A p \in ConnectionRefs : Fits(st, p)
         /\ \A a \in Areas : Fits(st, [area |-> a])
<1>1. st.page \in Pages /\ st.present \in BOOLEAN /\ st.page \in {"microservices", "monolith"}
  BY DEF Architecture, Proper
<1>2. Resolved(st) /\ Kept(st) /\ Placed(st)
  BY ProperIs
<1>3. ASSUME NEW n \in Services,
             NEW p, p = [drawer |-> n, ep |-> None, edge |-> None]
      PROVE  Fits(st, p)
  <2>1. Stays(st, p, Merge(st, p))
    BY <1>1, <1>3, StayLeaves, KeysAre
  <2>2. Resolved(Merge(st, p)) /\ Kept(Merge(st, p)) /\ Placed(Merge(st, p))
    BY <1>1, <1>2, <1>3, <2>1, KeysAre
    DEF Stays, Resolved, Kept, Placed, Architecture
  <2> QED  BY <1>1, <1>3, <2>1, <2>2, FitsWhen, KeysAre DEF Stays
<1>4. ASSUME NEW a \in Areas,
             NEW p, p = [area |-> a, drawer |-> None, ep |-> None, edge |-> None]
      PROVE  Fits(st, p)
  <2>1. Stays(st, p, Merge(st, p))
    BY <1>1, <1>4, StayLeaves, KeysAre
  <2>2. Resolved(Merge(st, p)) /\ Kept(Merge(st, p)) /\ Placed(Merge(st, p))
    BY <1>1, <1>2, <1>4, <2>1, KeysAre
    DEF Stays, Resolved, Kept, Placed, Architecture
  <2> QED  BY <1>1, <1>4, <2>1, <2>2, FitsWhen, KeysAre DEF Stays
<1>5. ASSUME NEW cs \in Edges,
             NEW p, p = [edge |-> cs, drawer |-> None, ep |-> None]
      PROVE  Fits(st, p)
  <2>1. Stays(st, p, Merge(st, p))
    BY <1>1, <1>5, StayLeaves, KeysAre
  <2>2. Resolved(Merge(st, p)) /\ Kept(Merge(st, p)) /\ Placed(Merge(st, p))
    BY <1>1, <1>2, <1>5, <2>1, KeysAre
    DEF Stays, Resolved, Kept, Placed, Architecture
  <2> QED  BY <1>1, <1>5, <2>1, <2>2, FitsWhen, KeysAre DEF Stays
<1>6. ASSUME NEW a \in Areas, NEW p, p = [area |-> a] PROVE Fits(st, p)
  <2>1. Stays(st, p, Merge(st, p))
    BY <1>1, <1>6, StayLeaves, KeysAre
  <2>2. Resolved(Merge(st, p)) /\ Kept(Merge(st, p)) /\ Placed(Merge(st, p))
    BY <1>1, <1>2, <1>6, <2>1, KeysAre
    DEF Stays, Resolved, Kept, Placed, Architecture
  <2> QED  BY <1>1, <1>6, <2>1, <2>2, FitsWhen, KeysAre DEF Stays
<1> QED  BY <1>1, <1>2, <1>3, <1>4, <1>5, <1>6 DEF ServiceRefs, AreaRefs, ConnectionRefs

(* The links that name a page and what they open on it.                     *)
LEMMA TurnsFit ==
  ASSUME NEW st, Proper(st)
  PROVE  /\ st.page # "flows" => \A p \in OpenFlow : Fits(st, p)
         /\ st.page # "impact" =>
              \A id \in Services \cup Resources : Fits(st, [page |-> "impact", blast |-> id])
         /\ st.page = "resources" => \A fl \in Files :
              Fits(st, [page |-> "flows", resource |-> None, file |-> fl])
         /\ st.page = "areas" => Fits(st, [page |-> "microservices", s |-> None])
         /\ st.page = "ownership" => \A a \in Areas :
              Fits(st, [page |-> "areas", area |-> a, term |-> None])
         /\ st.page = "flows" => \A r \in Endpoints : ServiceOfEndpoint[r] = MONOLITH =>
              Fits(st, [page |-> "monolith", file |-> None, drawer |-> MONOLITH, ep |-> r])
<1>1. st.page \in Pages /\ st.present \in BOOLEAN
  BY DEF Architecture, Proper
<1>2. Resolved(st) /\ Kept(st) /\ Placed(st)
  BY ProperIs
<1>3. ASSUME NEW f \in Flows, st.page # "flows",
             NEW p, p = [page |-> "flows", flow |-> f]
      PROVE  Fits(st, p)
  <2>1. Turns(st, p, Merge(st, p))
    BY <1>1, <1>3, TurnLeaves, KeysAre
  <2>2. Resolved(Merge(st, p)) /\ Kept(Merge(st, p)) /\ Placed(Merge(st, p))
    BY <1>1, <1>2, <1>3, <2>1, KeysAre, PageKeysAre
    DEF Turns, Resolved, Kept, Placed, Architecture
  <2> QED  BY <1>1, <1>3, <2>1, <2>2, FitsWhen, KeysAre, PageKeysAre DEF Turns, Pages
<1>4. ASSUME NEW id \in Services \cup Resources, st.page # "impact",
             NEW p, p = [page |-> "impact", blast |-> id]
      PROVE  Fits(st, p)
  <2>1. Turns(st, p, Merge(st, p))
    BY <1>1, <1>4, TurnLeaves, KeysAre
  <2>2. Resolved(Merge(st, p)) /\ Kept(Merge(st, p)) /\ Placed(Merge(st, p))
    BY <1>1, <1>2, <1>4, <2>1, KeysAre, PageKeysAre
    DEF Turns, Resolved, Kept, Placed, Architecture
  <2> QED  BY <1>1, <1>4, <2>1, <2>2, FitsWhen, KeysAre, PageKeysAre DEF Turns, Pages
<1>5. ASSUME NEW fl \in Files, st.page = "resources",
             NEW p, p = [page |-> "flows", resource |-> None, file |-> fl]
      PROVE  Fits(st, p)
  <2>1. Turns(st, p, Merge(st, p))
    BY <1>1, <1>5, TurnLeaves, KeysAre
  <2>2. Resolved(Merge(st, p)) /\ Kept(Merge(st, p)) /\ Placed(Merge(st, p))
    BY <1>1, <1>2, <1>5, <2>1, KeysAre, PageKeysAre
    DEF Turns, Resolved, Kept, Placed, Architecture
  <2> QED  BY <1>1, <1>5, <2>1, <2>2, FitsWhen, KeysAre, PageKeysAre DEF Turns, Pages
<1>6. ASSUME st.page = "areas", NEW p, p = [page |-> "microservices", s |-> None] PROVE Fits(st, p)
  <2>1. Turns(st, p, Merge(st, p))
    BY <1>1, <1>6, TurnLeaves, KeysAre
  <2>2. Resolved(Merge(st, p)) /\ Kept(Merge(st, p)) /\ Placed(Merge(st, p))
    BY <1>1, <1>2, <1>6, <2>1, KeysAre, PageKeysAre
    DEF Turns, Resolved, Kept, Placed, Architecture
  <2> QED  BY <1>1, <1>6, <2>1, <2>2, FitsWhen, KeysAre, PageKeysAre DEF Turns, Pages
<1>7. ASSUME NEW a \in Areas, st.page = "ownership",
             NEW p, p = [page |-> "areas", area |-> a, term |-> None]
      PROVE  Fits(st, p)
  <2>1. Turns(st, p, Merge(st, p))
    BY <1>1, <1>7, TurnLeaves, KeysAre
  <2>2. Resolved(Merge(st, p)) /\ Kept(Merge(st, p)) /\ Placed(Merge(st, p))
    BY <1>1, <1>2, <1>7, <2>1, KeysAre, PageKeysAre
    DEF Turns, Resolved, Kept, Placed, Architecture
  <2> QED  BY <1>1, <1>7, <2>1, <2>2, FitsWhen, KeysAre, PageKeysAre DEF Turns, Pages
<1>8. ASSUME NEW r \in Endpoints, st.page = "flows", ServiceOfEndpoint[r] = MONOLITH,
             NEW p, p = [page |-> "monolith", file |-> None, drawer |-> MONOLITH, ep |-> r]
      PROVE  Fits(st, p)
  <2>1. Turns(st, p, Merge(st, p))
    BY <1>1, <1>8, TurnLeaves, KeysAre
  <2>2. Resolved(Merge(st, p)) /\ Kept(Merge(st, p)) /\ Placed(Merge(st, p))
    BY <1>1, <1>2, <1>8, <2>1, KeysAre, PageKeysAre, MonolithAssumption
    DEF Turns, Resolved, Kept, Placed, Architecture
  <2> QED  BY <1>1, <1>8, <2>1, <2>2, FitsWhen, KeysAre, PageKeysAre DEF Turns, Pages
<1> QED  BY <1>1, <1>2, <1>3, <1>4, <1>5, <1>6, <1>7, <1>8 DEF OpenFlow

(* What the overview of the monolith, a service and an area offer.          *)
LEMMA MonolithFits ==
  ASSUME NEW st, Proper(st), Architecture(st)
  PROVE  /\ st.page = "monolith" =>
              Fits(st, [s |-> None, drawer |-> None, ep |-> None, edge |-> None])
         /\ st.page = "monolith" => Fits(st, [s |-> MONOLITH, area |-> None])
         /\ Fits(st, [edge |-> None]) /\ Fits(st, [area |-> None])
         /\ st.edge # None => \A c \in st.edge : Fits(st, [edge |-> {c}])
<1>1. st.page \in Pages /\ st.present \in BOOLEAN /\ st.page \in {"microservices", "monolith"}
  BY DEF Architecture, Proper
<1>2. Resolved(st) /\ Kept(st) /\ Placed(st)
  BY ProperIs
<1>3. ASSUME NEW p, p = [s |-> None, drawer |-> None, ep |-> None, edge |-> None] PROVE Fits(st, p)
  <2>1. Stays(st, p, Merge(st, p))
    BY <1>1, <1>3, StayLeaves, KeysAre
  <2>2. Resolved(Merge(st, p)) /\ Kept(Merge(st, p)) /\ Placed(Merge(st, p))
    BY <1>1, <1>2, <1>3, <2>1, KeysAre
    DEF Stays, Resolved, Kept, Placed, Architecture
  <2> QED  BY <1>1, <1>3, <2>1, <2>2, FitsWhen, KeysAre DEF Stays
<1>4. ASSUME st.page = "monolith", NEW p, p = [s |-> MONOLITH, area |-> None] PROVE Fits(st, p)
  <2>1. Stays(st, p, Merge(st, p))
    BY <1>1, <1>4, StayLeaves, KeysAre
  <2>2. Resolved(Merge(st, p)) /\ Kept(Merge(st, p)) /\ Placed(Merge(st, p))
    BY <1>1, <1>2, <1>4, <2>1, KeysAre, MonolithAssumption
    DEF Stays, Resolved, Kept, Placed, Architecture, ServicePage
  <2> QED  BY <1>1, <1>4, <2>1, <2>2, FitsWhen, KeysAre DEF Stays
<1>5. ASSUME NEW p, p = [edge |-> None] PROVE Fits(st, p)
  <2>1. Stays(st, p, Merge(st, p))
    BY <1>1, <1>5, StayLeaves, KeysAre
  <2>2. Resolved(Merge(st, p)) /\ Kept(Merge(st, p)) /\ Placed(Merge(st, p))
    BY <1>1, <1>2, <1>5, <2>1, KeysAre
    DEF Stays, Resolved, Kept, Placed, Architecture
  <2> QED  BY <1>1, <1>5, <2>1, <2>2, FitsWhen, KeysAre DEF Stays
<1>6. ASSUME NEW p, p = [area |-> None] PROVE Fits(st, p)
  <2>1. Stays(st, p, Merge(st, p))
    BY <1>1, <1>6, StayLeaves, KeysAre
  <2>2. Resolved(Merge(st, p)) /\ Kept(Merge(st, p)) /\ Placed(Merge(st, p))
    BY <1>1, <1>2, <1>6, <2>1, KeysAre
    DEF Stays, Resolved, Kept, Placed, Architecture
  <2> QED  BY <1>1, <1>6, <2>1, <2>2, FitsWhen, KeysAre DEF Stays
<1>7. ASSUME st.edge # None, NEW c \in st.edge, NEW p, p = [edge |-> {c}] PROVE Fits(st, p)
  <2>1. Stays(st, p, Merge(st, p))
    BY <1>1, <1>7, StayLeaves, KeysAre
  <2>2. Resolved(Merge(st, p)) /\ Kept(Merge(st, p)) /\ Placed(Merge(st, p))
    BY <1>1, <1>2, <1>7, <2>1, KeysAre
    DEF Stays, Resolved, Kept, Placed, Architecture, Edges
  <2> QED  BY <1>1, <1>7, <2>1, <2>2, FitsWhen, KeysAre DEF Stays
<1> QED  BY <1>1, <1>2, <1>3, <1>4, <1>5, <1>6, <1>7

(* The panel of endpoints closes, on the flows page too.                    *)
LEMMA DrawerFits ==
  ASSUME NEW st, Proper(st)
  PROVE  st.page \in {"microservices", "monolith", "flows"} =>
           Fits(st, [drawer |-> None, ep |-> None])
<1>1. st.page \in Pages /\ st.present \in BOOLEAN
  BY DEF Architecture, Proper
<1>2. Resolved(st) /\ Kept(st) /\ Placed(st)
  BY ProperIs
<1>3. ASSUME NEW p, p = [drawer |-> None, ep |-> None] PROVE Fits(st, p)
  <2>1. Stays(st, p, Merge(st, p))
    BY <1>1, <1>3, StayLeaves, KeysAre
  <2>2. Resolved(Merge(st, p)) /\ Kept(Merge(st, p)) /\ Placed(Merge(st, p))
    BY <1>1, <1>2, <1>3, <2>1, KeysAre
    DEF Stays, Resolved, Kept, Placed, Architecture
  <2> QED  BY <1>1, <1>3, <2>1, <2>2, FitsWhen, KeysAre DEF Stays
<1> QED  BY <1>1, <1>2, <1>3

(* The flows page.                                                          *)
LEMMA FlowsFit ==
  ASSUME NEW st, Proper(st), st.page = "flows"
  PROVE  /\ \A u \in Units : FlowOfUnit[u] = st.flow => Fits(st, [unit |-> u])
         /\ Fits(st, [unit |-> None]) /\ Fits(st, [flow |-> None, unit |-> None])
         /\ \A n \in Services : Fits(st, [drawer |-> n, ep |-> None, edge |-> None])
         /\ \A f \in Flows : Fits(st, [flow |-> f, unit |-> None]) \/ st.flow = None
         /\ \A f \in Flows : st.flow = None /\ st.flag # None =>
              Fits(st, [flow |-> f, flag |-> None])
         /\ \A f \in Flows : st.flow = None /\ st.flag = None /\ st.file = None =>
              Fits(st, [flow |-> f])
         /\ \A u \in Units : st.flow = None /\ st.flag = None
              => Fits(st, [flow |-> FlowOfUnit[u], file |-> None, unit |-> u])
<1>1. st.page \in Pages /\ st.present \in BOOLEAN
  BY DEF Architecture, Proper
<1>2. Resolved(st) /\ Kept(st) /\ Placed(st)
  BY ProperIs
<1>3. ASSUME NEW u \in Units, FlowOfUnit[u] = st.flow, NEW p, p = [unit |-> u] PROVE Fits(st, p)
  <2>1. Stays(st, p, Merge(st, p))
    BY <1>1, <1>3, StayLeaves, KeysAre
  <2>2. Resolved(Merge(st, p)) /\ Kept(Merge(st, p)) /\ Placed(Merge(st, p))
    BY <1>1, <1>2, <1>3, <2>1, KeysAre, MapAssumption
    DEF Stays, Resolved, Kept, Placed, Architecture, Units
  <2> QED  BY <1>1, <1>3, <2>1, <2>2, FitsWhen, KeysAre DEF Stays
<1>4. ASSUME NEW p, p = [unit |-> None] PROVE Fits(st, p)
  <2>1. Stays(st, p, Merge(st, p))
    BY <1>1, <1>4, StayLeaves, KeysAre
  <2>2. Resolved(Merge(st, p)) /\ Kept(Merge(st, p)) /\ Placed(Merge(st, p))
    BY <1>1, <1>2, <1>4, <2>1, KeysAre
    DEF Stays, Resolved, Kept, Placed, Architecture
  <2> QED  BY <1>1, <1>4, <2>1, <2>2, FitsWhen, KeysAre DEF Stays
<1>5. ASSUME NEW p, p = [flow |-> None, unit |-> None] PROVE Fits(st, p)
  <2>1. Stays(st, p, Merge(st, p))
    BY <1>1, <1>5, StayLeaves, KeysAre
  <2>2. Resolved(Merge(st, p)) /\ Kept(Merge(st, p)) /\ Placed(Merge(st, p))
    BY <1>1, <1>2, <1>5, <2>1, KeysAre
    DEF Stays, Resolved, Kept, Placed, Architecture
  <2> QED  BY <1>1, <1>5, <2>1, <2>2, FitsWhen, KeysAre DEF Stays
<1>6. ASSUME NEW n \in Services,
             NEW p, p = [drawer |-> n, ep |-> None, edge |-> None]
      PROVE  Fits(st, p)
  <2>1. Stays(st, p, Merge(st, p))
    BY <1>1, <1>6, StayLeaves, KeysAre
  <2>2. Resolved(Merge(st, p)) /\ Kept(Merge(st, p)) /\ Placed(Merge(st, p))
    BY <1>1, <1>2, <1>6, <2>1, KeysAre
    DEF Stays, Resolved, Kept, Placed, Architecture
  <2> QED  BY <1>1, <1>6, <2>1, <2>2, FitsWhen, KeysAre DEF Stays
<1>7. ASSUME NEW f \in Flows, st.flow # None,
             NEW p, p = [flow |-> f, unit |-> None]
      PROVE  Fits(st, p)
  <2>1. Stays(st, p, Merge(st, p))
    BY <1>1, <1>7, StayLeaves, KeysAre
  <2>2. Resolved(Merge(st, p)) /\ Kept(Merge(st, p)) /\ Placed(Merge(st, p))
    BY <1>1, <1>2, <1>7, <2>1, KeysAre
    DEF Stays, Resolved, Kept, Placed, Architecture
  <2> QED  BY <1>1, <1>7, <2>1, <2>2, FitsWhen, KeysAre DEF Stays
<1>8. ASSUME NEW f \in Flows, st.flow = None, st.flag # None,
             NEW p, p = [flow |-> f, flag |-> None]
      PROVE  Fits(st, p)
  <2>1. Stays(st, p, Merge(st, p))
    BY <1>1, <1>8, StayLeaves, KeysAre
  <2>2. Resolved(Merge(st, p)) /\ Kept(Merge(st, p)) /\ Placed(Merge(st, p))
    BY <1>1, <1>2, <1>8, <2>1, KeysAre, MapAssumption
    DEF Stays, Resolved, Kept, Placed, Architecture, Units
  <2> QED  BY <1>1, <1>8, <2>1, <2>2, FitsWhen, KeysAre DEF Stays
<1>9. ASSUME NEW f \in Flows, st.flow = None, st.flag = None, st.file = None,
             NEW p, p = [flow |-> f]
      PROVE  Fits(st, p)
  <2>1. Stays(st, p, Merge(st, p))
    BY <1>1, <1>9, StayLeaves, KeysAre
  <2>2. Resolved(Merge(st, p)) /\ Kept(Merge(st, p)) /\ Placed(Merge(st, p))
    BY <1>1, <1>2, <1>9, <2>1, KeysAre, MapAssumption
    DEF Stays, Resolved, Kept, Placed, Architecture, Units
  <2> QED  BY <1>1, <1>9, <2>1, <2>2, FitsWhen, KeysAre DEF Stays
<1>10. ASSUME NEW u \in Units, st.flow = None, st.flag = None,
              NEW p, p = [flow |-> FlowOfUnit[u], file |-> None, unit |-> u]
       PROVE  Fits(st, p)
  <2>1. Stays(st, p, Merge(st, p))
    BY <1>1, <1>10, StayLeaves, KeysAre
  <2>2. Resolved(Merge(st, p)) /\ Kept(Merge(st, p)) /\ Placed(Merge(st, p))
    BY <1>1, <1>2, <1>10, <2>1, KeysAre, MapAssumption
    DEF Stays, Resolved, Kept, Placed, Architecture, Units
  <2> QED  BY <1>1, <1>10, <2>1, <2>2, FitsWhen, KeysAre DEF Stays
<1> QED  BY <1>1, <1>2, <1>3, <1>4, <1>5, <1>6, <1>7, <1>8, <1>9, <1>10

(* The pages of areas, of impact and of teams.                              *)
LEMMA IndexesFit ==
  ASSUME NEW st, Proper(st)
  PROVE  /\ st.page = "areas" => \A a \in Areas \cup {None} : Fits(st, [area |-> a, term |-> None])
         /\ st.page = "impact" => \A id \in Services \cup Resources : Fits(st, [blast |-> id])
         /\ st.page = "ownership" => \A t \in Teams \cup {None} : Fits(st, [team |-> t])
<1>1. st.page \in Pages /\ st.present \in BOOLEAN
  BY DEF Architecture, Proper
<1>2. Resolved(st) /\ Kept(st) /\ Placed(st)
  BY ProperIs
<1>3. ASSUME NEW a \in Areas \cup {None}, st.page = "areas",
             NEW p, p = [area |-> a, term |-> None]
      PROVE  Fits(st, p)
  <2>1. Stays(st, p, Merge(st, p))
    BY <1>1, <1>3, StayLeaves, KeysAre
  <2>2. Resolved(Merge(st, p)) /\ Kept(Merge(st, p)) /\ Placed(Merge(st, p))
    BY <1>1, <1>2, <1>3, <2>1, KeysAre
    DEF Stays, Resolved, Kept, Placed, Architecture
  <2> QED  BY <1>1, <1>3, <2>1, <2>2, FitsWhen, KeysAre DEF Stays
<1>4. ASSUME NEW id \in Services \cup Resources, st.page = "impact",
             NEW p, p = [blast |-> id]
      PROVE  Fits(st, p)
  <2>1. Stays(st, p, Merge(st, p))
    BY <1>1, <1>4, StayLeaves, KeysAre
  <2>2. Resolved(Merge(st, p)) /\ Kept(Merge(st, p)) /\ Placed(Merge(st, p))
    BY <1>1, <1>2, <1>4, <2>1, KeysAre
    DEF Stays, Resolved, Kept, Placed, Architecture
  <2> QED  BY <1>1, <1>4, <2>1, <2>2, FitsWhen, KeysAre DEF Stays
<1>5. ASSUME NEW t \in Teams \cup {None}, st.page = "ownership",
             NEW p, p = [team |-> t]
      PROVE  Fits(st, p)
  <2>1. Stays(st, p, Merge(st, p))
    BY <1>1, <1>5, StayLeaves, KeysAre
  <2>2. Resolved(Merge(st, p)) /\ Kept(Merge(st, p)) /\ Placed(Merge(st, p))
    BY <1>1, <1>2, <1>5, <2>1, KeysAre
    DEF Stays, Resolved, Kept, Placed, Architecture
  <2> QED  BY <1>1, <1>5, <2>1, <2>2, FitsWhen, KeysAre DEF Stays
<1> QED  BY <1>1, <1>2, <1>3, <1>4, <1>5

-----------------------------------------------------------------------------
(* What each screen offers fits.                                            *)

LEMMA MicroservicesOffersFit ==
  ASSUME NEW st, Proper(st), Architecture(st)
  PROVE  \A p \in MicroservicesOffers(st) : Fits(st, p)
<1>1. /\ \A p \in SelectService \cup OpenResource : Fits(st, p)
      /\ \A p \in ServiceRefs(Services) \cup AreaRefs \cup ConnectionRefs : Fits(st, p)
      /\ \A a \in Areas : Fits(st, [area |-> a])
      /\ \A p \in OpenFlow : Fits(st, p)
  BY JumpsFit, RefsFit, TurnsFit DEF Architecture
<1>2. st.s # None => Fits(st, [page |-> "impact", blast |-> st.s])
  BY TurnsFit, ProperIs DEF Architecture, Resolved
<1>3. \A refs : PanelOnly(st, refs) \subseteq refs
  BY DEF PanelOnly
<1> QED  BY <1>1, <1>2, <1>3 DEF MicroservicesOffers

LEMMA MonolithOffersFit ==
  ASSUME NEW st, Proper(st), st.page = "monolith"
  PROVE  \A p \in MonolithOffers(st) : Fits(st, p)
<1>1. Architecture(st)
  BY DEF Architecture
<1>2. /\ \A p \in MicroservicesOffers(st) \cup AreaRefs : Fits(st, p)
      /\ \A a \in Areas : Fits(st, [area |-> a])
  BY <1>1, MicroservicesOffersFit, RefsFit
<1> QED  BY <1>1, <1>2, MonolithFits DEF MonolithOffers

LEMMA FlowsOffersFit ==
  ASSUME NEW st, Proper(st), st.page = "flows"
  PROVE  /\ \A p \in FlowOffers(st) : Fits(st, p)
         /\ st.flow = None /\ st.flag = None => \A p \in FileOffers(st) : Fits(st, p)
<1>1. \A refs : PanelOnly(st, refs) \subseteq refs
  BY DEF PanelOnly
<1>2. \A p \in UnitRefs(st.flow) \cup ServiceRefs(FlowNodes) : Fits(st, p)
  BY FlowsFit, MapAssumption DEF UnitRefs, ServiceRefs
<1>3. ASSUME st.flow = None, st.flag = None, NEW p \in FileOffers(st) PROVE Fits(st, p)
  BY <1>3, FlowsFit, TurnsFit, JumpsFit DEF FileOffers
<1> QED  BY <1>1, <1>2, <1>3, JumpsFit DEF FlowOffers

LEMMA MainOffersFit ==
  ASSUME NEW st, Proper(st), NEW p \in MainOffers(st) PROVE Fits(st, p)
<1>0. st.page \in Pages
  BY DEF Proper
<1>1. CASE st.page = "home"
  BY <1>1, PagePatchFits DEF MainOffers, Pages
<1>2. CASE st.page = "areas"
  BY <1>2, IndexesFit, TurnsFit, JumpsFit DEF MainOffers
<1>3. CASE st.page \in {"microservices", "monolith"}
  BY <1>3, MicroservicesOffersFit, MonolithOffersFit DEF MainOffers, Architecture
<1>4. CASE st.page = "flows"
  BY <1>4, FlowsOffersFit, FlowsFit DEF MainOffers
<1>5. CASE st.page = "resources"
  <2>1. st.resource # None => st.resource \in Services \cup Resources
    BY ProperIs DEF Resolved
  <2> QED  BY <1>5, <2>1, TurnsFit, JumpsFit DEF MainOffers
<1>6. CASE st.page = "impact"
  BY <1>6, IndexesFit, TurnsFit, JumpsFit DEF MainOffers
<1>7. CASE st.page = "ownership"
  BY <1>7, IndexesFit, TurnsFit, JumpsFit DEF MainOffers
<1> QED  BY <1>0, <1>1, <1>2, <1>3, <1>4, <1>5, <1>6, <1>7 DEF Pages

LEMMA PanelOffersFit ==
  ASSUME NEW st, Proper(st), NEW p \in PanelOffers(st) PROVE Fits(st, p)
<1>0. Resolved(st) /\ Kept(st)
  BY ProperIs
<1>1. CASE Panel(st)[1] = "unit"
  <2>1. st.page = "flows" /\ st.flow # None
    BY <1>1 DEF Panel
  <2> QED  BY <1>1, <2>1, FlowsFit, JumpsFit DEF PanelOffers
<1>2. CASE Panel(st)[1] = "connections"
  <2>1. Architecture(st) /\ st.edge # None
    BY <1>2 DEF Panel
  <2> QED  BY <1>2, <2>1, MonolithFits, RefsFit DEF PanelOffers
<1>3. CASE Panel(st)[1] = "endpoints"
  <2>1. st.page \in {"microservices", "monolith", "flows"} /\ st.drawer \in Services
    BY <1>0, <1>3 DEF Panel, Architecture, Resolved
  <2> QED  BY <1>3, <2>1, DrawerFits, JumpsFit DEF PanelOffers, SelectService
<1>4. CASE Panel(st)[1] = "slice"
  <2>1. Architecture(st) /\ st.area \in Areas
    BY <1>0, <1>4 DEF Panel, Resolved
  <2>2. OpenOn("areas", "area", {st.area}) \subseteq OpenOn("areas", "area", Areas)
    BY <2>1 DEF OpenOn
  <2> QED  BY <1>4, <2>1, <2>2, MonolithFits, JumpsFit DEF PanelOffers
<1>5. CASE Panel(st)[1] = "none"
  BY <1>5 DEF PanelOffers
<1> QED  BY <1>1, <1>2, <1>3, <1>4, <1>5 DEF Panel

LEMMA OffersFit == ASSUME NEW st, Proper(st), NEW p \in Offers(st) PROVE Fits(st, p)
<1>0. st.present \in BOOLEAN /\ st.page \in Pages /\ DOMAIN st = Fields
  BY DEF Proper
<1>1. ASSUME NEW b \in BOOLEAN, p = [present |-> b] \/ p = [notFound |-> None] PROVE Fits(st, p)
  <2> DEFINE m == Merge(st, p)
  <2>1. /\ DOMAIN p \subseteq {"present", "notFound"}
        /\ "present" \in DOMAIN p => p.present \in BOOLEAN
        /\ "notFound" \in DOMAIN p => p.notFound = None
    BY <1>1
  <2>2. /\ DOMAIN m = Fields /\ m.page = st.page /\ m.present \in BOOLEAN
        /\ m.notFound = None /\ \A k \in Keys : m[k] = st[k]
    BY <1>0, <2>1, MergeAt, KeysAre DEF Fields
  <2>3. Resolved(st) /\ Kept(st) /\ Placed(st)
    BY ProperIs
  <2> HIDE DEF m
  <2>4. Resolved(m) /\ Kept(m) /\ Placed(m)
    BY <2>2, <2>3, KeysAre DEF Resolved, Kept, Placed, Architecture
  <2> QED  BY <1>0, <2>1, <2>2, <2>4, FitsWhen, KeysAre DEF m, Fields
<1>2. \A pg \in Pages : Fits(st, PagePatch(pg))
  BY PagePatchFits
<1>3. (~st.present) \in BOOLEAN
  OBVIOUS
<1> QED  BY <1>1, <1>2, <1>3, MainOffersFit, PanelOffersFit, SearchFits DEF Offers, Pages
-----------------------------------------------------------------------------
(* Reading an address.                                                      *)

LEMMA ReadAt ==
  ASSUME NEW address, NEW st, st = ParseUrl(address), NEW R, R = Read(address)
  PROVE  /\ DOMAIN R = Fields /\ R.present = st.present /\ st.present \in BOOLEAN
         /\ \A k \in Keys : R[k] = IF Resolves(st, k) THEN st[k] ELSE None
         /\ R.page = IF st.page \in {"microservices", "monolith"} /\ R.s # None
                       THEN ServicePage(R.s) ELSE st.page
         /\ (\A k \in Keys : Resolves(st, k)) => R.notFound = None
<1>1. /\ DOMAIN R = Fields /\ R.present = st.present
      /\ \A k \in Keys : R[k] = IF Resolves(st, k) THEN st[k] ELSE None
  BY KeysAre DEF Read, ValidateUrlState, @@, Fields
<1>2. R.page = IF st.page \in {"microservices", "monolith"} /\ R.s # None
                 THEN ServicePage(R.s) ELSE st.page
  BY KeysAre DEF Read, ValidateUrlState, @@
<1>3. (\A k \in Keys : Resolves(st, k)) => R.notFound = None
  <2>1. \A i \in DOMAIN Reported : Reported[i] \in Keys
    BY KeysAre DEF Reported
  <2> QED  BY <2>1, KeysAre DEF Read, ValidateUrlState, @@
<1>4. st.present \in BOOLEAN
  BY KeysAre DEF ParseUrl, @@
<1> QED  BY <1>1, <1>2, <1>3, <1>4

(* Whatever the address says, what is read of it names what the map has.    *)
LEMMA ReadResolves ==
  ASSUME NEW address
  PROVE  LET R == Read(address) IN
         /\ DOMAIN R = Fields /\ R.page \in Pages /\ R.present \in BOOLEAN
         /\ Resolved(R) /\ Placed(R)
<1> DEFINE st == ParseUrl(address)
           R == Read(address)
<1>1. /\ DOMAIN R = Fields /\ R.present \in BOOLEAN
      /\ \A k \in Keys : R[k] = IF Resolves(st, k) THEN st[k] ELSE None
      /\ R.page = IF st.page \in {"microservices", "monolith"} /\ R.s # None
                    THEN ServicePage(R.s) ELSE st.page
  BY ReadAt
<1>2. st.page \in Pages
  <2>1. \A view \in DOMAIN LegacyViewPage : LegacyViewPage[view] \in Pages
    BY DEF LegacyViewPage, Pages
  <2>2. Get(address, "view") \in DOMAIN LegacyViewPage => address.view = Get(address, "view")
    BY MapAssumption DEF Get, LegacyViewPage
  <2>3. InferPage(address) \in Pages
    <3> HIDE DEF st, R
    <3> QED  BY <2>1, <2>2 DEF InferPage, Pages, ServicePage
  <2>4. Get(address, "page") \in Pages => address.page = Get(address, "page")
    BY MapAssumption DEF Get, Pages
  <2>5. st.page = IF Get(address, "page") \in Pages THEN address.page ELSE InferPage(address)
    BY KeysAre DEF ParseUrl, @@
  <2> QED  BY <2>3, <2>4, <2>5
<1> HIDE DEF st, R
<1>3. Resolved(R)
  <2>1. /\ R.s \in Services \cup {None} /\ R.drawer \in Services \cup {None}
        /\ R.area \in Areas \cup {None} /\ R.flow \in Flows \cup {None}
    BY <1>1, KeysAre DEF Resolves
  <2>2. /\ R.resource \in Resources \cup {None} /\ R.team \in Teams \cup {None}
        /\ R.flag \in Flags \cup {None} /\ R.file \in Files \cup {None}
        /\ R.edge \in Edges \cup {None} /\ R.blast \in Services \cup Resources \cup {None}
    BY <1>1, KeysAre DEF Resolves
  <2>3. R.term = None \/ (R.term \in Terms /\ AreaOfTerm[R.term] = R.area)
    BY <1>1, KeysAre, MapAssumption DEF Resolves, Terms
  <2>4. R.unit = None \/ (R.unit \in Units /\ FlowOfUnit[R.unit] = R.flow)
    BY <1>1, KeysAre, MapAssumption DEF Resolves, Units
  <2>5. R.ep = None \/ (R.ep \in Endpoints /\ ServiceOfEndpoint[R.ep] = R.drawer)
    BY <1>1, KeysAre, MapAssumption DEF Resolves, Endpoints
  <2> QED  BY <2>1, <2>2, <2>3, <2>4, <2>5 DEF Resolved
<1> QED  BY <1>1, <1>2, <1>3 DEF Placed, Architecture, ServicePage, Pages, R

LEMMA ReadIsProper ==
  ASSUME NEW address, Tidy(Read(address)) PROVE Proper(Read(address))
BY ReadResolves, ResolvedIs DEF Proper

(* What an address is written for is what is read of it.                    *)
LEMMA RoundTrip ==
  ASSUME NEW st, Proper(st), NEW R, R = Read(ToQueryString(st))
  PROVE  /\ R.page = st.page /\ R.present = st.present /\ R.notFound = None
         /\ \A k \in Keys : R[k] = IF k \in PageKeys[st.page] THEN st[k] ELSE None
         /\ Proper(R)
<1> DEFINE address == ToQueryString(st)
           parsed == ParseUrl(address)
<1>0. /\ Resolved(st) /\ Kept(st) /\ Placed(st) /\ DOMAIN st = Fields
      /\ st.page \in Pages /\ st.present \in BOOLEAN
  BY ProperIs
<1>1. PageKeys[st.page] \subseteq Keys
  BY <1>0 DEF Keys
<1>2. /\ \A k \in Keys : Get(address, k) = IF k \in PageKeys[st.page] THEN st[k] ELSE None
      /\ Get(address, "page") = IF st.page # "home" THEN st.page ELSE None
      /\ Get(address, "present") = IF st.present THEN "1" ELSE None
      /\ Get(address, "view") = None
  <2> DEFINE written == {k \in PageKeys[st.page] :
                    /\ st[k] # None
                    /\ k \in DOMAIN ParentKey => st[ParentKey[k]] # None}
  <2>1. \A k \in PageKeys[st.page] : st[k] # None => k \in written
    BY <1>0, <1>1, KeysAre, MapAssumption DEF Resolved, ParentKey, Terms, Units, Endpoints
  <2>2. /\ DOMAIN address = written \cup (IF st.page # "home" THEN {"page"} ELSE {})
                              \cup (IF st.present THEN {"present"} ELSE {})
        /\ \A k \in written : address[k] = st[k]
        /\ st.page # "home" => address["page"] = st.page
        /\ st.present => address["present"] = "1"
    <3> DEFINE fields == [k \in written |-> st[k]]
               page == IF st.page # "home" THEN [page |-> st.page] ELSE << >>
               present == IF st.present THEN [present |-> "1"] ELSE << >>
    <3>1. address = (fields @@ page) @@ present
      BY DEF ToQueryString
    <3>2. /\ DOMAIN fields = written /\ \A k \in written : fields[k] = st[k]
          /\ "page" \notin written /\ "present" \notin written
      BY <1>1, KeysAre
    <3>3. /\ DOMAIN page = IF st.page # "home" THEN {"page"} ELSE {}
          /\ st.page # "home" => page["page"] = st.page
      OBVIOUS
    <3>4. /\ DOMAIN present = IF st.present THEN {"present"} ELSE {}
          /\ st.present => present["present"] = "1"
      OBVIOUS
    <3> HIDE DEF address, written, fields, page, present
    <3>5. /\ DOMAIN (fields @@ page) = written \cup DOMAIN page
          /\ \A k \in written : (fields @@ page)[k] = st[k]
          /\ st.page # "home" => (fields @@ page)["page"] = st.page
      BY <3>2, <3>3 DEF @@
    <3>6. /\ DOMAIN address = DOMAIN (fields @@ page) \cup DOMAIN present
          /\ \A k \in DOMAIN (fields @@ page) : address[k] = (fields @@ page)[k]
          /\ \A k \in DOMAIN present \ DOMAIN (fields @@ page) : address[k] = present[k]
      BY <3>1 DEF @@
    <3> QED  BY <3>2, <3>3, <3>4, <3>5, <3>6
  <2> HIDE DEF address
  <2> QED  BY <1>1, <2>1, <2>2, KeysAre DEF Get
<1> HIDE DEF address
<1>3. /\ \A k \in Keys : parsed[k] = IF k \in PageKeys[st.page] THEN st[k] ELSE None
      /\ parsed.page = st.page /\ parsed.present = st.present
  <2>1. Get(address, "blast") # "1"
    BY <1>0, <1>2, KeysAre, MapAssumption DEF Resolved
  <2>2. st.page = "home" => InferPage(address) = "home"
    BY <1>2, KeysAre, PageKeysAre, MapAssumption DEF InferPage, LegacyViewPage
  <2>3. None \notin Pages /\ None # "1"
    BY MapAssumption DEF Pages
  <2>4. /\ \A k \in Keys : parsed[k] = Get(address, k)
        /\ parsed.page = IF Get(address, "page") \in Pages THEN address.page ELSE InferPage(address)
        /\ parsed.present = (Get(address, "present") = "1")
    BY <2>1, KeysAre DEF ParseUrl, @@
  <2> QED  BY <1>0, <1>2, <2>2, <2>3, <2>4 DEF Get
<1> HIDE DEF parsed
<1>4. \A k \in Keys : Resolves(parsed, k)
  <2>1. Resolved(parsed)
    BY <1>0, <1>3, KeysAre, PageKeysAre, MapAssumption
    DEF Resolved, Pages, Terms, Units, Endpoints
  <2> QED  BY <2>1, ResolvedIs
<1>5. /\ R.present = st.present /\ R.notFound = None
      /\ \A k \in Keys : R[k] = IF k \in PageKeys[st.page] THEN st[k] ELSE None
      /\ R.page = IF st.page \in {"microservices", "monolith"} /\ R.s # None
                    THEN ServicePage(R.s) ELSE st.page
  BY <1>3, <1>4, ReadAt DEF parsed, address
<1>6. R.page = st.page
  BY <1>0, <1>5, KeysAre, PageKeysAre DEF Placed, Architecture
<1>7. Kept(R)
  BY <1>0, <1>5, <1>6, KeysAre DEF Kept
<1> QED  BY <1>5, <1>6, <1>7, ReadResolves, ProperIs

(* What is on screen depends on the keys of the page only.                  *)
LEMMA ScreenDepends ==
  ASSUME NEW st, NEW t, st.page \in Pages, Alike(st, t) PROVE Screen(st) = Screen(t)
<1>1. /\ st.page = t.page /\ st.present = t.present /\ st.notFound = t.notFound
      /\ \A k \in PageKeys[st.page] : st[k] = t[k]
  BY DEF Alike
<1>2. Main(st) = Main(t)
  BY <1>1, PageKeysAre DEF Main, ServiceOrOverview, Pages
<1>3. Panel(st) = Panel(t)
  BY <1>1, PageKeysAre DEF Panel, Architecture, Pages
<1> QED  BY <1>1, <1>2, <1>3 DEF Screen

LEMMA ConcatOne ==
  ASSUME NEW S, NEW q \in Seq(S), NEW x \in S
  PROVE  /\ q \o <<x>> \in Seq(S) /\ Len(q \o <<x>>) = Len(q) + 1
         /\ \A i \in 1..Len(q) : (q \o <<x>>)[i] = q[i]
         /\ (q \o <<x>>)[Len(q) + 1] = x
BY ConcatProperties

(* A crumb closes something: at most one of the keys after the first is set. *)
LEMMA CrumbsClose ==
  ASSUME NEW st, Proper(st), NEW p \in CrumbOffers(st)
  PROVE  \/ p = PagePatch(st.page) /\ \E k \in PageKeys[st.page] : st[k] # None
         \/ /\ p = [area |-> st.area] @@ PagePatch("areas")
            /\ st.page = "areas" /\ st.area # None /\ st.term # None
<1> DEFINE linked(patches) == {patches[i] : i \in 1..(Len(patches) - 1)}
           opened(k) == IF st[k] # None THEN << << >> >> ELSE << >>
           crumb == [area |-> st.area] @@ PagePatch("areas")
           root == <<PagePatch(st.page)>>
           S == {PagePatch(st.page), crumb, << >>}
<1>0. st.page \in Pages /\ Kept(st) /\ Resolved(st)
  BY ProperIs
<1>1. root \in Seq(S) /\ Len(root) = 1 /\ root[1] = PagePatch(st.page)
  OBVIOUS
<1>2. \A q \in Seq(S) : q \o << >> = q
  BY ConcatEmptySeq
<1>3. linked(root) = {}
  BY <1>1
<1>4. linked(root \o << << >> >>) = {PagePatch(st.page)}
  BY <1>1, ConcatOne
<1>5. CASE st.page = "areas"
  <2> DEFINE crumbs == root \o (IF st.area # None THEN <<crumb>> ELSE << >>) \o opened("term")
  <2>0. p \in linked(crumbs)
    BY <1>5 DEF CrumbOffers
  <2>1. st.term # None => st.area # None
    BY <1>0, MapAssumption DEF Resolved, Terms
  <2>2. root \o <<crumb>> \in Seq(S) /\ Len(root \o <<crumb>>) = 2
        /\ (root \o <<crumb>>)[1] = PagePatch(st.page) /\ (root \o <<crumb>>)[2] = crumb
    BY <1>1, ConcatOne
  <2>3. CASE st.area = None
    <3>1. crumbs = root
      BY <1>1, <1>2, <2>1, <2>3
    <3> QED  BY <1>3, <2>0, <3>1
  <2>4. CASE st.area # None /\ st.term = None
    <3>1. crumbs = root \o <<crumb>>
      BY <1>2, <2>2, <2>4
    <3>2. linked(crumbs) = {PagePatch(st.page)}
      BY <2>2, <3>1
    <3> QED  BY <1>5, <2>0, <2>4, <3>2, PageKeysAre
  <2>5. CASE st.area # None /\ st.term # None
    <3>1. crumbs = (root \o <<crumb>>) \o << << >> >>
      BY <2>5
    <3> DEFINE two == root \o <<crumb>>
    <3>2. /\ Len(two \o << << >> >>) = 3 /\ (two \o << << >> >>)[1] = PagePatch(st.page)
          /\ (two \o << << >> >>)[2] = crumb
      <4> HIDE DEF two, crumb, root
      <4>1. two \in Seq(S) /\ Len(two) = 2
        BY <2>2 DEF two
      <4> QED  BY <2>2, <4>1, ConcatOne DEF two
    <3>3. linked(crumbs) \subseteq {PagePatch(st.page), crumb}
      <4> HIDE DEF crumbs, crumb, two
      <4> QED  BY <3>1, <3>2 DEF two
    <3> QED  BY <1>5, <2>0, <2>5, <3>3, PageKeysAre
  <2> QED  BY <2>3, <2>4, <2>5
<1>6. CASE st.page = "flows"
  <2> DEFINE crumbs == root \o opened("flow") \o opened("file") \o opened("flag")
  <2>0. p \in linked(crumbs)
    BY <1>6 DEF CrumbOffers
  <2>1. CASE st.flow = None /\ st.file = None /\ st.flag = None
    <3>1. crumbs = root
      BY <1>1, <1>2, <2>1
    <3> QED  BY <1>3, <2>0, <3>1
  <2>2. CASE st.flow # None \/ st.file # None \/ st.flag # None
    <3>1. root \o << << >> >> \in Seq(S)
      BY <1>1, ConcatOne
    <3>2. crumbs = root \o << << >> >>
      BY <1>0, <1>1, <1>2, <2>2, <3>1 DEF Kept
    <3> QED  BY <1>4, <1>6, <2>0, <2>2, <3>2, PageKeysAre
  <2> QED  BY <2>1, <2>2
<1>7. CASE st.page \in {"microservices", "monolith", "resources", "impact", "ownership"}
  <2>1. PICK k \in PageKeys[st.page] : p \in linked(root \o opened(k))
    BY <1>7, PageKeysAre DEF CrumbOffers
  <2>2. st[k] # None
    BY <1>1, <1>2, <1>3, <2>1
  <2> QED  BY <1>4, <2>1, <2>2
<1>8. st.page # "home"
  BY DEF CrumbOffers
<1> QED  BY <1>0, <1>5, <1>6, <1>7, <1>8 DEF Pages

Differs(st, t) == st.page # t.page \/ \E k \in PageKeys[t.page] : st[k] # t[k]

LEMMA CrumbsFit ==
  ASSUME NEW st, Proper(st), NEW p \in CrumbOffers(st)
  PROVE  Fits(st, p) /\ Differs(st, Merge(st, p))
<1> DEFINE m == Merge(st, p)
<1>0. st.page \in Pages /\ DOMAIN st = Fields /\ Resolved(st)
  BY ProperIs
<1>1. CASE p = PagePatch(st.page) /\ \E k \in PageKeys[st.page] : st[k] # None
  <2>1. DOMAIN p = Keys \cup {"page"} /\ p.page = st.page /\ \A k \in Keys : p[k] = None
    BY <1>1, KeysAre DEF PagePatch, Nothing, @@
  <2>2. m.page = st.page /\ \A k \in Keys : m[k] = None
    BY <1>0, <2>1, MergeAt, KeysAre DEF Fields
  <2> QED  BY <1>0, <1>1, <2>2, PagePatchFits DEF Differs, Keys
<1>2. CASE /\ p = [area |-> st.area] @@ PagePatch("areas")
           /\ st.page = "areas" /\ st.area # None /\ st.term # None
  <2>1. p = ("area" :> st.area) @@ PagePatch("areas")
    BY <1>2 DEF :>
  <2>2. Fits(st, p)
    BY <1>0, <1>2, <2>1, JumpFits, KeysAre DEF Resolved, Pages
  <2>3. /\ DOMAIN p = Keys \cup {"page"} /\ p.page = st.page
        /\ \A k \in Keys : k # "area" => p[k] = None
    BY <1>2, KeysAre DEF PagePatch, Nothing, @@
  <2>4. m.page = st.page /\ m.term = None
    BY <1>0, <2>3, MergeAt, KeysAre DEF Fields
  <2> QED  BY <1>2, <2>2, <2>4, PageKeysAre DEF Differs
<1> QED  BY <1>1, <1>2, CrumbsClose

(* A patch that is a navigation changes something that the page keeps.      *)
LEMMA NavigationsDiffer ==
  ASSUME NEW st, Proper(st), NEW p, Fits(st, p), IsNavigation(st, p)
  PROVE  Differs(st, Merge(st, p))
<1> DEFINE m == Merge(st, p)
<1>1. PICK k \in NavigationKeys \cap DOMAIN p : p[k] # st[k] /\ p[k] # None
  BY DEF IsNavigation
<1>2. /\ DOMAIN p \subseteq Fields /\ DOMAIN st = Fields /\ Kept(m) /\ m.page \in Pages
      /\ m.page = "impact" => m.s \in {None, st.s}
  BY ProperIs DEF Fits
<1>3. /\ m.page = IF "page" \in DOMAIN p THEN p.page ELSE st.page
      /\ m.page = st.page => \A j \in Keys : m[j] = IF j \in DOMAIN p THEN p[j] ELSE st[j]
  BY <1>2, MergeAt
<1>4. CASE m.page = st.page
  <2>1. k \in Keys
    BY <1>1, <1>3, <1>4, KeysAre DEF NavigationKeys
  <2>2. m[k] = p[k]
    BY <1>1, <1>3, <1>4, <2>1
  <2>3. k \in PageKeys[m.page]
    BY <1>1, <1>2, <2>1, <2>2, KeysAre, PageKeysAre DEF Kept, NavigationKeys
  <2> QED  BY <1>1, <2>2, <2>3 DEF Differs
<1> QED  BY <1>4 DEF Differs

(* States that differ have addresses that differ.                           *)
LEMMA AddressTells ==
  ASSUME NEW st, NEW address, Alike(st, Read(address)), NEW m, Proper(m), Differs(st, m)
  PROVE  ToQueryString(m) # address
<1>1. SUFFICES ASSUME ToQueryString(m) = address PROVE FALSE
  OBVIOUS
<1>2. m.page \in Pages /\ PageKeys[m.page] \subseteq Keys
  BY DEF Proper, Keys
<1>3. Read(address).page = m.page /\ \A k \in PageKeys[m.page] : Read(address)[k] = m[k]
  BY <1>1, <1>2, RoundTrip
<1> QED  BY <1>3 DEF Alike, Differs

(* What is newly set is what the page shows.                                *)
LEMMA PickShows ==
  ASSUME NEW st, NEW p, Fits(st, p), NEW m, m = Merge(st, p),
         NEW k \in {"flow", "flag", "file", "resource", "team", "blast", "s"},
         m[k] \notin {None, st[k]}
  PROVE  Main(m)[2] = m[k]
<1>1. Proper(m) /\ Kept(m) /\ Placed(m) /\ (m.page = "impact" => m.s \in {None, st.s})
  BY ProperIs DEF Fits
<1>2. CASE k = "s"
  BY <1>1, <1>2 DEF Kept, Placed, Architecture, ServicePage, Main, ServiceOrOverview
<1>3. CASE k \in {"flow", "flag", "file"}
  BY <1>1, <1>3 DEF Kept, Main
<1>4. CASE k \in {"resource", "team", "blast"}
  BY <1>1, <1>4 DEF Kept, Main
<1> QED  BY <1>2, <1>3, <1>4
-----------------------------------------------------------------------------
(* The history.                                                             *)

LEMMA SeqIs == ASSUME NEW S, NEW q \in Seq(S) PROVE IsSeq(q) /\ Len(q) \in Nat
<1>1. Len(q) \in Nat /\ q \in [1..Len(q) -> S]
  BY LenProperties
<1>2. q \in [1..Len(q) -> {q[i] : i \in 1..Len(q)}]
  BY <1>1
<1> QED BY <1>1, <1>2, SeqDef DEF IsSeq

(* r is q after a push and after a replacement of an entry.                 *)
IsPushed(q, from, to, e, r) == r = Append(SubSeq(q, from, to), e)
IsReplaced(q, i, e, r) == r = [q EXCEPT ![i] = e]

LEMMA Pushing ==
  ASSUME NEW q, IsSeq(q), NEW from \in {1, 2}, NEW to \in from..Len(q), NEW e,
         NEW r, IsPushed(q, from, to, e, r)
  PROVE  /\ IsSeq(r) /\ Len(r) = to - from + 2 /\ r[Len(r)] = e
         /\ \A i \in 1..(to - from + 1) : r[i] = q[from + i - 1]
<1> DEFINE S == {q[i] : i \in 1..Len(q)} \cup {e}
           b == SubSeq(q, from, to)
<1>1. \A i \in from..to : q[i] \in S
  BY LenProperties DEF IsSeq
<1>2. /\ b \in Seq(S) /\ Len(b) = to - from + 1
      /\ \A i \in 1..(to - from + 1) : b[i] = q[from + i - 1]
  <2>1. Len(q) \in Nat
    BY LenProperties DEF IsSeq
  <2> QED  BY <1>1, <2>1, SubSeqProperties
<1> HIDE DEF b, S
<1>3. e \in S
  BY DEF S
<1>4. /\ r \in Seq(S) /\ Len(r) = Len(b) + 1 /\ r[Len(b) + 1] = e
      /\ \A i \in 1..Len(b) : r[i] = b[i]
  BY <1>2, <1>3, AppendProperties DEF b, IsPushed
<1>5. IsSeq(r)
  BY <1>4, SeqIs
<1>6. Len(q) \in Nat
  BY LenProperties DEF IsSeq
<1> QED  BY <1>2, <1>4, <1>5, <1>6

LEMMA Replacing ==
  ASSUME NEW q, IsSeq(q), NEW i \in 1..Len(q), NEW e, NEW r, IsReplaced(q, i, e, r)
  PROVE  /\ IsSeq(r) /\ Len(r) = Len(q) /\ r[i] = e
         /\ \A j \in 1..Len(q) \ {i} : r[j] = q[j]
<1> DEFINE S == {q[j] : j \in 1..Len(q)} \cup {e}
<1>1. q \in Seq(S)
  <2>1. Len(q) \in Nat /\ q \in [1..Len(q) -> {q[j] : j \in 1..Len(q)}]
    BY LenProperties DEF IsSeq
  <2> QED BY <2>1, SeqDef
<1>2. e \in S
  OBVIOUS
<1> HIDE DEF S
<1>3. r \in Seq(S) /\ Len(r) = Len(q) /\ r[i] = e /\ \A j \in 1..Len(q) \ {i} : r[j] = q[j]
  BY <1>1, <1>2, ExceptSeq DEF IsReplaced
<1> QED BY <1>3, SeqIs

(* The history after a patch was committed.                                 *)
Commits(p) ==
  /\ pos \in 1..Len(entries) /\ state' = Merge(state, p) /\ UNCHANGED asked
  /\ pos' \in 1..Len(entries') /\ Len(entries') \in 1..MaxEntries /\ Len(shown') = Len(entries')
  /\ IsSeq(entries') /\ IsSeq(shown')
  /\ \E b : entries'[pos'] = [address |-> ToQueryString(state'), inApp |-> b]
  /\ shown'[pos'] = Screen(state')
  /\ \A i \in 1..Len(entries') \ {pos'} : \E j \in 1..Len(entries) :
       entries'[i] = entries[j] /\ shown'[i] = shown[j]

LEMMA PushCommits ==
  ASSUME HistoryInv, NEW p, CommitPatch(p, TRUE)
  PROVE  /\ Commits(p) /\ pos' = Len(entries') /\ pos' > 1 /\ oldest' \in 0..1
         /\ oldest' = 0 => oldest = 0 /\ entries'[1] = entries[1]
<1> DEFINE from == IF pos = MaxEntries THEN 2 ELSE 1
           entry == [address |-> ToQueryString(state'), inApp |-> TRUE]
<1>0. /\ pos \in 1..Len(entries) /\ Len(entries) \in 1..MaxEntries /\ MaxEntries \in Nat \ {0, 1}
      /\ state' = Merge(state, p) /\ UNCHANGED asked /\ oldest \in 0..1
      /\ IsSeq(entries) /\ IsSeq(shown) /\ Len(shown) = Len(entries)
  <2>1. MaxEntries \in Nat \ {0, 1}
    BY BoundAssumption
  <2>2. Len(entries) \in Nat
    BY LenProperties DEF HistoryInv, IsSeq
  <2>3. state' = Merge(state, p) /\ UNCHANGED asked /\ pos > 0
    BY Zenon DEF CommitPatch
  <2> QED  BY <2>1, <2>2, <2>3 DEF HistoryInv
<1>1. /\ IsPushed(entries, from, pos, entry, entries')
      /\ IsPushed(shown, from, pos, Screen(state'), shown')
      /\ pos' = Len(entries')
      /\ oldest' = IF pos = MaxEntries THEN 1 ELSE oldest
  BY <1>0, Zenon DEF CommitPatch, PushState, Behind, IsPushed
<1> HIDE DEF entry
<1>2. from \in {1, 2} /\ pos \in from..Len(entries)
  BY <1>0
<1> HIDE DEF from
<1>3. /\ IsSeq(entries') /\ Len(entries') = pos - from + 2 /\ entries'[Len(entries')] = entry
      /\ \A i \in 1..(pos - from + 1) : entries'[i] = entries[from + i - 1]
  BY <1>0, <1>1, <1>2, Pushing
<1>4. /\ IsSeq(shown') /\ Len(shown') = pos - from + 2 /\ shown'[Len(shown')] = Screen(state')
      /\ \A i \in 1..(pos - from + 1) : shown'[i] = shown[from + i - 1]
  BY <1>0, <1>1, <1>2, Pushing
<1>5. ASSUME NEW i \in 1..Len(entries') \ {pos'}
      PROVE  \E j \in 1..Len(entries) : entries'[i] = entries[j] /\ shown'[i] = shown[j]
  <2>1. i \in 1..(pos - from + 1) /\ from + i - 1 \in 1..Len(entries)
    BY <1>0, <1>1, <1>2, <1>3
  <2> QED  BY <1>3, <1>4, <2>1
<1>6. /\ pos' \in 1..Len(entries') /\ pos' > 1 /\ Len(entries') \in 1..MaxEntries
      /\ Len(shown') = Len(entries')
  BY <1>0, <1>1, <1>3, <1>4 DEF from
<1>7. oldest' \in 0..1 /\ (oldest' = 0 => oldest = 0 /\ entries'[1] = entries[1])
  BY <1>0, <1>1, <1>3 DEF from
<1>8. Commits(p)
  BY <1>0, <1>1, <1>3, <1>4, <1>5, <1>6 DEF Commits, entry
<1> QED  BY <1>1, <1>6, <1>7, <1>8

LEMMA ReplaceCommits ==
  ASSUME HistoryInv, NEW p, CommitPatch(p, FALSE)
  PROVE  /\ Commits(p) /\ pos' = pos /\ oldest' = oldest
         /\ entries'[pos].inApp = entries[pos].inApp
         /\ pos # 1 => entries'[1] = entries[1]
         /\ entries'[pos].address = entries[pos].address => entries' = entries
<1> DEFINE entry == [address |-> ToQueryString(state'), inApp |-> entries[pos].inApp]
<1>0. /\ pos \in 1..Len(entries) /\ Len(entries) \in 1..MaxEntries /\ oldest \in 0..1
      /\ state' = Merge(state, p) /\ UNCHANGED asked
      /\ IsSeq(entries) /\ IsSeq(shown) /\ Len(shown) = Len(entries)
      /\ entries[pos] = [address |-> entries[pos].address, inApp |-> entries[pos].inApp]
  <2>1. Len(entries) \in Nat
    BY LenProperties DEF HistoryInv, IsSeq
  <2>2. state' = Merge(state, p) /\ UNCHANGED asked /\ pos > 0
    BY Zenon DEF CommitPatch
  <2> QED  BY <2>1, <2>2 DEF HistoryInv
<1>1. /\ IsReplaced(entries, pos, entry, entries')
      /\ IsReplaced(shown, pos, Screen(state'), shown')
      /\ pos' = pos /\ oldest' = oldest
  BY <1>0, Zenon DEF CommitPatch, ReplaceState, IsReplaced
<1>2. /\ IsSeq(entries') /\ Len(entries') = Len(entries) /\ entries'[pos] = entry
      /\ \A j \in 1..Len(entries) \ {pos} : entries'[j] = entries[j]
  BY <1>0, <1>1, Replacing
<1>3. /\ IsSeq(shown') /\ Len(shown') = Len(shown) /\ shown'[pos] = Screen(state')
      /\ \A j \in 1..Len(shown) \ {pos} : shown'[j] = shown[j]
  BY <1>0, <1>1, Replacing
<1>4. entry.address = entries[pos].address => entries' = entries
  <2>1. SUFFICES ASSUME entry.address = entries[pos].address PROVE entries' = entries
    OBVIOUS
  <2>2. entry = entries[pos]
    BY <1>0, <2>1
  <2>3. entries \in [1..Len(entries) -> {entries[i] : i \in 1..Len(entries)}]
    BY <1>0, LenProperties DEF IsSeq
  <2> QED  BY <1>0, <1>1, <2>2, <2>3 DEF IsReplaced
<1>5. Commits(p)
  BY <1>0, <1>1, <1>2, <1>3 DEF Commits
<1> QED  BY <1>0, <1>1, <1>2, <1>4, <1>5

(* The two ways a commit is made.                                           *)
LEMMA CommitIs ==
  ASSUME NEW p, NEW push, CommitPatch(p, push)
  PROVE  (push /\ CommitPatch(p, TRUE)) \/ (~push /\ CommitPatch(p, FALSE))
BY Zenon DEF CommitPatch

(* The patch a step commits, if it commits one, fits.                       *)
StepCommits(p, push) == Fits(state, p) /\ CommitPatch(p, push)

LEMMA Steps ==
  ASSUME Proper(state), Next
  PROVE  \/ \E p : StepCommits(p, TRUE) /\ Differs(state, Merge(state, p))
         \/ \E p : StepCommits(p, FALSE)
         \/ /\ Len(asked) < MaxAsked /\ UNCHANGED <<state, entries, pos, oldest, shown>>
            /\ \E m \in Moves :
                 /\ asked' = Append(asked, m)
                 /\ m.sure => pos > 0 /\ entries[pos].inApp /\ ~BackPending
         \/ Traverse \/ Reload
<1>1. ASSUME Pick
      PROVE  \/ \E p : StepCommits(p, TRUE) /\ Differs(state, Merge(state, p))
             \/ \E p : StepCommits(p, FALSE)
  <2>1. PICK p \in Offers(state) : CommitPatch(p, IsNavigation(state, p))
    BY <1>1 DEF Pick
  <2>2. Fits(state, p)
    BY OffersFit
  <2>3. CASE IsNavigation(state, p) /\ CommitPatch(p, TRUE)
    BY <2>2, <2>3, NavigationsDiffer DEF StepCommits
  <2>4. CASE CommitPatch(p, FALSE)
    BY <2>2, <2>4 DEF StepCommits
  <2> QED  BY <2>1, <2>3, <2>4, CommitIs, Zenon
<1>2. ASSUME PickCrumb
      PROVE  \E p : StepCommits(p, TRUE) /\ Differs(state, Merge(state, p))
  BY <1>2, CrumbsFit DEF PickCrumb, StepCommits
<1>3. ASSUME FlowBack
      PROVE  \/ \E p : StepCommits(p, FALSE)
             \/ /\ Len(asked) < MaxAsked /\ UNCHANGED <<state, entries, pos, oldest, shown>>
                /\ asked' = Append(asked, [move |-> -1, sure |-> ~BackPending])
                /\ pos > 0 /\ entries[pos].inApp
  BY <1>3, FlowsFit DEF FlowBack, CanGoBack, Ask, StepCommits
<1>4. ASSUME BrowserButton
      PROVE  /\ Len(asked) < MaxAsked /\ UNCHANGED <<state, entries, pos, oldest, shown>>
             /\ \E move \in {-1, 1} : asked' = Append(asked, [move |-> move, sure |-> FALSE])
  BY <1>4 DEF BrowserButton, Ask
<1>5. ASSUME NEW move \in {-1, 1}, NEW sure \in BOOLEAN, NEW m, m = [move |-> move, sure |-> sure]
      PROVE  m \in Moves /\ m.sure = sure /\ m.move = move
  BY <1>5 DEF Moves
<1>6. BackPending \in BOOLEAN
  BY DEF BackPending
<1>7. ASSUME FlowBack
      PROVE  \/ \E p : StepCommits(p, FALSE)
             \/ /\ Len(asked) < MaxAsked /\ UNCHANGED <<state, entries, pos, oldest, shown>>
                /\ \E m \in Moves : /\ asked' = Append(asked, m)
                                    /\ m.sure => pos > 0 /\ entries[pos].inApp /\ ~BackPending
  <2>1. CASE \E p : StepCommits(p, FALSE)
    BY <2>1
  <2>2. CASE /\ Len(asked) < MaxAsked /\ UNCHANGED <<state, entries, pos, oldest, shown>>
             /\ asked' = Append(asked, [move |-> -1, sure |-> ~BackPending])
             /\ pos > 0 /\ entries[pos].inApp
    BY <2>2, <1>5, <1>6
  <2> QED  BY <1>3, <1>7, <2>1, <2>2
<1>8. ASSUME BrowserButton
      PROVE  /\ Len(asked) < MaxAsked /\ UNCHANGED <<state, entries, pos, oldest, shown>>
             /\ \E m \in Moves : asked' = Append(asked, m) /\ ~m.sure
  BY <1>4, <1>5, <1>8
<1> QED  BY <1>1, <1>2, <1>7, <1>8 DEF Next

LEMMA EntryOf ==
  ASSUME NEW a, NEW b, NEW e, e = [address |-> a, inApp |-> b]
  PROVE  e.address = a /\ e = [address |-> e.address, inApp |-> e.inApp]
OBVIOUS

(* A commit keeps what the history and the states are.                      *)
LEMMA CommitKeeps ==
  ASSUME HistoryInv, StatesInv, NEW p, NEW push \in BOOLEAN, StepCommits(p, push)
  PROVE  HistoryInv' /\ StatesInv'
<1>1. Commits(p) /\ oldest' \in 0..1 /\ (oldest' = 0 => ~entries'[1].inApp)
  <2>1. CASE CommitPatch(p, TRUE)
    BY <2>1, PushCommits DEF HistoryInv
  <2>2. CASE CommitPatch(p, FALSE)
    <3>1. Commits(p) /\ oldest' = oldest /\ entries'[pos].inApp = entries[pos].inApp
          /\ (pos # 1 => entries'[1] = entries[1])
      BY <2>2, ReplaceCommits
    <3> QED  BY <3>1 DEF HistoryInv
  <2> QED  BY <2>1, <2>2 DEF StepCommits
<1>2. Fits(state, p) /\ state' = Merge(state, p) /\ UNCHANGED asked
  BY <1>1 DEF StepCommits, Commits
<1>3. PICK b : entries'[pos'] = [address |-> ToQueryString(state'), inApp |-> b]
  BY <1>1 DEF Commits
<1>4. entries'[pos'].address = ToQueryString(state')
  BY <1>3
<1>5. HistoryInv'
  <2>1. \A i \in 1..Len(entries') :
           entries'[i] = [address |-> entries'[i].address, inApp |-> entries'[i].inApp]
    <3> TAKE i \in 1..Len(entries')
    <3>1. CASE i = pos'
      BY <1>3, <3>1
    <3>2. CASE i # pos'
      <4>1. PICK j \in 1..Len(entries) : entries'[i] = entries[j]
        BY <1>1, <3>2 DEF Commits
      <4> QED  BY <4>1 DEF HistoryInv
    <3> QED  BY <3>1, <3>2
  <2>2. /\ IsSeq(entries') /\ IsSeq(shown') /\ Len(shown') = Len(entries')
        /\ Len(entries') \in 1..MaxEntries /\ pos' \in 1..Len(entries')
    BY <1>1 DEF Commits
  <2>3. asked' \in Seq(Moves) /\ Len(asked') <= MaxAsked
    BY <1>2 DEF HistoryInv
  <2>4. pos' \in oldest'..Len(entries')
    <3>1. Len(entries') \in Nat
      BY <2>2, SeqIs DEF IsSeq
    <3> QED  BY <1>1, <2>2, <3>1
  <2> QED  BY <1>1, <2>1, <2>2, <2>3, <2>4 DEF HistoryInv, IsSeq
<1>6. Proper(state') /\ state'.notFound = None
  BY <1>2 DEF Fits
<1>7. /\ Proper(Read(entries'[pos'].address))
      /\ Alike(state', Read(entries'[pos'].address))
  <2>1. state'.page \in Pages /\ PageKeys[state'.page] \subseteq Keys
    BY <1>6 DEF Proper, Keys
  <2> QED  BY <1>4, <1>6, <2>1, RoundTrip DEF Alike
<1>8. Screen(Read(entries'[pos'].address)) = shown'[pos']
  <2>1. shown'[pos'] = Screen(state') /\ state'.page \in Pages
    BY <1>1, <1>6 DEF Commits, Proper
  <2> QED  BY <1>7, <2>1, ScreenDepends
<1>9. ASSUME NEW i \in 1..Len(entries')
      PROVE  /\ Proper(Read(entries'[i].address))
             /\ Screen(Read(entries'[i].address)) = shown'[i]
  <2>1. CASE i = pos'
    BY <1>7, <1>8, <2>1
  <2>2. CASE i # pos'
    <3>1. PICK j \in 1..Len(entries) : entries'[i] = entries[j] /\ shown'[i] = shown[j]
      BY <1>1, <2>2 DEF Commits
    <3> QED  BY <3>1 DEF StatesInv
  <2> QED  BY <2>1, <2>2
<1>10. StatesInv'
  BY <1>6, <1>7, <1>9 DEF StatesInv
<1> QED  BY <1>5, <1>10

LEMMA OneIsSeq == ASSUME NEW a PROVE IsSeq(<<a>>) /\ Len(<<a>>) = 1 /\ <<a>>[1] = a
<1>1. <<a>> \in Seq({a})
  OBVIOUS
<1> QED  BY <1>1, SeqIs

LEMMA AlikeItself == ASSUME NEW st PROVE Alike(st, st)
BY DEF Alike

LEMMA UrlInit ==
  ASSUME LinksAreTidy, Init PROVE HistoryInv /\ StatesInv /\ BackInv
<1>1. PICK link \in Links : /\ entries = <<[address |-> link, inApp |-> FALSE]>>
                            /\ state = Read(link)
  BY DEF Init
<1>2. shown = <<Screen(state)>> /\ pos = 1 /\ oldest = 0 /\ asked = << >>
  BY DEF Init
<1>3. Proper(Read(link))
  BY ReadIsProper DEF LinksAreTidy
<1>4. /\ IsSeq(entries) /\ IsSeq(shown) /\ Len(entries) = 1 /\ Len(shown) = 1
      /\ entries[1] = [address |-> link, inApp |-> FALSE] /\ shown[1] = Screen(state)
  BY <1>1, <1>2, OneIsSeq
<1>5. HistoryInv
  BY <1>2, <1>4, BoundAssumption DEF HistoryInv
<1>6. StatesInv
  BY <1>1, <1>2, <1>3, <1>4, AlikeItself DEF StatesInv
<1>7. BackInv
  BY <1>2 DEF BackInv
<1> QED  BY <1>5, <1>6, <1>7

LEMMA UrlStep ==
  ASSUME HistoryInv, StatesInv, [Next]_vars PROVE HistoryInv' /\ StatesInv'
<1>1. CASE UNCHANGED vars
  BY <1>1 DEF vars, HistoryInv, StatesInv
<1>2. CASE \E p : StepCommits(p, TRUE) \/ StepCommits(p, FALSE)
  BY <1>2, CommitKeeps
<1>3. CASE /\ Len(asked) < MaxAsked /\ UNCHANGED <<state, entries, pos, oldest, shown>>
           /\ \E m \in Moves : asked' = Append(asked, m)
  <2>1. asked' \in Seq(Moves) /\ Len(asked') <= MaxAsked
    BY <1>3, AppendProperties, BoundAssumption DEF HistoryInv
  <2> QED  BY <1>3, <2>1 DEF HistoryInv, StatesInv
<1>4. CASE Traverse
  <2>1. asked \in Seq(Moves) /\ asked # << >> /\ asked' = Tail(asked)
        /\ UNCHANGED <<entries, oldest, shown>>
    BY <1>4 DEF Traverse, HistoryInv
  <2>2. asked' \in Seq(Moves) /\ Len(asked') <= MaxAsked /\ Head(asked).move \in {-1, 1}
    <3>1. asked' \in Seq(Moves) /\ Len(asked') <= MaxAsked /\ Head(asked) \in Moves
      BY <2>1, HeadTailProperties, LenProperties, BoundAssumption DEF HistoryInv
    <3> QED  BY <3>1 DEF Moves
  <2>3. CASE pos + Head(asked).move \in oldest..Len(entries)
    <3>1. /\ pos' = pos + Head(asked).move /\ pos' \in oldest..Len(entries)
          /\ state' = IF pos' = 0 THEN state ELSE Read(entries[pos'].address)
      BY <1>4, <2>3 DEF Traverse
    <3>2. HistoryInv'
      BY <2>1, <2>2, <3>1 DEF HistoryInv
    <3>3. Proper(state') /\ (pos' > 0 => Alike(state', Read(entries[pos'].address)))
      BY <3>1, AlikeItself DEF StatesInv, HistoryInv
    <3> QED  BY <2>1, <3>2, <3>3 DEF StatesInv
  <2>4. CASE UNCHANGED <<pos, state>>
    BY <2>1, <2>2, <2>4 DEF HistoryInv, StatesInv
  <2> QED  BY <1>4, <2>3, <2>4 DEF Traverse
<1>5. CASE Reload
  <2>1. /\ pos > 0 /\ state' = Read(entries[pos].address)
        /\ UNCHANGED <<entries, pos, oldest, asked, shown>>
    BY <1>5 DEF Reload
  <2>2. pos \in 1..Len(entries)
    BY <2>1 DEF HistoryInv
  <2> QED  BY <2>1, <2>2, AlikeItself DEF HistoryInv, StatesInv
<1>6. Proper(state)
  BY DEF StatesInv
<1> QED  BY <1>1, <1>2, <1>3, <1>4, <1>5, <1>6, Steps

LEMMA BackStep ==
  ASSUME HistoryInv, StatesInv, BackInv, [Next]_vars PROVE BackInv'
<1>0. /\ asked \in Seq(Moves) /\ Len(asked) \in Nat
      /\ Len(entries) \in Nat /\ oldest \in 0..1 /\ pos \in oldest..Len(entries)
      /\ \A i \in 1..Len(asked) : asked[i] \in Moves
  BY LenProperties, ElementOfSeq, BoundAssumption DEF HistoryInv, IsSeq
<1>1. CASE UNCHANGED vars
  BY <1>1 DEF vars, BackInv
<1>2. ASSUME NEW p, StepCommits(p, TRUE) PROVE BackInv'
  <2>1. pos' > 1 /\ pos' = Len(entries') /\ Len(entries') \in 1..MaxEntries /\ UNCHANGED asked
    BY <1>2, PushCommits DEF StepCommits, Commits
  <2> QED  BY <2>1 DEF BackInv
<1>3. ASSUME NEW p, StepCommits(p, FALSE) PROVE BackInv'
  <2>1. pos' = pos /\ oldest' = oldest /\ UNCHANGED asked
    BY <1>3, ReplaceCommits DEF StepCommits, Commits
  <2> QED  BY <2>1 DEF BackInv
<1>4. ASSUME NEW m \in Moves, asked' = Append(asked, m),
             UNCHANGED <<state, entries, pos, oldest, shown>>,
             m.sure => pos > 0 /\ entries[pos].inApp /\ ~BackPending
      PROVE  BackInv'
  <2> DEFINE n == Len(asked)
  <2>1. /\ Len(asked') = n + 1 /\ asked'[n + 1] = m
        /\ \A i \in 1..n : asked'[i] = asked[i]
    BY <1>0, <1>4, AppendProperties
  <2>2. m.sure => /\ pos > 1 \/ oldest = 1
                  /\ \A j \in 1..n : asked[j].move = 1
    BY <1>0, <1>4 DEF HistoryInv, BackPending, Moves
  <2>3. SUFFICES ASSUME NEW i \in 1..Len(asked'), asked'[i].sure
                 PROVE  /\ pos > 1 \/ oldest = 1
                        /\ \A j \in 1..(i - 1) : asked'[j].move = 1
    BY <1>4 DEF BackInv
  <2>4. CASE i = n + 1
    BY <1>0, <2>1, <2>2, <2>3, <2>4
  <2>5. CASE i \in 1..n
    BY <1>0, <2>1, <2>3, <2>5 DEF BackInv
  <2>6. i = n + 1 \/ i \in 1..n
    BY <1>0, <2>1
  <2> QED  BY <2>4, <2>5, <2>6
<1>5. CASE Traverse
  <2>1. /\ asked # << >> /\ asked' = Tail(asked) /\ oldest' = oldest
        /\ UNCHANGED pos \/ pos' = pos + Head(asked).move
    BY <1>5 DEF Traverse
  <2>2. /\ Len(asked) # 0 /\ Head(asked) = asked[1]
        /\ Len(asked') = Len(asked) - 1 /\ \A i \in 1..Len(asked') : asked'[i] = asked[i + 1]
    BY <1>0, <2>1, HeadTailProperties, EmptySeq
  <2>3. SUFFICES ASSUME NEW i \in 1..Len(asked'), asked'[i].sure
                 PROVE  /\ pos' > 1 \/ oldest' = 1
                        /\ \A j \in 1..(i - 1) : asked'[j].move = 1
    BY DEF BackInv
  <2>4. /\ i + 1 \in 1..Len(asked) /\ asked[i + 1].sure /\ (i + 1) - 1 = i
        /\ 1 \in 1..i /\ \A j \in 1..(i - 1) : j + 1 \in 1..i
    BY <1>0, <2>2, <2>3
  <2>5. (pos > 1 \/ oldest = 1) /\ \A j \in 1..i : asked[j].move = 1
    BY <2>4 DEF BackInv
  <2>6. Head(asked).move = 1
    BY <2>2, <2>4, <2>5
  <2>7. pos' > 1 \/ oldest' = 1
    BY <1>0, <2>1, <2>5, <2>6
  <2>8. \A j \in 1..(i - 1) : asked'[j] = asked[j + 1]
    BY <1>0, <2>2
  <2> QED  BY <2>4, <2>5, <2>7, <2>8
<1>6. CASE Reload
  BY <1>6 DEF Reload, BackInv
<1>7. Proper(state)
  BY DEF StatesInv
<1> QED  BY <1>1, <1>2, <1>3, <1>4, <1>5, <1>6, <1>7, Steps

LEMMA UrlTypes == ASSUME HistoryInv, StatesInv PROVE TypeOK
<1>1. asked \in UNION {[1..n -> Moves] : n \in 0..MaxAsked}
  <2>1. Len(asked) \in Nat /\ asked \in [1..Len(asked) -> Moves] /\ Len(asked) <= MaxAsked
    BY LenProperties DEF HistoryInv
  <2>2. Len(asked) \in 0..MaxAsked
    BY <2>1, BoundAssumption
  <2> QED  BY <2>1, <2>2
<1>2. /\ DOMAIN state = Keys \cup {"page", "present", "notFound"}
      /\ state.page \in Pages /\ state.present \in BOOLEAN
      /\ \A k \in Keys : Resolves(state, k)
  BY DEF StatesInv, Proper, Fields
<1> QED  BY <1>1, <1>2 DEF TypeOK, HistoryInv

-----------------------------------------------------------------------------
(* Every entry of the history, read again, shows what was on screen when    *)
(* the reader left it: a shared address, a reload and Back lose nothing.     *)
THEOREM EntriesShow == ASSUME LinksAreTidy PROVE Spec => []EntryShowsWhatWasLeft
<1>1. Init => HistoryInv /\ StatesInv
  BY UrlInit
<1>2. (HistoryInv /\ StatesInv) /\ [Next]_vars => (HistoryInv /\ StatesInv)'
  BY UrlStep
<1>3. HistoryInv /\ StatesInv => EntryShowsWhatWasLeft
  <2>1. ASSUME HistoryInv, StatesInv, pos > 0 PROVE Screen(state) = shown[pos]
    <3>1. pos \in 1..Len(entries)
      BY <2>1 DEF HistoryInv
    <3>2. state.page \in Pages /\ Alike(state, Read(entries[pos].address))
      BY <2>1 DEF StatesInv, Proper
    <3> QED  BY <2>1, <3>1, <3>2, ScreenDepends DEF StatesInv
  <2> QED  BY <2>1, UrlTypes DEF EntryShowsWhatWasLeft
<1> QED  BY <1>1, <1>2, <1>3, PTL DEF Spec

(* However many moves are asked of the browser before it makes the first,   *)
(* FlowPage's Back leads out of the explorer only when it was pressed while  *)
(* another move back was still to come.                                     *)
THEOREM BackStays == ASSUME LinksAreTidy PROVE Spec => BackStaysInside
<1> DEFINE BackIsIn == pos > 0 /\ pos' = 0 => ~Head(asked).sure
<1>1. Init => HistoryInv /\ StatesInv /\ BackInv
  BY UrlInit
<1>2. (HistoryInv /\ StatesInv /\ BackInv) /\ [Next]_vars => (HistoryInv /\ StatesInv /\ BackInv)'
  BY UrlStep, BackStep
<1>3. (HistoryInv /\ StatesInv /\ BackInv) /\ [Next]_vars => [BackIsIn]_vars
  <2>1. SUFFICES ASSUME HistoryInv, StatesInv, BackInv, Next, pos > 0, pos' = 0,
                        Head(asked).sure
                 PROVE  FALSE
    BY DEF vars
  <2>2. Traverse
    <3>1. ASSUME NEW p, StepCommits(p, TRUE) PROVE FALSE
      <4>1. HistoryInv /\ CommitPatch(p, TRUE)
        BY <2>1, <3>1 DEF StepCommits
      <4>2. pos' > 1
        BY <4>1, PushCommits
      <4> QED  BY <2>1, <4>2
    <3>2. ASSUME NEW p, StepCommits(p, FALSE) PROVE FALSE
      <4>1. HistoryInv /\ CommitPatch(p, FALSE)
        BY <2>1, <3>2 DEF StepCommits
      <4>2. pos' = pos
        BY <4>1, ReplaceCommits
      <4> QED  BY <2>1, <4>2
    <3>3. ~Reload /\ ~UNCHANGED <<state, entries, pos, oldest, shown>>
      BY <2>1 DEF Reload
    <3>4. Proper(state) /\ Next
      BY <2>1 DEF StatesInv
    <3> QED  BY <3>1, <3>2, <3>3, <3>4, Steps
  <2>3. asked # << >> /\ asked \in Seq(Moves) /\ pos' \in oldest..Len(entries)
    BY <2>1, <2>2 DEF Traverse, HistoryInv
  <2>4. 1 \in 1..Len(asked) /\ Head(asked) = asked[1] /\ asked[1] \in Moves
    BY <2>3, LenProperties, HeadTailProperties, EmptySeq, ElementOfSeq
  <2>5. pos > 1
    BY <2>1, <2>3, <2>4 DEF BackInv, HistoryInv
  <2>6. pos' = pos + Head(asked).move /\ Head(asked).move \in {-1, 1}
    BY <2>1, <2>2, <2>4 DEF Traverse, Moves
  <2> QED  BY <2>1, <2>3, <2>5, <2>6 DEF HistoryInv
<1> QED  BY <1>1, <1>2, <1>3, PTL DEF Spec, BackStaysInside

(* What a reader picks is what the page then shows, at an address of its     *)
(* own: no key left over from an earlier page or pick hides it.             *)
THEOREM PicksLand == ASSUME LinksAreTidy PROVE Spec => PickLandsOnItsPage
<1> DEFINE Lands == Pushed =>
             /\ entries'[pos'].address # entries[pos].address
             /\ \A k \in {"flow", "flag", "file", "resource", "team", "blast", "s"} :
                  state'[k] \notin {None, state[k]} => Main(state')[2] = state'[k]
<1>1. Init => HistoryInv /\ StatesInv
  BY UrlInit
<1>2. (HistoryInv /\ StatesInv) /\ [Next]_vars => (HistoryInv /\ StatesInv)'
  BY UrlStep
<1>3. HistoryInv /\ StatesInv /\ [Next]_vars => [Lands]_vars
  <2>1. SUFFICES ASSUME HistoryInv, StatesInv, Next, Pushed
                 PROVE  /\ entries'[pos'].address # entries[pos].address
                        /\ \A k \in {"flow", "flag", "file", "resource", "team", "blast", "s"} :
                             state'[k] \notin {None, state[k]} => Main(state')[2] = state'[k]
    OBVIOUS
  <2>2. Proper(state) /\ entries' # entries
    BY <2>1 DEF StatesInv, Pushed
  <2>3. ASSUME NEW p, StepCommits(p, TRUE), Differs(state, Merge(state, p))
        PROVE  entries'[pos'].address # entries[pos].address
    <3>1. Commits(p)
      BY <2>1, <2>3, PushCommits DEF StepCommits
    <3>2. entries'[pos'].address = ToQueryString(state') /\ state' = Merge(state, p)
          /\ pos \in 1..Len(entries)
      BY <3>1 DEF Commits
    <3>3. Proper(state') /\ Alike(state, Read(entries[pos].address))
      BY <2>1, <2>3, <3>2 DEF StepCommits, Fits, StatesInv
    <3> QED  BY <2>3, <3>2, <3>3, AddressTells
  <2>4. ASSUME NEW p, StepCommits(p, FALSE) PROVE entries'[pos'].address # entries[pos].address
    BY <2>1, <2>2, <2>4, ReplaceCommits DEF StepCommits
  <2>5. ASSUME NEW p, NEW push, StepCommits(p, push),
               NEW k \in {"flow", "flag", "file", "resource", "team", "blast", "s"},
               state'[k] \notin {None, state[k]}
        PROVE  Main(state')[2] = state'[k]
    <3>1. state' = Merge(state, p) /\ Fits(state, p)
      BY <2>5, Zenon DEF StepCommits, CommitPatch
    <3> QED  BY <2>5, <3>1, PickShows
  <2>6. \E p : \E push : StepCommits(p, push) /\ (push => Differs(state, Merge(state, p)))
                         /\ push \in BOOLEAN
    <3>1. Traverse => UNCHANGED entries
      BY DEF Traverse
    <3>2. Reload => UNCHANGED entries
      BY DEF Reload
    <3> QED  BY <2>1, <2>2, <3>1, <3>2, Steps
  <2> QED  BY <2>3, <2>4, <2>5, <2>6
<1> QED  BY <1>1, <1>2, <1>3, PTL DEF Spec, PickLandsOnItsPage
=============================================================================
