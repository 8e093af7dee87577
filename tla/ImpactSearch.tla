---------------------------- MODULE ImpactSearch ----------------------------
(***************************************************************************)
(* "If X is down": computeImpact of web/src/utils/impact.ts.  A failure goes *)
(* out from its origin hop by hop: a level holds the nodes of one hop, a     *)
(* round settles them and finds those of the next.  A node is settled once, *)
(* with the strongest effect of the level that first has it.  The page asks *)
(* again whenever another origin is picked.                                 *)
(***************************************************************************)
EXTENDS Naturals

CONSTANTS Services,    (* services of the map                               *)
          Resource,    (* a table, a queue, ...                             *)
          Connections, (* [from, to, kind] a map may have, kind sync or async *)
          Relations,   (* [service, relation] of services to the resource   *)
          MaxHops

ASSUME ImpactAssumption ==
  /\ MaxHops \in Nat
  /\ Resource \notin Services
  /\ Connections \subseteq [from : Services, to : Services, kind : {"sync", "async"}]
  /\ Relations \subseteq [service : Services, relation : {"consumes", "uses"}]

VARIABLES connections, (* of the map                                        *)
          relations,   (* of the resource                                   *)
          origin,      (* what is down                                      *)
          entries,     (* the nodes settled, [node, effect, hop]            *)
          level        (* the nodes of the next hop                         *)

impactVars == <<connections, relations, origin, entries, level>>

Effects == {"fails", "starves", "degrades"}
EffectRank == [fails |-> 3, starves |-> 2, degrades |-> 1]

Hit(node, effect) == [node |-> node, effect |-> effect]
NodesOf(set) == {e.node : e \in set}

(* spread: callers of what fails fail with it or pile up their messages, and *)
(* who waits for its messages starves.                                      *)
Callers(node) ==
  {Hit(c.from, IF c.kind = "sync" THEN "fails" ELSE "degrades") : c \in {c \in connections : c.to = node}}

Consumers(node) ==
  {Hit(c.to, "starves") : c \in {c \in connections : c.from = node /\ c.kind = "async"}}

Spread(node, effect) ==
  (IF effect = "fails" THEN Callers(node) ELSE {})
  \cup (IF effect \in {"fails", "starves"} THEN Consumers(node) ELSE {})

(* offer: no node twice, none beyond the last hop, and the strongest effect. *)
Offered(of, hits, settled, hop) ==
  {h \in hits : h.node # of /\ h.node \notin NodesOf(settled) /\ hop <= MaxHops}

Strongest(hits) == {h \in hits : \A o \in hits : o.node = h.node => EffectRank[o.effect] <= EffectRank[h.effect]}

LevelOf(of, hits, settled, hop) ==
  {[node |-> h.node, effect |-> h.effect, hop |-> hop] : h \in Strongest(Offered(of, hits, settled, hop))}

(* The first level: of a resource, who writes, reads or produces it fails.  *)
Related == {Hit(r.service, IF r.relation = "consumes" THEN "starves" ELSE "fails") : r \in relations}
FirstHits(of) == IF of = Resource THEN Related ELSE Spread(of, "fails")

HitsOf(set) == UNION {Spread(e.node, e.effect) : e \in set}

(* Mutant: a hop that was found is forgotten as soon as it is spread.       *)
SettleLevelOnly(settled, found) == found

Settle(settled, found) == settled \cup found

-----------------------------------------------------------------------------
ImpactInit ==
  /\ connections \in SUBSET Connections
  /\ relations \in SUBSET Relations
  /\ origin \in Services \cup {Resource}
  /\ entries = {}
  /\ level = LevelOf(origin, FirstHits(origin), {}, 1)

(* One turn of the loop.                                                    *)
Round(hop) ==
  /\ level # {}
  /\ \E e \in level : e.hop = hop
  /\ entries' = Settle(entries, level)
  /\ level' = LevelOf(origin, HitsOf(level), entries', hop + 1)
  /\ UNCHANGED <<connections, relations, origin>>

(* The page is asked for another origin.                                    *)
Pick(other) ==
  /\ level = {}
  /\ origin' = other
  /\ entries' = {}
  /\ level' = LevelOf(other, FirstHits(other), {}, 1)
  /\ UNCHANGED <<connections, relations>>

ImpactNext ==
  \/ \E hop \in 1..MaxHops : Round(hop)
  \/ \E other \in Services \cup {Resource} : Pick(other)

ImpactSpec == ImpactInit /\ [][ImpactNext]_impactVars

-----------------------------------------------------------------------------
ImpactTypeOK ==
  /\ connections \subseteq Connections /\ relations \subseteq Relations
  /\ origin \in Services \cup {Resource}
  /\ entries \subseteq [node : Services, effect : Effects, hop : 1..MaxHops]
  /\ level \subseteq [node : Services, effect : Effects, hop : 1..MaxHops]

Affected == entries \cup level

(* Every node of the report is there once, is not what is down, and has its  *)
(* effect from a node one hop nearer that passes it on.                     *)
EveryEffectHasACause ==
  /\ \A d, e \in Affected : d.node = e.node => d = e
  /\ \A e \in Affected :
       /\ e.node # origin
       /\ IF e.hop = 1 THEN Hit(e.node, e.effect) \in FirstHits(origin)
          ELSE \E cause \in entries :
                 cause.hop = e.hop - 1 /\ Hit(e.node, e.effect) \in Spread(cause.node, cause.effect)

(* What a settled node passes on is in the report at most one hop further    *)
(* out, and if it is at that hop, with an effect at least as strong, unless *)
(* the hops are used up: the search leaves nothing out.                     *)
NothingLeftOut ==
  \A e \in entries : e.hop < MaxHops =>
    \A h \in Spread(e.node, e.effect) :
      \/ h.node = origin
      \/ \E known \in Affected :
           /\ known.node = h.node
           /\ known.hop <= e.hop + 1
           /\ known.hop = e.hop + 1 => EffectRank[known.effect] >= EffectRank[h.effect]

(* The report of a failure is exactly what spreads from it, hop by hop, each *)
(* service by its nearest and there strongest effect (computeImpact).       *)
ImpactIsExact == EveryEffectHasACause /\ NothingLeftOut

-----------------------------------------------------------------------------
(* Who calls the origin synchronously, or calls such a caller, ...           *)
SyncCallers(nodes) == {c.from : c \in {c \in connections : c.kind = "sync" /\ c.to \in nodes}}

SyncChain == LET within[n \in 0..MaxHops] == IF n = 0 THEN {origin} ELSE within[n - 1] \cup SyncCallers(within[n - 1])
             IN within[MaxHops] \ {origin}

(* "sync callers fail" and "Hard failures (sync) filters to the sync chain"  *)
(* (docs/guide/explorer.md).                                                *)
HardFailuresAreTheSyncChain ==
  level = {} /\ origin \in Services => SyncChain \subseteq {e.node : e \in {x \in entries : x.effect = "fails"}}
=============================================================================
