--------------------------- MODULE DerivedProofs ---------------------------
(***************************************************************************)
(* What is computed from the dataset and the code.  For every map, every     *)
(* resource and every number of hops, the impact report is well-formed, every *)
(* effect in it has a cause one hop nearer, and it leaves nothing out.  For  *)
(* every dataset and every state of the code and of the check-outs, a check  *)
(* of the sources blames and passes truthfully.  For every machine, nested to *)
(* any depth, and every edit of either side, the findings of the machine      *)
(* check are the drift.  For every listener surface, the writes also changed *)
(* are those of the chains of listeners.  The last two walk step by step, as *)
(* a function of the numbers: the argument is that such a function exists,   *)
(* and stops growing after as many steps as there is something to find.     *)
(***************************************************************************)
EXTENDS ImpactSearch, SourceChecks, MachineCheck, ListenerCascade,
        WellFoundedInduction, FiniteSetTheorems, TLAPS

(* The report has its properties at every round because a level is the       *)
(* outermost one and its nodes are all of one hop.                           *)
(* The nodes of the level are of one hop, and all others are nearer.        *)
LevelIsOutermost ==
  \A d \in level : (\A e \in level : e.hop = d.hop) /\ (\A e \in entries : e.hop < d.hop)

ImpactInv == ImpactTypeOK /\ LevelIsOutermost /\ EveryEffectHasACause /\ NothingLeftOut

Nodes == [node : Services, effect : Effects, hop : 1..MaxHops]
Hits == [node : Services, effect : Effects]

-----------------------------------------------------------------------------
(* Effects are told apart by their rank.                                    *)
LEMMA RankIsAnOrder ==
  /\ \A e \in Effects : EffectRank[e] \in 1..3
  /\ \A d, e \in Effects : EffectRank[d] = EffectRank[e] => d = e
BY DEF Effects, EffectRank

(* What fails or starves, and what is related to the resource, hits services.*)
LEMMA SpreadHitsServices ==
  ASSUME connections \subseteq Connections,
         NEW node, NEW effect
  PROVE  Spread(node, effect) \subseteq Hits
BY ImpactAssumption DEF Spread, Callers, Consumers, Hit, Hits, Effects

LEMMA FirstHitsAreServices ==
  ASSUME connections \subseteq Connections, relations \subseteq Relations, NEW of
  PROVE  FirstHits(of) \subseteq Hits
<1>1. Related \subseteq Hits
  BY ImpactAssumption DEF Related, Hit, Hits, Effects
<1> QED
  BY <1>1, SpreadHitsServices DEF FirstHits

LEMMA LevelHitsAreServices ==
  ASSUME connections \subseteq Connections, NEW set
  PROVE  HitsOf(set) \subseteq Hits
BY SpreadHitsServices DEF HitsOf

(* A node that is hit has a strongest hit.                                  *)
LEMMA StrongestExists ==
  ASSUME NEW hits \in SUBSET Hits, NEW h \in hits
  PROVE  \E s \in Strongest(hits) : s.node = h.node /\ EffectRank[s.effect] >= EffectRank[h.effect]
<1> DEFINE same == {o \in hits : o.node = h.node}
<1>1. \A o \in same : o.effect \in Effects
  BY DEF Hits
<1>2. \E s \in same : \A o \in same : EffectRank[o.effect] <= EffectRank[s.effect]
  <2>1. CASE \E s \in same : s.effect = "fails"
    BY <2>1, <1>1 DEF Effects, EffectRank
  <2>2. CASE (\A s \in same : s.effect # "fails") /\ (\E s \in same : s.effect = "starves")
    BY <2>2, <1>1 DEF Effects, EffectRank
  <2>3. CASE \A s \in same : s.effect = "degrades"
    BY <2>3, <1>1 DEF Effects, EffectRank
  <2> QED
    BY <2>1, <2>2, <2>3, <1>1 DEF Effects
<1>3. PICK s \in same : \A o \in same : EffectRank[o.effect] <= EffectRank[s.effect]
  BY <1>2
<1>4. s \in Strongest(hits)
  BY <1>3 DEF Strongest
<1>5. EffectRank[s.effect] >= EffectRank[h.effect]
  BY <1>3, <1>1, RankIsAnOrder
<1> QED
  BY <1>4, <1>5

-----------------------------------------------------------------------------
(* A level found from hits on services: its nodes are new, of the hop, each  *)
(* there once and by one of the hits, and each hit is answered.             *)
LEMMA LevelIsWellFormed ==
  ASSUME NEW of, NEW hits \in SUBSET Hits, NEW settled, NEW hop \in Nat \ {0}
  PROVE  /\ LevelOf(of, hits, settled, hop) \subseteq Nodes
         /\ \A e \in LevelOf(of, hits, settled, hop) :
              /\ e.hop = hop
              /\ e.node # of
              /\ e.node \notin NodesOf(settled)
              /\ Hit(e.node, e.effect) \in hits
         /\ \A d, e \in LevelOf(of, hits, settled, hop) : d.node = e.node => d = e
<1> DEFINE offered == Offered(of, hits, settled, hop)
           found == LevelOf(of, hits, settled, hop)
<1>1. offered \subseteq hits /\ (\A h \in offered : h.node # of /\ h.node \notin NodesOf(settled) /\ hop <= MaxHops)
  BY DEF Offered
<1>2. Strongest(offered) \subseteq offered
  BY DEF Strongest
<1>3. \A e \in found : \E h \in Strongest(offered) : e = [node |-> h.node, effect |-> h.effect, hop |-> hop]
  BY DEF LevelOf
<1>4. \A h \in hits : Hit(h.node, h.effect) = h
  BY DEF Hits, Hit
<1>5. found \subseteq Nodes
  BY <1>1, <1>2, <1>3, ImpactAssumption DEF Nodes, Hits
<1>6. \A e \in found : e.hop = hop /\ e.node # of /\ e.node \notin NodesOf(settled) /\ Hit(e.node, e.effect) \in hits
  BY <1>1, <1>2, <1>3, <1>4
<1>7. ASSUME NEW d \in found, NEW e \in found, d.node = e.node
      PROVE  d = e
  <2>1. PICK g \in Strongest(offered) : d = [node |-> g.node, effect |-> g.effect, hop |-> hop]
    BY <1>3
  <2>2. PICK h \in Strongest(offered) : e = [node |-> h.node, effect |-> h.effect, hop |-> hop]
    BY <1>3
  <2>3. g.node = h.node /\ g.effect \in Effects /\ h.effect \in Effects
    BY <1>7, <2>1, <2>2, <1>1, <1>2 DEF Hits
  <2>4. EffectRank[g.effect] <= EffectRank[h.effect] /\ EffectRank[h.effect] <= EffectRank[g.effect]
    BY <2>3, <1>2 DEF Strongest
  <2>5. g.effect = h.effect
    BY <2>3, <2>4, RankIsAnOrder
  <2> QED
    BY <2>1, <2>2, <2>3, <2>5
<1> QED
  BY <1>5, <1>6, <1>7

LEMMA LevelAnswersHits ==
  ASSUME NEW of, NEW hits \in SUBSET Hits, NEW settled, NEW hop \in Nat, hop <= MaxHops,
         NEW h \in hits, h.node # of, h.node \notin NodesOf(settled)
  PROVE  \E e \in LevelOf(of, hits, settled, hop) :
           e.node = h.node /\ e.hop = hop /\ EffectRank[e.effect] >= EffectRank[h.effect]
<1> DEFINE offered == Offered(of, hits, settled, hop)
<1>1. h \in offered /\ offered \in SUBSET Hits
  BY DEF Offered
<1>2. PICK s \in Strongest(offered) : s.node = h.node /\ EffectRank[s.effect] >= EffectRank[h.effect]
  BY <1>1, StrongestExists
<1>3. [node |-> s.node, effect |-> s.effect, hop |-> hop] \in LevelOf(of, hits, settled, hop)
  BY DEF LevelOf
<1> QED
  BY <1>2, <1>3

-----------------------------------------------------------------------------
(* A search that begins, from the origin it is asked for: nothing is settled, *)
(* the level is of hop 1.                                                   *)
THEOREM ImpactInitInv == ImpactInit => ImpactInv
<1> SUFFICES ASSUME ImpactInit PROVE ImpactInv
  OBVIOUS
<1>1. FirstHits(origin) \in SUBSET Hits
  BY FirstHitsAreServices DEF ImpactInit
<1>2. /\ level \subseteq Nodes
      /\ \A e \in level : e.hop = 1 /\ e.node # origin /\ Hit(e.node, e.effect) \in FirstHits(origin)
      /\ \A d, e \in level : d.node = e.node => d = e
  BY <1>1, LevelIsWellFormed DEF ImpactInit
<1>3. ImpactTypeOK
  BY <1>2 DEF ImpactTypeOK, Nodes, ImpactInit
<1>4. LevelIsOutermost
  BY <1>2 DEF LevelIsOutermost, ImpactInit
<1>5. EveryEffectHasACause
  BY <1>2 DEF EveryEffectHasACause, Affected, ImpactInit
<1>6. NothingLeftOut
  BY DEF NothingLeftOut, ImpactInit
<1> QED
  BY <1>3, <1>4, <1>5, <1>6 DEF ImpactInv

LEMMA ImpactPickKeeps ==
  ASSUME ImpactInv, NEW other \in Services \cup {Resource}, Pick(other)
  PROVE  ImpactInv'
<1>1. FirstHits(other) \in SUBSET Hits
  BY FirstHitsAreServices DEF ImpactInv, ImpactTypeOK
<1>2. connections' = connections /\ relations' = relations /\ origin' = other /\ entries' = {}
  BY DEF Pick
<1>3. FirstHits(origin)' = FirstHits(other)
  BY <1>2 DEF FirstHits, Related, Spread, Callers, Consumers
<1>4. /\ level' \subseteq Nodes
      /\ \A e \in level' : e.hop = 1 /\ e.node # origin' /\ Hit(e.node, e.effect) \in FirstHits(origin)'
      /\ \A d, e \in level' : d.node = e.node => d = e
  BY <1>1, <1>2, <1>3, LevelIsWellFormed DEF Pick
<1>5. ImpactTypeOK'
  BY <1>2, <1>4 DEF ImpactTypeOK, ImpactInv, Nodes
<1>6. LevelIsOutermost'
  BY <1>2, <1>4 DEF LevelIsOutermost
<1>7. EveryEffectHasACause'
  BY <1>2, <1>4 DEF EveryEffectHasACause, Affected
<1>8. NothingLeftOut'
  BY <1>2 DEF NothingLeftOut
<1> QED
  BY <1>5, <1>6, <1>7, <1>8 DEF ImpactInv

-----------------------------------------------------------------------------
(* A round: the level is settled and the next one is found from it.         *)
LEMMA RoundKeeps ==
  ASSUME ImpactInv, NEW hop \in 1..MaxHops, Round(hop)
  PROVE  ImpactInv'
<1> USE ImpactAssumption
<1>1. /\ connections' = connections /\ relations' = relations /\ origin' = origin
      /\ entries' = entries \cup level
      /\ level' = LevelOf(origin, HitsOf(level), entries', hop + 1)
  BY DEF Round, Settle
<1>2. (\A e \in level : e.hop = hop) /\ (\A e \in entries : e.hop < hop)
  BY DEF Round, ImpactInv, LevelIsOutermost
<1>3. HitsOf(level) \in SUBSET Hits /\ hop + 1 \in Nat \ {0}
  BY LevelHitsAreServices DEF ImpactInv, ImpactTypeOK
<1>4. /\ level' \subseteq Nodes
      /\ \A e \in level' : /\ e.hop = hop + 1
                           /\ e.node # origin
                           /\ e.node \notin NodesOf(entries')
                           /\ Hit(e.node, e.effect) \in HitsOf(level)
      /\ \A d, e \in level' : d.node = e.node => d = e
  <2> DEFINE found == LevelOf(origin, HitsOf(level), entries', hop + 1)
  <2>1. /\ found \subseteq Nodes
        /\ \A e \in found : /\ e.hop = hop + 1
                            /\ e.node # origin
                            /\ e.node \notin NodesOf(entries')
                            /\ Hit(e.node, e.effect) \in HitsOf(level)
        /\ \A d, e \in found : d.node = e.node => d = e
    BY <1>3, LevelIsWellFormed
  <2> HIDE DEF found
  <2> QED
    BY <2>1, <1>1 DEF found
<1>5. \A node, effect : Spread(node, effect)' = Spread(node, effect)
  BY <1>1 DEF Spread, Callers, Consumers
<1>6. FirstHits(origin)' = FirstHits(origin)
  BY <1>1, <1>5 DEF FirstHits, Related
<1>7. ImpactTypeOK'
  BY <1>1, <1>4 DEF ImpactTypeOK, ImpactInv, Nodes
<1>8. LevelIsOutermost'
  <2>1. \A e \in entries' : e.hop \in Nat /\ e.hop <= hop
    BY <1>1, <1>2 DEF ImpactInv, ImpactTypeOK
  <2> QED
    BY <2>1, <1>4 DEF LevelIsOutermost
<1>9. EveryEffectHasACause'
  <2>1. \A d, e \in Affected' : d.node = e.node => d = e
    <3>1. \A d, e \in entries' : d.node = e.node => d = e
      BY <1>1 DEF ImpactInv, EveryEffectHasACause, Affected
    <3>2. \A d \in level' : \A e \in entries' : d.node # e.node
      BY <1>4 DEF NodesOf
    <3> QED
      BY <3>1, <3>2, <1>4 DEF Affected
  <2>2. ASSUME NEW e \in entries'
        PROVE  /\ e.node # origin
               /\ IF e.hop = 1 THEN Hit(e.node, e.effect) \in FirstHits(origin)
                  ELSE \E cause \in entries' :
                         cause.hop = e.hop - 1 /\ Hit(e.node, e.effect) \in Spread(cause.node, cause.effect)
    BY <1>1, <2>2 DEF ImpactInv, EveryEffectHasACause, Affected
  <2>3. ASSUME NEW e \in level'
        PROVE  /\ e.node # origin
               /\ e.hop # 1
               /\ \E cause \in entries' :
                    cause.hop = e.hop - 1 /\ Hit(e.node, e.effect) \in Spread(cause.node, cause.effect)
    <3>1. PICK cause \in level : Hit(e.node, e.effect) \in Spread(cause.node, cause.effect)
      BY <1>4 DEF HitsOf
    <3>2. cause.hop = hop /\ e.hop = hop + 1
      BY <1>2, <1>4
    <3>3. cause.hop = e.hop - 1 /\ e.hop # 1
      BY <3>2
    <3> QED
      BY <3>1, <3>3, <1>1, <1>4
  <2>4. \A e \in Affected' :
          /\ e.node # origin
          /\ IF e.hop = 1 THEN Hit(e.node, e.effect) \in FirstHits(origin)
             ELSE \E cause \in entries' :
                    cause.hop = e.hop - 1 /\ Hit(e.node, e.effect) \in Spread(cause.node, cause.effect)
    BY <2>2, <2>3 DEF Affected
  <2>5. \A e \in Affected' :
          /\ e.node # origin'
          /\ IF e.hop = 1 THEN Hit(e.node, e.effect) \in FirstHits(origin)'
             ELSE \E cause \in entries' :
                    cause.hop = e.hop - 1 /\ Hit(e.node, e.effect) \in Spread(cause.node, cause.effect)'
    BY <2>4, <1>1, <1>5, <1>6
  <2> QED
    BY <2>1, <2>5 DEF EveryEffectHasACause
<1>10. NothingLeftOut'
  <2> SUFFICES ASSUME NEW e \in entries', e.hop < MaxHops, NEW h \in Spread(e.node, e.effect), h.node # origin
               PROVE  \E known \in Affected' :
                        /\ known.node = h.node
                        /\ known.hop <= e.hop + 1
                        /\ known.hop = e.hop + 1 => EffectRank[known.effect] >= EffectRank[h.effect]
    BY <1>1, <1>5 DEF NothingLeftOut
  <2>1. CASE e \in entries
    BY <2>1, <1>1 DEF ImpactInv, NothingLeftOut, Affected
  <2>2. CASE e \in level
    <3>1. e.hop = hop /\ h \in HitsOf(level)
      BY <2>2, <1>2 DEF HitsOf
    <3>2. CASE h.node \in NodesOf(entries')
      <4>1. PICK known \in entries' : known.node = h.node
        BY <3>2 DEF NodesOf
      <4>2. known.hop \in Nat /\ known.hop <= hop
        BY <1>1, <1>2 DEF ImpactInv, ImpactTypeOK
      <4> QED
        BY <4>1, <4>2, <3>1 DEF Affected
    <3>3. CASE h.node \notin NodesOf(entries')
      <4>1. hop + 1 \in Nat /\ hop + 1 <= MaxHops
        BY <3>1
      <4>2. \E known \in level' :
              known.node = h.node /\ known.hop = hop + 1 /\ EffectRank[known.effect] >= EffectRank[h.effect]
        BY <1>1, <1>3, <3>1, <3>3, <4>1, LevelAnswersHits
      <4> QED
        BY <4>2, <3>1 DEF Affected
    <3> QED
      BY <3>2, <3>3
  <2> QED
    BY <2>1, <2>2, <1>1
<1> QED
  BY <1>7, <1>8, <1>9, <1>10 DEF ImpactInv

LEMMA ImpactStutters ==
  ASSUME ImpactInv, UNCHANGED impactVars
  PROVE  ImpactInv'
<1>1. /\ connections' = connections /\ relations' = relations
      /\ origin' = origin /\ entries' = entries /\ level' = level
  BY DEF impactVars
<1>2. ImpactTypeOK' /\ LevelIsOutermost'
  BY <1>1 DEF ImpactInv, ImpactTypeOK, LevelIsOutermost
<1>3. Affected' = Affected /\ (\A node, effect : Spread(node, effect)' = Spread(node, effect))
  BY <1>1 DEF Affected, Spread, Callers, Consumers
<1>4. FirstHits(origin)' = FirstHits(origin)
  BY <1>1, <1>3 DEF FirstHits, Related
<1>5. EveryEffectHasACause'
  BY <1>1, <1>3, <1>4 DEF ImpactInv, EveryEffectHasACause
<1>6. NothingLeftOut'
  BY <1>1, <1>3 DEF ImpactInv, NothingLeftOut
<1> QED
  BY <1>2, <1>5, <1>6 DEF ImpactInv

-----------------------------------------------------------------------------
(* The search of computeImpact keeps its invariant, round after round and    *)
(* from one origin to the next.                                             *)
THEOREM ImpactInductive == ImpactSpec => []ImpactInv
<1>1. ImpactInv /\ [ImpactNext]_impactVars => ImpactInv'
  BY ImpactPickKeeps, RoundKeeps, ImpactStutters DEF ImpactNext
<1> QED
  BY <1>1, ImpactInitInv, PTL DEF ImpactSpec

(* The report holds services, with an effect and a hop of at most MaxHops.  *)
THEOREM ImpactTypeCorrect == ImpactSpec => []ImpactTypeOK
BY ImpactInductive, PTL DEF ImpactInv

(* In every map and to any number of hops: no effect without a cause one hop *)
(* nearer, no service twice, never the origin itself, and whatever a settled *)
(* service passes on is in the report, as near and as strong.               *)
THEOREM ReportsAreExact == ImpactSpec => []ImpactIsExact
BY ImpactInductive, PTL DEF ImpactInv, ImpactIsExact

-----------------------------------------------------------------------------
(* A scan sees of a repository that is checked out what is in it.            *)
LEMMA SeenIs == \A f : f \in Seen <=> f \in code /\ f.repo \in checkedOut
BY DEF Seen

LEMMA FactsAreOfTheirRepo ==
  \A repo, what, place, name : Fact(repo, what, place, name).repo = repo
BY DEF Fact

LEMMA SeenWhereCheckedOut ==
  \A repo, what, place, name :
    Fact(repo, what, place, name) \in Seen <=> Fact(repo, what, place, name) \in code /\ repo \in checkedOut
BY SeenIs, FactsAreOfTheirRepo

LEMMA FilesWhereCheckedOut ==
  \A repo, path, token :
    /\ Exists(repo, path) <=> FileIs(repo, path) /\ repo \in checkedOut
    /\ Contains(repo, path, token) <=> TokenIs(repo, path, token) /\ repo \in checkedOut
BY SeenWhereCheckedOut DEF Exists, FileIs, FileAt, Contains, TokenIs, Text

LEMMA ExtractedWhereCheckedOut ==
  \A repo, what : Extracted(repo, what) # {} => repo \in checkedOut
BY SeenIs DEF Extracted

(* What VerdictsAreTrue says, of any reference.                              *)
Blames(r) == Findings(r) # {} /\ Holds(r) => OnlyElsewhere(r) /\ "skipped" \in Verdict(r)
Passes(r) == Verdict(r) # {} /\ Findings(r) = {} /\ "skipped" \notin Verdict(r) => Holds(r)
Truthful(r) == Blames(r) /\ Passes(r)

LEMMA FindingsOf ==
  ASSUME NEW r
  PROVE  /\ \A v : v \in Findings(r) <=> v \in Verdict(r) /\ v \notin {"verified", "waived", "response", "skipped"}
BY DEF Findings, Passed

LEMMA UnitsTruthful == ASSUME NEW r, r.kind = "unit" PROVE Truthful(r)
<1>1. Verdict(r) = UnitVerdict(r)
  BY DEF Verdict
<1>2. Holds(r) <=> /\ r.repo \in Repos
                   /\ r.path # None =>
                        /\ FileIs(r.repo, r.path)
                        /\ r.repo = Monolith /\ r.controller /\ r.path \notin AbstractControllers
                             => Fact(Monolith, "route", r.path, None) \in code
  BY DEF Holds
<1>4. CASE r.repo \notin Repos
  BY <1>1, <1>2, <1>4, FindingsOf DEF UnitVerdict, Truthful, Blames, Passes
<1>5. CASE r.repo \in Repos /\ r.path = None
  BY <1>1, <1>2, <1>5, FindingsOf DEF UnitVerdict, Truthful, Blames, Passes
<1>6. CASE r.repo \in Repos /\ r.path # None
  <2>1. RoutelessController(r) => ~Holds(r)
    BY <1>2, <1>6, SeenWhereCheckedOut DEF RoutelessController
  <2>2. ASSUME ~RoutelessController(r), r.repo \in checkedOut, FileIs(r.repo, r.path) PROVE Holds(r)
    BY <1>2, <1>6, <2>2, SeenWhereCheckedOut DEF RoutelessController
  <2>3. Verdict(r) = (IF RoutelessController(r) THEN {"controller-without-route"} ELSE {})
                     \cup (IF r.repo \notin checkedOut THEN {"skipped"}
                           ELSE IF Exists(r.repo, r.path) THEN {"verified"} ELSE {"missing-code-path"})
    BY <1>1, <1>6 DEF UnitVerdict, FileVerdict
  <2>4. FileIs(r.repo, r.path) /\ r.repo \in checkedOut <=> Exists(r.repo, r.path)
    BY FilesWhereCheckedOut
  <2>5. Blames(r)
    BY <1>2, <1>6, <2>1, <2>3, <2>4, FindingsOf DEF Blames
  <2>6. Passes(r)
    BY <2>2, <2>3, <2>4, FindingsOf DEF Passes
  <2> QED
    BY <2>5, <2>6 DEF Truthful
<1> QED
  BY <1>4, <1>5, <1>6

LEMMA EndsTruthful == ASSUME NEW r, r.kind = "edgeEnd" PROVE Truthful(r)
BY FindingsOf DEF Verdict, EdgeEndVerdict, Holds, Truthful, Blames, Passes

LEMMA ContractsTruthful == ASSUME NEW r, r.kind = "contract" PROVE Truthful(r)
BY FindingsOf, FilesWhereCheckedOut, SeenWhereCheckedOut
   DEF Verdict, ContractVerdict, Holds, Truthful, Blames, Passes

LEMMA PiiTruthful == ASSUME NEW r, r.kind = "pii" PROVE Truthful(r)
<1>1. {f \in Extracted(Libs, "pii") : f.at = r.repo} # {} => Libs \in checkedOut
  BY ExtractedWhereCheckedOut
<1> QED
  BY <1>1, FindingsOf, SeenWhereCheckedOut DEF Verdict, PiiVerdict, Holds, Truthful, Blames, Passes

LEMMA AuthorizersTruthful == ASSUME NEW r, r.kind = "authorizer" PROVE Truthful(r)
BY FindingsOf, ExtractedWhereCheckedOut, SeenWhereCheckedOut
   DEF Verdict, AuthorizerVerdict, NameVerdict, Holds, Truthful, Blames, Passes

LEMMA EdgeTokensTruthful == ASSUME NEW r, r.kind \in {"gate", "edgeFlag"} PROVE Truthful(r)
<1>1. PICK missing : /\ Verdict(r) = EdgeTokenVerdict(r, missing)
                     /\ missing \notin {"verified", "waived", "response", "skipped"}
  BY DEF Verdict
<1>2. Holds(r) <=> \E s \in r.sides : s.path # None /\ TokenIs(s.repo, s.path, r.name)
  BY DEF Holds
<1>3. \A s : s \in SidesPresent(r) <=> s \in SidesWithFile(r) /\ s.repo \in checkedOut
  BY DEF SidesPresent
<1>4. \A s : s \in SidesWithFile(r) <=> s \in r.sides /\ s.path # None
  BY DEF SidesWithFile
<1>5. ASSUME SidesPresent(r) = SidesWithFile(r)
      PROVE  (\E s \in SidesPresent(r) : Contains(s.repo, s.path, r.name)) <=> Holds(r)
  BY <1>2, <1>3, <1>4, <1>5, FilesWhereCheckedOut
<1>6. CASE SidesPresent(r) = SidesWithFile(r)
  <2>1. Verdict(r) = IF SidesPresent(r) = {} THEN {}
                     ELSE IF Holds(r) THEN {"verified"} ELSE {missing}
    BY <1>1, <1>5, <1>6 DEF EdgeTokenVerdict
  <2> QED
    BY <1>1, <2>1, FindingsOf DEF Truthful, Blames, Passes
<1>7. CASE SidesPresent(r) # SidesWithFile(r)
  <2>1. "skipped" \in Verdict(r)
    BY <1>1, <1>7 DEF EdgeTokenVerdict
  <2>2. ASSUME Findings(r) # {} PROVE OnlyElsewhere(r)
    <3>1. ~\E s \in SidesPresent(r) : Contains(s.repo, s.path, r.name)
      BY <1>1, <2>2, FindingsOf DEF EdgeTokenVerdict
    <3> QED
      BY <1>3, <3>1, FilesWhereCheckedOut DEF OnlyElsewhere
  <2> QED
    BY <2>1, <2>2 DEF Truthful, Blames, Passes
<1> QED
  BY <1>6, <1>7

LEMMA UnitTokensTruthful == ASSUME NEW r, r.kind \in {"unitFlag", "branch"} PROVE Truthful(r)
<1>1. PICK missing : /\ Verdict(r) = UnitTokenVerdict(r, missing)
                     /\ missing \notin {"verified", "waived", "response", "skipped"}
  BY DEF Verdict
<1>2. Holds(r) <=> TokenIs(r.repo, r.path, r.name)
  BY DEF Holds
<1> QED
  BY <1>1, <1>2, FindingsOf, FilesWhereCheckedOut DEF UnitTokenVerdict, Truthful, Blames, Passes

LEMMA AnchorsTruthful == ASSUME NEW r, r.kind = "anchor" PROVE Truthful(r)
BY FindingsOf, FilesWhereCheckedOut DEF Verdict, AnchorVerdict, Holds, TokenIs, Truthful, Blames, Passes

LEMMA RulesTruthful == ASSUME NEW r, r.kind = "rule" PROVE Truthful(r)
BY FindingsOf, FilesWhereCheckedOut, SeenWhereCheckedOut
   DEF Verdict, RuleVerdict, FileVerdict, Drifted, Holds, Truthful, Blames, Passes

LEMMA GlobsTruthful == ASSUME NEW r, r.kind = "glob" PROVE Truthful(r)
BY FindingsOf, FilesWhereCheckedOut DEF Verdict, GlobVerdict, Holds, Truthful, Blames, Passes

LEMMA EvidenceTruthful == ASSUME NEW r, r.kind = "evidence" PROVE Truthful(r)
BY FindingsOf, FilesWhereCheckedOut DEF Verdict, EvidenceVerdict, Holds, Truthful, Blames, Passes

LEMMA StepsTruthful == ASSUME NEW r, r.kind = "step" PROVE Truthful(r)
BY FindingsOf DEF Verdict, ConnectionVerdict, PathVerdict, PathIsChecked, Holds, Truthful, Blames, Passes

LEMMA AsyncTruthful == ASSUME NEW r, r.kind = "async" PROVE Truthful(r)
<1>1. Verdict(r) = AsyncVerdict(r)
  BY DEF Verdict
<1>2. Holds(r) <=> /\ r.dlq # None \/ r.waived
                   /\ r.dlq # None => Wired(r.dlq, WiredTo(r))
                   /\ r.waived /\ r.queue # None => ~Contradicted(r.queue, WiredTo(r))
  BY DEF Holds
<1>3. ASSUME Wirings(r.repo) # {} PROVE Wirings(r.repo) = WiredTo(r)
  <2>1. r.repo \in checkedOut
    BY <1>3, ExtractedWhereCheckedOut DEF Wirings
  <2> QED
    BY <2>1 DEF Wirings, WiredTo, Extracted, Seen
<1>4. CASE ~InScope(r)
  BY <1>1, <1>4, FindingsOf DEF AsyncVerdict, Truthful, Blames, Passes
<1>5. CASE InScope(r) /\ r.dlq = None /\ ~r.waived
  BY <1>1, <1>2, <1>5, FindingsOf DEF AsyncVerdict, Truthful, Blames, Passes
<1>6. CASE InScope(r) /\ ~(r.dlq = None /\ ~r.waived) /\ Wirings(r.repo) = {}
  BY <1>1, <1>6, FindingsOf DEF AsyncVerdict, Truthful, Blames, Passes
<1>7. CASE InScope(r) /\ ~(r.dlq = None /\ ~r.waived) /\ Wirings(r.repo) # {}
  <2>1. Verdict(r) = DlqVerdict(r) \cup WaiverVerdict(r)
    BY <1>1, <1>7 DEF AsyncVerdict
  <2>2. DlqVerdict(r) = IF r.dlq = None THEN {}
                        ELSE IF Wired(r.dlq, WiredTo(r)) THEN {"verified"} ELSE {"dlq-not-in-config"}
    BY <1>3, <1>7 DEF DlqVerdict
  <2>3. WaiverVerdict(r) = IF ~r.waived THEN {}
                           ELSE IF r.queue # None /\ Contradicted(r.queue, WiredTo(r)) THEN {"stale-dlq-waiver"}
                           ELSE {"waived"}
    BY <1>3, <1>7 DEF WaiverVerdict
  <2> QED
    BY <1>2, <1>7, <2>1, <2>2, <2>3, FindingsOf DEF Truthful, Blames, Passes
<1> QED
  BY <1>4, <1>5, <1>6, <1>7

(* In any state of the code and of the check-outs, a check passes no          *)
(* reference that does not hold, and blames one that does only where an     *)
(* edge's token is in nothing but a repository it names as skipped.         *)
THEOREM ChecksAreTruthful == SourceSpec => []VerdictsAreTrue
<1>1. SourceInit => ref \in References
  BY DEF SourceInit
<1>2. ref \in References /\ [SourceNext]_sourceVars => (ref \in References)'
  BY DEF SourceNext, CodeChanges, CheckOutChanges, sourceVars
<1>3. ref \in References => VerdictsAreTrue
  <2> SUFFICES ASSUME ref \in References PROVE Truthful(ref)
    BY DEF VerdictsAreTrue, Truthful, Blames, Passes
  <2>1. ref.kind \in Kinds
    BY SourceAssumption
  <2> QED
    BY <2>1, UnitsTruthful, EndsTruthful, ContractsTruthful, PiiTruthful, AuthorizersTruthful,
       EdgeTokensTruthful, UnitTokensTruthful, AsyncTruthful, RulesTruthful, GlobsTruthful,
       AnchorsTruthful, EvidenceTruthful, StepsTruthful DEF Kinds
<1> QED
  BY <1>1, <1>2, <1>3, PTL DEF SourceSpec

-----------------------------------------------------------------------------
(* A set that has 0 and the successor of each number it has has all of them. *)
LEMMA NatsOneByOne ==
  ASSUME NEW T, 0 \in T, \A n \in Nat : n \in T => n + 1 \in T
  PROVE  \A n \in Nat : n \in T
<1> DEFINE missing == {n \in Nat : n \notin T}
<1>1. SUFFICES ASSUME missing # {} PROVE FALSE
  OBVIOUS
<1>2. PICK least \in missing : \A n \in missing : ~(<<n, least>> \in OpToRel(<, Nat))
  <2>1. missing \subseteq Nat
    OBVIOUS
  <2> HIDE DEF missing
  <2> QED  BY <1>1, <2>1, NatLessThanWellFounded, WFMin
<1>3. \A n \in missing : ~(n < least)
  BY <1>2 DEF OpToRel
<1>4. least # 0 /\ least - 1 \in Nat /\ least - 1 < least
  OBVIOUS
<1>5. least - 1 \in T
  BY <1>3, <1>4
<1>6. (least - 1) + 1 \in T
  BY <1>4, <1>5
<1> QED  BY <1>6

(* A function on the numbers that says what follows each of its values       *)
(* exists.                                                                  *)
LEMMA IteratesExist ==
  ASSUME NEW S, NEW start \in S, NEW step \in [S -> S]
  PROVE  \E g \in [Nat -> S] : g[0] = start /\ \A n \in Nat : g[n + 1] = step[g[n]]
<1> DEFINE Runs(n) == {h \in [0..n -> S] : h[0] = start /\ \A i \in Nat : i < n => h[i + 1] = step[h[i]]}
           Only == {n \in Nat : \E h : Runs(n) = {h}}
           Cut(n, h) == [i \in 0..n |-> h[i]]
<1>1. 0 \in Only
  <2>1. \A h \in Runs(0) : h = [i \in 0..0 |-> start]
    OBVIOUS
  <2>2. [i \in 0..0 |-> start] \in Runs(0)
    OBVIOUS
  <2> QED  BY <2>1, <2>2
<1>2. \A n \in Nat : \A h \in Runs(n + 1) : Cut(n, h) \in Runs(n)
  OBVIOUS
<1>3. ASSUME NEW n \in Only PROVE n + 1 \in Only
  <2>1. PICK h : Runs(n) = {h}
    OBVIOUS
  <2>2. h \in [0..n -> S] /\ h[0] = start /\ \A i \in Nat : i < n => h[i + 1] = step[h[i]]
    BY <2>1
  <2> DEFINE next == [i \in 0..(n + 1) |-> IF i = n + 1 THEN step[h[n]] ELSE h[i]]
  <2>3. next \in Runs(n + 1)
    <3>1. next \in [0..(n + 1) -> S]
      BY <2>2
    <3>2. next[0] = start
      BY <2>2
    <3>3. ASSUME NEW i \in Nat, i < n + 1 PROVE next[i + 1] = step[next[i]]
      BY <2>2, <3>3
    <3> QED  BY <3>1, <3>2, <3>3
  <2>4. ASSUME NEW other \in Runs(n + 1) PROVE other = next
    <3>1. Cut(n, other) = h
      BY <1>2, <2>1
    <3>2. \A i \in 0..n : other[i] = h[i]
      BY <3>1
    <3>3. other[n + 1] = step[other[n]]
      OBVIOUS
    <3> QED  BY <3>2, <3>3
  <2> HIDE DEF next, Runs
  <2>5. Runs(n + 1) = {next}
    BY <2>3, <2>4
  <2> QED  BY <2>5
<1>4. \A n \in Nat : n \in Only
  <2> HIDE DEF Only
  <2> QED  BY <1>1, <1>3, NatsOneByOne
<1> DEFINE run(n) == CHOOSE h : Runs(n) = {h}
           g == [n \in Nat |-> run(n)[n]]
<1>5. \A n \in Nat : Runs(n) = {run(n)}
  BY <1>4
<1>6. \A n \in Nat : run(n) \in Runs(n)
  BY <1>5
<1> HIDE DEF run
<1>7. \A n \in Nat : run(n) \in [0..n -> S] /\ run(n)[0] = start
  BY <1>6
<1>8. ASSUME NEW n \in Nat PROVE g[n + 1] = step[g[n]]
  <2>1. Cut(n, run(n + 1)) = run(n)
    <3>1. n + 1 \in Nat
      OBVIOUS
    <3> HIDE DEF Cut, Runs
    <3>2. Cut(n, run(n + 1)) \in Runs(n)
      BY <1>2, <1>6, <3>1
    <3> QED  BY <1>5, <3>2
  <2>2. run(n + 1)[n] = run(n)[n]
    BY <2>1
  <2>3. run(n + 1)[n + 1] = step[run(n + 1)[n]]
    BY <1>6
  <2> QED  BY <2>2, <2>3
<1>9. g \in [Nat -> S] /\ g[0] = start
  BY <1>7
<1> HIDE DEF g
<1> QED  BY <1>8, <1>9

(* What grows step by step within a finite set stops growing, after no more  *)
(* steps than the set has elements.                                         *)
LEMMA GrowthStops ==
  ASSUME NEW A, IsFiniteSet(A), NEW g \in [Nat -> SUBSET A], g[0] # {},
         \A n \in Nat : g[n] \subseteq g[n + 1],
         \A n \in Nat : g[n + 1] = g[n] => g[n + 2] = g[n + 1]
  PROVE  /\ Cardinality(A) \in Nat \ {0}
         /\ \A n, k \in Nat : k >= Cardinality(A) - 1 => g[n] \subseteq g[k]
<1> DEFINE Stopped(n) == g[n + 1] = g[n]
           size == Cardinality(A)
           Large == {n \in Nat : Stopped(n) \/ Cardinality(g[n + 1]) >= n + 2}
<1>1. /\ size \in Nat /\ \A n \in Nat : /\ g[n] \in SUBSET A /\ IsFiniteSet(g[n])
                                         /\ Cardinality(g[n]) \in Nat /\ Cardinality(g[n]) <= size
  BY FS_CardinalityType, FS_Subset
<1>2. \A n \in Nat : n + 1 \in Nat /\ (~Stopped(n) => Cardinality(g[n + 1]) >= Cardinality(g[n]) + 1)
  <2> SUFFICES ASSUME NEW n \in Nat, ~Stopped(n)
               PROVE  Cardinality(g[n + 1]) >= Cardinality(g[n]) + 1
    OBVIOUS
  <2>1. n + 1 \in Nat
    OBVIOUS
  <2>2. /\ IsFiniteSet(g[n + 1]) /\ g[n] \in SUBSET g[n + 1] /\ g[n] # g[n + 1]
        /\ Cardinality(g[n]) \in Nat /\ Cardinality(g[n + 1]) \in Nat
    BY <1>1, <2>1
  <2>3. Cardinality(g[n]) <= Cardinality(g[n + 1]) /\ Cardinality(g[n]) # Cardinality(g[n + 1])
    BY <2>2, FS_Subset
  <2> QED  BY <2>2, <2>3
<1>3. Cardinality(g[0]) >= 1
  BY <1>1, FS_EmptySet
<1>4. size >= 1
  BY <1>1, <1>3
<1>5. 0 \in Large
  BY <1>1, <1>2, <1>3
<1>6. ASSUME NEW n \in Nat, n \in Large PROVE n + 1 \in Large
  <2>1. n + 1 \in Nat /\ (n + 1) + 1 = n + 2 /\ n + 2 \in Nat
    OBVIOUS
  <2>2. CASE Stopped(n)
    BY <2>1, <2>2
  <2>3. CASE ~Stopped(n) /\ ~Stopped(n + 1)
    <3>1. Cardinality(g[n + 1]) >= n + 2
      BY <1>6, <2>3
    <3>2. Cardinality(g[n + 2]) >= Cardinality(g[n + 1]) + 1
      BY <1>2, <2>1, <2>3
    <3> QED  BY <1>1, <2>1, <3>1, <3>2
  <2>4. CASE Stopped(n + 1)
    BY <2>1, <2>4
  <2> QED  BY <2>2, <2>3, <2>4
<1>7. \A n \in Nat : n \in Large
  <2> HIDE DEF Large
  <2> QED  BY <1>5, <1>6, NatsOneByOne
<1>8. size - 1 \in Nat /\ Stopped(size - 1)
  <2>1. size - 1 \in Nat /\ (size - 1) + 1 = size
    BY <1>1, <1>4
  <2>2. Stopped(size - 1) \/ Cardinality(g[size]) >= size + 1
    BY <1>7, <2>1
  <2> QED  BY <1>1, <2>1, <2>2
<1> DEFINE Last == g[size - 1]
           Kept == {n \in Nat : g[(size - 1) + n] = Last /\ Stopped((size - 1) + n)}
           Within == {n \in Nat : g[n] \subseteq Last}
<1>9. \A n \in Nat : n \in Kept
  <2>1. 0 \in Kept
    BY <1>1, <1>8
  <2>2. ASSUME NEW n \in Nat, n \in Kept PROVE n + 1 \in Kept
    <3> DEFINE m == (size - 1) + n
    <3>1. m \in Nat /\ (size - 1) + (n + 1) = m + 1 /\ (m + 1) + 1 = m + 2
      BY <1>1, <1>8
    <3>2. g[m] = Last /\ g[m + 1] = g[m]
      BY <2>2
    <3>3. g[m + 2] = g[m + 1]
      BY <3>1, <3>2
    <3> QED  BY <3>1, <3>2, <3>3
  <2> HIDE DEF Kept
  <2> QED  BY <2>1, <2>2, NatsOneByOne
<1>10. \A k \in Nat : k >= size - 1 => g[k] = Last
  <2>1. \A k \in Nat : k >= size - 1 => k - (size - 1) \in Nat /\ (size - 1) + (k - (size - 1)) = k
    BY <1>8
  <2> QED  BY <1>9, <2>1
<1>11. \A n \in Nat : n \in Within
  <2> DEFINE Growing == {n \in Nat : \A m \in Nat : g[m] \subseteq g[m + n]}
  <2>1. 0 \in Growing
    OBVIOUS
  <2>2. ASSUME NEW n \in Nat, n \in Growing PROVE n + 1 \in Growing
    <3>1. ASSUME NEW m \in Nat PROVE g[m] \subseteq g[m + (n + 1)]
      <4>1. m + n \in Nat /\ m + (n + 1) = (m + n) + 1
        OBVIOUS
      <4>2. g[m] \subseteq g[m + n]
        BY <2>2
      <4>3. g[m + n] \subseteq g[(m + n) + 1]
        BY <4>1
      <4> QED  BY <4>1, <4>2, <4>3
    <3> QED  BY <3>1
  <2>3. \A n \in Nat : n \in Growing
    <3> HIDE DEF Growing
    <3> QED  BY <2>1, <2>2, NatsOneByOne
  <2>4. ASSUME NEW n \in Nat PROVE g[n] \subseteq Last
    <3>1. n + (size - 1) \in Nat /\ n + (size - 1) >= size - 1 /\ (size - 1) \in Nat
      BY <1>8
    <3>2. g[n] \subseteq g[n + (size - 1)]
      BY <2>3, <3>1
    <3> QED  BY <1>10, <3>1, <3>2
  <2> QED  BY <2>4
<1> HIDE DEF size, Last
<1>12. size \in Nat \ {0}
  BY <1>1, <1>4
<1>13. \A n, k \in Nat : k >= size - 1 => g[n] \subseteq g[k]
  BY <1>10, <1>11
<1> QED  BY <1>12, <1>13 DEF size

(* A closure: what is reached step by step from what is there.              *)
Grows(A, g, more) ==
  /\ IsFiniteSet(A) /\ g \in [Nat -> SUBSET A] /\ g[0] # {}
  /\ more \in [SUBSET A -> SUBSET A] /\ \A n \in Nat : g[n + 1] = g[n] \cup more[g[n]]

Stops(A, g, more) ==
  /\ Cardinality(A) \in Nat \ {0}
  /\ \A m, n \in Nat : m <= n => g[m] \subseteq g[n]
  /\ \A n, k \in Nat : k >= Cardinality(A) - 1 => g[n] \subseteq g[k] /\ more[g[k]] \subseteq g[k]

Least(A, g, more) ==
  \A C : g[0] \subseteq C /\ (\A X \in SUBSET A : X \subseteq C => more[X] \subseteq C)
        => \A n \in Nat : g[n] \subseteq C

LEMMA ClosureIs ==
  ASSUME NEW A, NEW g, NEW more, Grows(A, g, more)
  PROVE  Stops(A, g, more) /\ Least(A, g, more)
<1> USE DEF Grows
<1>1. /\ \A n \in Nat : n + 1 \in Nat /\ (n + 1) + 1 = n + 2 /\ g[n] \in SUBSET A
      /\ \A n \in Nat : g[n] \subseteq g[n + 1]
  OBVIOUS
<1>2. \A n \in Nat : g[n + 1] = g[n] => g[n + 2] = g[n + 1]
  BY <1>1
<1>3. /\ Cardinality(A) \in Nat \ {0}
      /\ \A n, k \in Nat : k >= Cardinality(A) - 1 => g[n] \subseteq g[k]
  BY <1>1, <1>2, GrowthStops
<1>4. \A m, n \in Nat : m <= n => g[m] \subseteq g[n]
  <2> DEFINE Growing == {n \in Nat : \A m \in Nat : m <= n => g[m] \subseteq g[n]}
  <2>1. 0 \in Growing
    OBVIOUS
  <2>2. ASSUME NEW n \in Nat, n \in Growing PROVE n + 1 \in Growing
    <3>1. \A m \in Nat : m <= n + 1 => m <= n \/ m = n + 1
      OBVIOUS
    <3> QED  BY <1>1, <2>2, <3>1
  <2>3. \A n \in Nat : n \in Growing
    <3> HIDE DEF Growing
    <3> QED  BY <2>1, <2>2, NatsOneByOne
  <2> QED  BY <2>3
<1>5. ASSUME NEW k \in Nat, k >= Cardinality(A) - 1 PROVE more[g[k]] \subseteq g[k]
  <2>1. g[k + 1] \subseteq g[k]
    BY <1>1, <1>3, <1>5
  <2> QED  BY <2>1
<1>6. ASSUME NEW C, g[0] \subseteq C, \A X \in SUBSET A : X \subseteq C => more[X] \subseteq C
      PROVE  \A n \in Nat : g[n] \subseteq C
  <2> DEFINE Inside == {n \in Nat : g[n] \subseteq C}
  <2>1. 0 \in Inside
    BY <1>6
  <2>2. ASSUME NEW n \in Nat, n \in Inside PROVE n + 1 \in Inside
    BY <1>1, <1>6, <2>2
  <2>3. \A n \in Nat : n \in Inside
    <3> HIDE DEF Inside
    <3> QED  BY <2>1, <2>2, NatsOneByOne
  <2> QED  BY <2>3
<1> QED  BY <1>3, <1>4, <1>5, <1>6 DEF Stops, Least

-----------------------------------------------------------------------------
(* The levels: the least set that has the outermost and those in the open     *)
(* states of its levels.                                                    *)
LevelNames(open) == {Top} \cup {s.name : s \in open}
Deeper(open, X) == {s.name : s \in {x \in open : x.in \in X}}

LEMMA LevelSteps ==
  ASSUME NEW open, NEW A, A = LevelNames(open)
  PROVE  \E g \in [Nat -> SUBSET A] :
           /\ Levels(open) = g[Cardinality(open)]
           /\ g[0] = {Top} /\ \A n \in Nat : g[n + 1] = g[n] \cup Deeper(open, g[n])
<1> DEFINE Next(before) == before \cup Deeper(open, before)
           step == [X \in SUBSET A |-> Next(X)]
           Fits(g) == g = [n \in Nat |-> IF n = 0 THEN {Top} ELSE Next(g[n - 1])]
           run == CHOOSE g : Fits(g)
<1>0. \A X : Deeper(open, X) \subseteq A
  BY DEF Deeper, LevelNames
<1>1. {Top} \in SUBSET A /\ step \in [SUBSET A -> SUBSET A]
  BY <1>0 DEF LevelNames
<1>2. PICK g \in [Nat -> SUBSET A] : g[0] = {Top} /\ \A n \in Nat : g[n + 1] = step[g[n]]
  <2> DEFINE S == SUBSET A
             start == {Top}
  <2>1. start \in S /\ step \in [S -> S]
    BY <1>1
  <2> HIDE DEF step, S, start
  <2>2. \E g \in [Nat -> S] : g[0] = start /\ \A n \in Nat : g[n + 1] = step[g[n]]
    BY <2>1, IteratesExist
  <2> QED  BY <2>2 DEF S, start
<1>3. \A n \in Nat : n # 0 => g[n] = Next(g[n - 1])
  <2> SUFFICES ASSUME NEW n \in Nat, n # 0 PROVE g[n] = Next(g[n - 1])
    OBVIOUS
  <2>1. n - 1 \in Nat /\ (n - 1) + 1 = n
    OBVIOUS
  <2> HIDE DEF Next
  <2> QED  BY <1>2, <2>1
<1>4. Fits(g)
  <2> HIDE DEF Next
  <2> QED  BY <1>2, <1>3
<1>5. Fits(run)
  <2> HIDE DEF Fits
  <2> QED  BY <1>4
<1> HIDE DEF run
<1>6. run[0] = {Top} /\ \A n \in Nat : run[n + 1] = Next(run[n])
  <2>1. run[0] = {Top}
    <3> HIDE DEF Next
    <3> QED  BY <1>5
  <2>2. ASSUME NEW n \in Nat PROVE run[n + 1] = Next(run[n])
    <3>1. n + 1 \in Nat /\ n + 1 # 0 /\ (n + 1) - 1 = n
      OBVIOUS
    <3> HIDE DEF Next
    <3> QED  BY <1>5, <3>1
  <2> QED  BY <2>1, <2>2
<1>7. Levels(open) = run[Cardinality(open)]
  BY DEF Levels, run, Deeper
<1>8. run \in [Nat -> SUBSET A]
  <2>1. run = [n \in Nat |-> run[n]]
    BY <1>5
  <2> DEFINE Typed == {n \in Nat : run[n] \in SUBSET A}
  <2>2. 0 \in Typed
    BY <1>1, <1>6
  <2>3. ASSUME NEW n \in Nat, n \in Typed PROVE n + 1 \in Typed
    BY <1>6, <2>3, <1>0
  <2>4. \A n \in Nat : n \in Typed
    <3> HIDE DEF Typed
    <3> QED  BY <2>2, <2>3, NatsOneByOne
  <2> QED  BY <2>1, <2>4
<1> QED  BY <1>6, <1>7, <1>8

LEMMA LevelsAre ==
  ASSUME NEW open, IsFiniteSet(open)
  PROVE  /\ Top \in Levels(open)
         /\ \A s \in open : s.in \in Levels(open) => s.name \in Levels(open)
         /\ \A C : Top \in C /\ (\A s \in open : s.in \in C => s.name \in C) => Levels(open) \subseteq C
<1> DEFINE A == LevelNames(open)
           count == Cardinality(open)
           more == [X \in SUBSET A |-> Deeper(open, X)]
<1>1. IsFiniteSet(A) /\ Cardinality(A) \in Nat /\ count \in Nat /\ Cardinality(A) - 1 <= count
  <2> DEFINE names == {s.name : s \in open}
             name == [s \in open |-> s.name]
  <2>1. name \in Surjection(open, names)
    BY DEF Surjection
  <2>2. IsFiniteSet(names) /\ Cardinality(names) <= count /\ count \in Nat /\ Cardinality(names) \in Nat
    <3> HIDE DEF names, name
    <3> QED  BY <2>1, FS_Surjection, FS_CardinalityType
  <2>3. A = names \cup {Top}
    BY DEF LevelNames
  <2>4. IsFiniteSet(A) /\ Cardinality(A) \in {Cardinality(names), Cardinality(names) + 1}
    <3> HIDE DEF names, A
    <3> QED  BY <2>2, <2>3, FS_AddElement
  <2> HIDE DEF names, A
  <2> QED  BY <2>2, <2>4
<1>2. PICK g \in [Nat -> SUBSET A] :
        /\ Levels(open) = g[count]
        /\ g[0] = {Top} /\ \A n \in Nat : g[n + 1] = g[n] \cup Deeper(open, g[n])
  <2>1. A = LevelNames(open)
    OBVIOUS
  <2> HIDE DEF A
  <2> QED  BY <2>1, LevelSteps
<1>3. \A X : Deeper(open, X) \subseteq A
  BY DEF Deeper, LevelNames
<1> HIDE DEF A, count
<1>4. Grows(A, g, more)
  BY <1>1, <1>2, <1>3 DEF Grows
<1>5. more[g[count]] \subseteq g[count] /\ g[0] \subseteq g[count]
  BY <1>1, <1>4, ClosureIs DEF Stops
<1>6. more[g[count]] = Deeper(open, g[count])
  BY <1>1, <1>2
<1>7. \A s \in open : s.in \in g[count] => s.name \in g[count]
  BY <1>5, <1>6 DEF Deeper
<1>8. ASSUME NEW C, Top \in C, \A s \in open : s.in \in C => s.name \in C
      PROVE  g[count] \subseteq C
  <2>1. g[0] \subseteq C /\ \A X \in SUBSET A : X \subseteq C => more[X] \subseteq C
    BY <1>2, <1>8 DEF Deeper
  <2> HIDE DEF more
  <2> QED  BY <1>1, <1>4, <2>1, ClosureIs DEF Least
<1> QED  BY <1>2, <1>5, <1>7, <1>8

Holders == {"map", "parallel"}

LEMMA NestedAre ==
  ASSUME NEW states, IsFiniteSet(states)
  PROVE  /\ Top \in Nested(states)
         /\ \A s \in states : s.in \in Nested(states) /\ s.type \in Holders => s.name \in Nested(states)
         /\ \A C : Top \in C /\ (\A s \in states : s.in \in C /\ s.type \in Holders => s.name \in C)
                   => Nested(states) \subseteq C
<1> DEFINE open == {s \in states : s.type \in Holders}
<1>1. IsFiniteSet(open)
  BY FS_Subset
<1>2. Nested(states) = Levels(open)
  BY DEF Nested, Holders
<1>3. \A s : s \in open <=> s \in states /\ s.type \in Holders
  OBVIOUS
<1> HIDE DEF open
<1> QED  BY <1>1, <1>2, <1>3, LevelsAre

(* States that are nested alike.                                            *)
LEMMA NestedAlike ==
  ASSUME NEW states, NEW other, IsFiniteSet(states), IsFiniteSet(other),
         \A s \in states : s.type \in Holders => \E x \in other : x.name = s.name /\ x.in = s.in /\ x.type = s.type
  PROVE  Nested(states) \subseteq Nested(other)
<1>1. \A s \in states : s.in \in Nested(other) /\ s.type \in Holders => s.name \in Nested(other)
  BY NestedAre
<1> QED  BY <1>1, NestedAre

-----------------------------------------------------------------------------
(* A definition that Step Functions takes, and a flow that was drawn after    *)
(* one and changed by hand: a name is of one state, every state is nested   *)
(* in Top, and the flow has no final state.                                 *)
NamesAreUnique(states) == \A s, x \in states : s.name = x.name => s = x

IsDefinition(machine) ==
  /\ machine = [start |-> machine.start, states |-> machine.states]
  /\ IsFiniteSet(machine.states) /\ NamesAreUnique(machine.states)
  /\ WellFormed(machine) /\ \A s \in machine.states : Proper(s)

IsAuthored(a) ==
  /\ a = [name |-> a.name, in |-> a.in, type |-> a.type, concurrency |-> a.concurrency, handler |-> a.handler,
          arrows |-> a.arrows]
  /\ a.type \in DOMAIN ArrowKinds \ Terminal
  /\ \A r \in a.arrows : r.kind \in {"next", "catch"} \cup ArrowKinds[a.type]

IsFlow(machine) ==
  /\ machine = [start |-> machine.start, states |-> machine.states]
  /\ IsFiniteSet(machine.states) /\ NamesAreUnique(machine.states)
  /\ \A a \in machine.states : IsAuthored(a) /\ a.in \in Nested(machine.states)

MachineInv == IsDefinition(definition) /\ IsFlow(authored)

LEMMA DrawIs ==
  ASSUME NEW s
  PROVE  /\ Draw(s).name = s.name /\ Draw(s).in = s.in /\ Draw(s).type = s.type
         /\ Draw(s).concurrency = s.concurrency /\ Draw(s).handler = s.handler
         /\ Draw(s).arrows \subseteq s.arrows
         /\ Draw(s) = [name |-> Draw(s).name, in |-> Draw(s).in, type |-> Draw(s).type,
                       concurrency |-> Draw(s).concurrency, handler |-> Draw(s).handler, arrows |-> Draw(s).arrows]
<1>1. \A set : OneOf(set) \subseteq set
  BY DEF OneOf
<1> QED  BY <1>1 DEF Draw

LEMMA DrawingIsAFlow == ASSUME IsDefinition(definition) PROVE IsFlow(Drawing)
<1> USE DEF IsDefinition
<1> DEFINE drawn == {x \in definition.states : x.type \notin Terminal}
           states == {Draw(s) : s \in drawn}
<1>1. Drawing = [start |-> definition.start, states |-> states]
  BY DEF Drawing
<1>2. IsFiniteSet(states)
  <2>1. IsFiniteSet(drawn)
    BY FS_Subset
  <2> DEFINE draw == [s \in drawn |-> Draw(s)]
  <2>2. draw \in Surjection(drawn, states)
    BY DEF Surjection
  <2> HIDE DEF draw, drawn, states
  <2> QED  BY <2>1, <2>2, FS_Surjection
<1>3. \A a \in states : \E s \in drawn : a = Draw(s)
  OBVIOUS
<1>4. \A s \in drawn : s \in definition.states /\ s.type \notin Terminal /\ Draw(s) \in states
  OBVIOUS
<1> HIDE DEF drawn, states
<1>5. NamesAreUnique(states)
  BY <1>3, <1>4, DrawIs DEF NamesAreUnique
<1>6. \A a \in states : IsAuthored(a)
  <2> SUFFICES ASSUME NEW a \in states PROVE IsAuthored(a)
    OBVIOUS
  <2>1. PICK s \in drawn : a = Draw(s)
    BY <1>3
  <2>2. s \in definition.states /\ s.type \notin Terminal /\ Proper(s)
    BY <1>4
  <2>3. a.type = s.type /\ a.arrows \subseteq s.arrows
    BY <2>1, DrawIs
  <2>4. a = [name |-> a.name, in |-> a.in, type |-> a.type, concurrency |-> a.concurrency, handler |-> a.handler,
             arrows |-> a.arrows]
    BY <2>1, DrawIs
  <2> QED  BY <2>2, <2>3, <2>4 DEF IsAuthored, Proper
<1>7. Nested(definition.states) \subseteq Nested(states)
  <2>1. ASSUME NEW s \in definition.states, s.type \in Holders
        PROVE  Draw(s) \in states
    <3>1. s \in drawn
      BY <2>1 DEF drawn, Holders, Terminal
    <3> QED  BY <1>4, <3>1
  <2>2. \A s \in definition.states : s.type \in Holders =>
          \E x \in states : x.name = s.name /\ x.in = s.in /\ x.type = s.type
    BY <2>1, DrawIs
  <2> QED  BY <1>2, <2>2, NestedAlike
<1>8. \A a \in states : a.in \in Nested(states)
  BY <1>3, <1>4, <1>7, DrawIs DEF WellFormed
<1> QED  BY <1>1, <1>2, <1>5, <1>6, <1>8 DEF IsFlow

LEMMA FirstIsADefinition == IsDefinition(FirstMachine)
BY MachineAssumption DEF IsDefinition, NamesAreUnique

LEMMA WithOtherArrows ==
  ASSUME NEW a, NEW arrows, IsAuthored(a)
  PROVE  [a EXCEPT !.arrows = arrows] =
           [name |-> a.name, in |-> a.in, type |-> a.type, concurrency |-> a.concurrency, handler |-> a.handler,
            arrows |-> arrows]
BY DEF IsAuthored

LEMMA WithOtherStates ==
  ASSUME NEW machine, NEW states, machine = [start |-> machine.start, states |-> machine.states]
  PROVE  [machine EXCEPT !.states = states] = [start |-> machine.start, states |-> states]
OBVIOUS

LEMMA FlowChangesKeeps ==
  ASSUME IsFlow(authored), NEW a \in authored.states, NEW kind \in {"next", "catch"}, NEW name,
         FlowChanges(a, Arrow(kind, name))
  PROVE  IsFlow(authored')
<1> DEFINE r == Arrow(kind, name)
           b == [a EXCEPT !.arrows = IF r \in @ THEN @ \ {r} ELSE {x \in @ : x.kind # r.kind} \cup {r}]
           states == (authored.states \ {a}) \cup {b}
<1>1. r.kind = kind
  BY DEF Arrow
<1>2. authored' = [start |-> authored.start, states |-> states]
  BY DEF FlowChanges, IsFlow
<1>3. IsAuthored(a)
  BY DEF IsFlow
<1>4. /\ b.name = a.name /\ b.in = a.in /\ b.type = a.type /\ IsAuthored(b)
  <2>1. b = [name |-> a.name, in |-> a.in, type |-> a.type, concurrency |-> a.concurrency, handler |-> a.handler,
             arrows |-> IF r \in a.arrows THEN a.arrows \ {r} ELSE {x \in a.arrows : x.kind # r.kind} \cup {r}]
    <3> DEFINE arrows == IF r \in a.arrows THEN a.arrows \ {r} ELSE {x \in a.arrows : x.kind # r.kind} \cup {r}
    <3>1. b = [a EXCEPT !.arrows = arrows]
      OBVIOUS
    <3> HIDE DEF b, arrows
    <3>2. b = [name |-> a.name, in |-> a.in, type |-> a.type, concurrency |-> a.concurrency, handler |-> a.handler,
               arrows |-> arrows]
      BY <1>3, <3>1, WithOtherArrows
    <3> QED  BY <3>2 DEF arrows
  <2> HIDE DEF b
  <2>2. b.name = a.name /\ b.in = a.in /\ b.type = a.type
    BY <2>1
  <2>3. \A x \in b.arrows : x \in a.arrows \/ x.kind \in {"next", "catch"}
    BY <1>1, <2>1
  <2>4. b = [name |-> b.name, in |-> b.in, type |-> b.type, concurrency |-> b.concurrency, handler |-> b.handler,
             arrows |-> b.arrows]
    BY <2>1
  <2> QED  BY <1>3, <2>2, <2>3, <2>4 DEF IsAuthored
<1> HIDE DEF b, r
<1>5. IsFiniteSet(states)
  <2>1. IsFiniteSet(authored.states \ {a})
    BY FS_Subset DEF IsFlow
  <2> QED  BY <2>1, FS_AddElement
<1>6. NamesAreUnique(states)
  BY <1>4 DEF IsFlow, NamesAreUnique
<1>7. Nested(authored.states) \subseteq Nested(states)
  <2>1. \A s \in authored.states : \E x \in states : x.name = s.name /\ x.in = s.in /\ x.type = s.type
    BY <1>4
  <2> HIDE DEF states
  <2> QED  BY <1>5, <2>1, NestedAlike DEF IsFlow
<1>8. \A x \in states : IsAuthored(x) /\ x.in \in Nested(states)
  BY <1>4, <1>7 DEF IsFlow
<1> QED  BY <1>2, <1>5, <1>6, <1>8 DEF IsFlow

LEMMA DefinitionBecomesKeeps ==
  ASSUME IsDefinition(definition), NEW start, NEW states, DefinitionBecomes([start |-> start, states |-> states]),
         IsFiniteSet(states), NamesAreUnique(states), \A s \in states : Proper(s)
  PROVE  IsDefinition(definition')
BY DEF DefinitionBecomes, IsDefinition

LEMMA MachineInitInv == MachineInit => MachineInv
BY FirstIsADefinition, DrawingIsAFlow DEF MachineInit, MachineInv

LEMMA MachineNextInv == MachineInv /\ [MachineNext]_machineVars => MachineInv'
<1> SUFFICES ASSUME MachineInv, [MachineNext]_machineVars PROVE MachineInv'
  OBVIOUS
<1>0. IsDefinition(definition) /\ IsFlow(authored)
  BY DEF MachineInv
<1> DEFINE same == UNCHANGED definition
<1>1. CASE Author
  BY <1>0, <1>1, DrawingIsAFlow DEF Author, MachineInv
<1>2. ASSUME NEW s \in CodeStates, DefinitionChanges(s) PROVE MachineInv'
  <2> DEFINE states == {x \in definition.states : x.name # s.name} \cup {s}
  <2>1. /\ DefinitionBecomes([start |-> definition.start, states |-> states]) /\ UNCHANGED authored
    <3>1. DefinitionBecomes([definition EXCEPT !.states = states])
      BY <1>2 DEF DefinitionChanges
    <3> HIDE DEF states
    <3>2. [definition EXCEPT !.states = states] = [start |-> definition.start, states |-> states]
      BY <1>0, WithOtherStates DEF IsDefinition
    <3>3. DefinitionBecomes([start |-> definition.start, states |-> states])
      BY <3>1, <3>2
    <3> QED  BY <3>3 DEF DefinitionBecomes
  <2>2. IsFiniteSet(states)
    <3>1. IsFiniteSet({x \in definition.states : x.name # s.name})
      BY <1>0, FS_Subset DEF IsDefinition
    <3> QED  BY <3>1, FS_AddElement
  <2>3. NamesAreUnique(states) /\ \A x \in states : Proper(x)
    BY <1>0, MachineAssumption DEF IsDefinition, NamesAreUnique
  <2> HIDE DEF states
  <2> QED  BY <1>0, <2>1, <2>2, <2>3, DefinitionBecomesKeeps DEF MachineInv
<1>3. ASSUME NEW s \in CodeStates, DefinitionLoses(s) PROVE MachineInv'
  <2> DEFINE states == {x \in definition.states : s.name \notin {x.name, x.in}}
  <2>1. /\ DefinitionBecomes([start |-> definition.start, states |-> states]) /\ UNCHANGED authored
    <3>1. DefinitionBecomes([definition EXCEPT !.states = states])
      BY <1>3 DEF DefinitionLoses
    <3> HIDE DEF states
    <3>2. [definition EXCEPT !.states = states] = [start |-> definition.start, states |-> states]
      BY <1>0, WithOtherStates DEF IsDefinition
    <3>3. DefinitionBecomes([start |-> definition.start, states |-> states])
      BY <3>1, <3>2
    <3> QED  BY <3>3 DEF DefinitionBecomes
  <2>2. IsFiniteSet(states)
    BY <1>0, FS_Subset DEF IsDefinition
  <2>3. NamesAreUnique(states) /\ \A x \in states : Proper(x)
    BY <1>0 DEF IsDefinition, NamesAreUnique
  <2> HIDE DEF states
  <2> QED  BY <1>0, <2>1, <2>2, <2>3, DefinitionBecomesKeeps DEF MachineInv
<1>4. ASSUME NEW name \in Starts, DefinitionStarts(name) PROVE MachineInv'
  <2>1. DefinitionBecomes([start |-> name, states |-> definition.states]) /\ UNCHANGED authored
    BY <1>0, <1>4 DEF DefinitionStarts, DefinitionBecomes, IsDefinition
  <2>2. /\ IsFiniteSet(definition.states) /\ NamesAreUnique(definition.states)
        /\ \A s \in definition.states : Proper(s)
    BY <1>0 DEF IsDefinition
  <2> QED  BY <1>0, <2>1, <2>2, DefinitionBecomesKeeps DEF MachineInv
<1>5. CASE SourceMoves
  BY <1>0, <1>5 DEF SourceMoves, MachineInv
<1>6. ASSUME NEW a \in authored.states, NEW kind \in {"next", "catch"}, NEW name \in Starts,
             FlowChanges(a, Arrow(kind, name))
      PROVE  MachineInv'
  <2>1. IsFlow(authored')
    BY <1>0, <1>6, FlowChangesKeeps
  <2>2. definition' = definition
    BY <1>6 DEF FlowChanges
  <2> QED  BY <1>0, <2>1, <2>2 DEF MachineInv
<1>7. CASE UNCHANGED machineVars
  BY <1>0, <1>7 DEF machineVars, MachineInv
<1> QED  BY <1>1, <1>2, <1>3, <1>4, <1>5, <1>6, <1>7 DEF MachineNext

-----------------------------------------------------------------------------
(* The arrows of a kind are those of a type, in the definition and in the    *)
(* flow.                                                                    *)
LEMMA ArrowKindsAre ==
  /\ DOMAIN ArrowKinds = {"task", "map", "parallel", "choice", "pass", "wait", "succeed", "fail"}
  /\ \A type \in DOMAIN ArrowKinds :
       /\ "next" \in ArrowKinds[type] => type # "choice"
       /\ "default" \in ArrowKinds[type] \/ "choice" \in ArrowKinds[type] => type = "choice"
       /\ "start" \in ArrowKinds[type] => type = "map"
       /\ "branch" \in ArrowKinds[type] => type = "parallel"
<1>1. DOMAIN ArrowKinds = {"task", "map", "parallel", "choice", "pass", "wait", "succeed", "fail"}
  BY DEF ArrowKinds
<1>2. /\ ArrowKinds["task"] = {"next", "catch"} /\ ArrowKinds["map"] = {"next", "catch", "start"}
      /\ ArrowKinds["parallel"] = {"next", "catch", "branch"} /\ ArrowKinds["choice"] = {"default", "choice"}
      /\ ArrowKinds["pass"] = {"next"} /\ ArrowKinds["wait"] = {"next"} /\ ArrowKinds["succeed"] = {} /\ ArrowKinds["fail"] = {}
  BY DEF ArrowKinds
<1> QED  BY <1>1, <1>2

(* States that have the arrows of others have their ways.                   *)
LEMMA WaysAreHad ==
  ASSUME NEW X, NEW Y, NEW kinds, NEW final,
         \A x \in X : \E y \in Y : y.name = x.name /\ \A r \in x.arrows : r.kind \in kinds /\ r.to \notin final => r \in y.arrows
  PROVE  \A w \in Ways(X, kinds) : w[3] \notin final => w \in Ways(Y, kinds)
<1> SUFFICES ASSUME NEW w \in Ways(X, kinds), w[3] \notin final PROVE w \in Ways(Y, kinds)
  OBVIOUS
<1>1. PICK x \in X : w \in Drawn(x, kinds)
  BY DEF Ways
<1>2. PICK r \in x.arrows : r.kind \in kinds /\ w = <<x.name, r.kind, r.to, r.count>>
  BY <1>1 DEF Drawn
<1>3. PICK y \in Y : y.name = x.name /\ \A q \in x.arrows : q.kind \in kinds /\ q.to \notin final => q \in y.arrows
  OBVIOUS
<1>4. r \in y.arrows
  BY <1>2, <1>3
<1>5. w \in Drawn(y, kinds)
  BY <1>2, <1>3, <1>4 DEF Drawn
<1> QED  BY <1>5 DEF Ways

(* The names in the ways of states are those of the states with an arrow.    *)
LEMMA WaysAreNamed ==
  ASSUME NEW states, NEW kind
  PROVE  {w[1] : w \in Ways(states, {kind})} = {s.name : s \in {x \in states : To(x, kind) # {}}}
<1>1. ASSUME NEW w \in Ways(states, {kind}) PROVE \E s \in states : To(s, kind) # {} /\ w[1] = s.name
  <2>1. PICK s \in states : w \in Drawn(s, {kind})
    BY DEF Ways
  <2>2. PICK r \in s.arrows : r.kind = kind /\ w = <<s.name, r.kind, r.to, r.count>>
    BY <2>1 DEF Drawn
  <2> QED  BY <2>2 DEF To
<1>2. ASSUME NEW s \in states, To(s, kind) # {} PROVE \E w \in Ways(states, {kind}) : w[1] = s.name
  <2>1. PICK r \in s.arrows : r.kind = kind
    BY <1>2 DEF To
  <2> DEFINE w == <<s.name, r.kind, r.to, r.count>>
  <2>2. w \in Drawn(s, {kind})
    BY <2>1 DEF Drawn
  <2>3. w \in Ways(states, {kind}) /\ w[1] = s.name
    BY <2>2 DEF Ways
  <2> QED  BY <2>3
<1> QED  BY <1>1, <1>2

OnFlow == {"next", "default", "choice", "start", "branch"}

(* A state of the flow and one of the definition between which the check     *)
(* finds no difference.                                                     *)
Twins(a, s) ==
  /\ a \in authored.states /\ s \in definition.states
  /\ s.name = a.name /\ s.in = a.in /\ s.type = a.type
  /\ Differences(a, s, Level(definition.states, a.in)) = {}

LEMMA TwinsHave ==
  ASSUME MachineInv, NEW a, NEW s, Twins(a, s)
  PROVE  /\ ~NextDiffers(a, s, Level(definition.states, a.in)) /\ ~CatchesDiffer(a, s)
         /\ a.type = "choice" => To(s, "default") = To(a, "default") /\ To(s, "choice") = To(a, "choice")
         /\ a.type = "map" => To(s, "start") = To(a, "start") /\ s.concurrency = a.concurrency
         /\ a.type = "parallel" => To(s, "branch") = To(a, "branch")
         /\ a.type = "task" /\ a.handler # Absent => s.handler = a.handler
<1> DEFINE here == Level(definition.states, a.in)
<1>1. Differences(a, s, here) = {}
  BY DEF Twins
<1> HIDE DEF here
<1>2. ~NextDiffers(a, s, here) /\ ~CatchesDiffer(a, s)
  BY <1>1 DEF Differences
<1>3. a.type = "choice" => To(s, "default") = To(a, "default") /\ To(s, "choice") = To(a, "choice")
  BY <1>1 DEF Differences
<1>4. a.type = "map" => To(s, "start") = To(a, "start") /\ s.concurrency = a.concurrency
  BY <1>1 DEF Differences
<1>5. a.type = "parallel" => To(s, "branch") = To(a, "branch")
  BY <1>1 DEF Differences
<1>6. a.type = "task" /\ a.handler # Absent => s.handler = a.handler
  BY <1>1 DEF Differences
<1> QED  BY <1>2, <1>3, <1>4, <1>5, <1>6 DEF here

LEMMA TwinsGoTheSameWays ==
  ASSUME MachineInv, NEW a, NEW s, Twins(a, s),
         NEW r, r.kind \in OnFlow, r.to \notin TerminalNames(definition.states)
  PROVE  r \in a.arrows <=> r \in s.arrows
<1>1. IsAuthored(a) /\ Proper(s) /\ s.type = a.type
  BY DEF MachineInv, IsFlow, IsDefinition, Twins
<1>2. \A q \in a.arrows \cup s.arrows : q.kind \in {"next", "catch"} \cup ArrowKinds[a.type]
  BY <1>1 DEF IsAuthored, Proper
<1>3. a.type \in DOMAIN ArrowKinds
  BY <1>1 DEF IsAuthored
<1>4. r \in To(a, r.kind) \cup To(s, r.kind) => r.kind \in {"next"} \cup ArrowKinds[a.type]
  BY <1>2 DEF To, OnFlow
<1>5. CASE r.kind \in {"default", "choice"}
  BY <1>3, <1>4, <1>5, TwinsHave, ArrowKindsAre DEF To
<1>6. CASE r.kind = "start"
  BY <1>3, <1>4, <1>6, TwinsHave, ArrowKindsAre DEF To
<1>7. CASE r.kind = "branch"
  BY <1>3, <1>4, <1>7, TwinsHave, ArrowKindsAre DEF To
<1>8. CASE r.kind = "next"
  <2> DEFINE here == Level(definition.states, a.in)
  <2>1. ~NextDiffers(a, s, here)
    BY TwinsHave
  <2>2. CASE To(a, "next") # {}
    BY <1>8, <2>1, <2>2 DEF NextDiffers, To
  <2>3. CASE To(a, "next") = {}
    <3>1. r \notin a.arrows
      BY <1>8, <2>3 DEF To
    <3>2. ASSUME r \in s.arrows PROVE FALSE
      <4>1. r \in To(s, "next")
        BY <1>8, <3>2 DEF To
      <4>2. ~s.end /\ s.type # "choice"
        BY <1>1, <1>3, <1>8, <3>2, <4>1, ArrowKindsAre DEF Proper
      <4>3. PICK q \in To(s, "next") : q.to \in TerminalNames(here)
        BY <1>1, <2>1, <2>3, <4>2 DEF NextDiffers
      <4>4. q = r
        BY <1>1, <4>1, <4>3 DEF Proper
      <4>5. TerminalNames(here) \subseteq TerminalNames(definition.states)
        BY DEF TerminalNames, Level
      <4> QED  BY <4>3, <4>4, <4>5
    <3> QED  BY <3>1, <3>2
  <2> QED  BY <2>2, <2>3
<1> QED  BY <1>5, <1>6, <1>7, <1>8 DEF OnFlow

LEMMA TwinsCatchAlike ==
  ASSUME MachineInv, NEW a, NEW s, Twins(a, s)
  PROVE  To(a, "catch") \subseteq To(s, "catch") /\ (To(a, "catch") = {} <=> To(s, "catch") = {})
<1>1. ~CatchesDiffer(a, s)
  BY TwinsHave
<1> QED  BY <1>1 DEF CatchesDiffer, To

-----------------------------------------------------------------------------
(* A level without a finding.                                               *)
LEMMA ClearLevel ==
  ASSUME Source = definition.states, NEW in, LevelDrift(in) = {}
  PROVE  /\ \A a \in authored.states : a.in = in => \E s \in definition.states : Twins(a, s)
         /\ \A s \in definition.states : s.in = in /\ s.type \notin Terminal =>
              \E a \in authored.states : a.in = in /\ a.name = s.name
<1> DEFINE here == Level(Source, in)
           mine == Level(authored.states, in)
<1>1. /\ \A a \in mine : StateFindings(a, here) = {}
      /\ {s \in here : s.type \notin Terminal /\ s.name \notin {a.name : a \in mine}} = {}
  <2> DEFINE unauthored == {s \in here : s.type \notin Terminal /\ s.name \notin {a.name : a \in mine}}
             theirs == UNION {StateFindings(a, here) : a \in mine}
             noted == {<<s.name, "not authored">> : s \in unauthored}
  <2>1. LevelDrift(in) = theirs \cup noted
    BY DEF LevelDrift
  <2>2. \A a \in mine : StateFindings(a, here) \subseteq theirs
    <3> HIDE DEF mine, here
    <3> QED  OBVIOUS
  <2>3. \A s \in unauthored : <<s.name, "not authored">> \in noted
    <3> HIDE DEF unauthored
    <3> QED  OBVIOUS
  <2> HIDE DEF unauthored, mine, here, theirs, noted
  <2>4. unauthored = {}
    BY <2>1, <2>3
  <2>5. \A a \in mine : StateFindings(a, here) = {}
    BY <2>1, <2>2
  <2> QED  BY <2>4, <2>5 DEF unauthored
<1>2. ASSUME NEW a \in authored.states, a.in = in PROVE \E s \in definition.states : Twins(a, s)
  <2>1. StateFindings(a, here) = {}
    BY <1>1, <1>2 DEF Level
  <2> HIDE DEF here
  <2>2. a.name \in {s.name : s \in here}
    BY <2>1 DEF StateFindings
  <2> DEFINE s == Named(here, a.name)
  <2>3. s \in here /\ s.name = a.name
    BY <2>2 DEF Named
  <2>4. s.type = a.type /\ Differences(a, s, here) = {}
    <3> HIDE DEF s
    <3>1. StateFindings(a, here) = IF s.type # a.type THEN {<<a.name, "type">>}
                                    ELSE {<<a.name, kind>> : kind \in Differences(a, s, here)}
      BY <2>2 DEF StateFindings, s
    <3> QED  BY <2>1, <3>1
  <2>5. s \in definition.states /\ s.in = in
    BY <2>3 DEF Level, here
  <2>6. Twins(a, s)
    <3> HIDE DEF s
    <3> QED  BY <1>2, <2>3, <2>4, <2>5 DEF Twins, here
  <2> QED  BY <2>5, <2>6
<1>3. ASSUME NEW s \in definition.states, s.in = in, s.type \notin Terminal
      PROVE  \E a \in authored.states : a.in = in /\ a.name = s.name
  BY <1>1, <1>3 DEF Level
<1> QED  BY <1>2, <1>3

LEMMA ClearFindings ==
  ASSUME source # "not checked out", MachineFindings = {}
  PROVE  /\ Source = definition.states /\ definition.start = authored.start
         /\ \A in \in Compared : LevelDrift(in) = {}
<1>1. source # "no definition"
  BY DEF MachineFindings
<1>2. Unresolved = {} /\ definition.start = authored.start /\ Drift = {}
  BY <1>1 DEF MachineFindings
<1> QED  BY <1>2 DEF Unresolved, Source, Drift

(* All levels are compared, from the outermost one inwards: each state that  *)
(* is open in either is one that matches.                                   *)
LEMMA AllLevelsAreCompared ==
  ASSUME MachineInv, source # "not checked out", MachineFindings = {}
  PROVE  /\ \A a \in authored.states : a.in \in Compared
         /\ \A s \in definition.states : s.in \in Compared
<1> DEFINE open == {a \in authored.states : Matches(a, Level(Source, a.in))}
<1>1. IsFiniteSet(open) /\ IsFiniteSet(authored.states) /\ IsFiniteSet(definition.states)
  BY FS_Subset DEF MachineInv, IsFlow, IsDefinition
<1>2. Compared = Levels(open)
  BY DEF Compared
<1>3. \A a \in authored.states : \A s \in definition.states : Twins(a, s) => a \in open
  BY ClearFindings DEF Twins, Matches, Level
<1> HIDE DEF open
<1>4. Top \in Compared /\ \A a \in open : a.in \in Compared => a.name \in Compared
  BY <1>1, <1>2, LevelsAre
<1>5. \A a \in authored.states : a.in \in Compared => a \in open
  BY <1>3, ClearFindings, ClearLevel
<1>6. Nested(authored.states) \subseteq Compared
  BY <1>1, <1>4, <1>5, NestedAre
<1>7. ASSUME NEW s \in definition.states, s.in \in Compared, s.type \in Holders PROVE s.name \in Compared
  <2>1. s.type \notin Terminal
    BY <1>7 DEF Holders, Terminal
  <2>2. PICK a \in authored.states : a.in = s.in /\ a.name = s.name
    BY <1>7, <2>1, ClearFindings, ClearLevel
  <2> QED  BY <1>4, <1>5, <1>7, <2>2
<1>8. Nested(definition.states) \subseteq Compared
  BY <1>1, <1>4, <1>7, NestedAre
<1>9. /\ \A a \in authored.states : a.in \in Nested(authored.states)
      /\ \A s \in definition.states : s.in \in Nested(definition.states)
  BY DEF MachineInv, IsFlow, IsDefinition, WellFormed
<1> QED  BY <1>6, <1>8, <1>9

LEMMA ClearStatesAreTwins ==
  ASSUME MachineInv, source # "not checked out", MachineFindings = {}
  PROVE  /\ \A a \in authored.states : \E s \in Running : Twins(a, s)
         /\ \A s \in Running : \E a \in authored.states : Twins(a, s)
<1>1. \A a \in authored.states : \E s \in definition.states : Twins(a, s)
  BY AllLevelsAreCompared, ClearFindings, ClearLevel
<1>2. \A a \in authored.states : a.type \notin Terminal
  BY DEF MachineInv, IsFlow, IsAuthored
<1>3. \A a \in authored.states : \E s \in Running : Twins(a, s)
  BY <1>1, <1>2 DEF Running, Twins
<1>4. ASSUME NEW s \in Running PROVE \E a \in authored.states : Twins(a, s)
  <2>1. s \in definition.states /\ s.type \notin Terminal
    BY DEF Running
  <2>2. PICK a \in authored.states : a.in = s.in /\ a.name = s.name
    BY <2>1, AllLevelsAreCompared, ClearFindings, ClearLevel
  <2>3. PICK x \in definition.states : Twins(a, x)
    BY <1>1
  <2>4. x = s
    BY <2>1, <2>2, <2>3 DEF Twins, MachineInv, IsDefinition, NamesAreUnique
  <2> QED  BY <2>3, <2>4
<1> QED  BY <1>3, <1>4

-----------------------------------------------------------------------------
(* Without a finding the flow is the one that runs.                         *)
LEMMA CleanIsTheCode == ASSUME MachineInv PROVE CleanMachineIsTheCode
<1> SUFFICES ASSUME source # "not checked out", MachineFindings = {}
             PROVE  /\ {Shape(a) : a \in authored.states} = {Shape(s) : s \in Running}
                    /\ authored.start = definition.start
                    /\ WaysOn(authored.states) = WaysOn(Running)
                    /\ Ways(authored.states, {"catch"}) \subseteq Ways(Running, {"catch"})
                    /\ {w[1] : w \in Ways(authored.states, {"catch"})} = {w[1] : w \in Ways(Running, {"catch"})}
                    /\ \A a \in authored.states : \A s \in Running :
                         a.name = s.name /\ a.type = "task" /\ a.handler # Absent => a.handler = s.handler
  BY DEF CleanMachineIsTheCode
<1>1. /\ \A a \in authored.states : \E s \in Running : Twins(a, s)
      /\ \A s \in Running : \E a \in authored.states : Twins(a, s)
  BY ClearStatesAreTwins
<1>2. {Shape(a) : a \in authored.states} = {Shape(s) : s \in Running}
  <2>1. ASSUME NEW a, NEW s, Twins(a, s) PROVE Shape(a) = Shape(s)
    BY <2>1, TwinsHave DEF Shape, Twins
  <2>2. ASSUME NEW a \in authored.states PROVE \E s \in Running : Shape(a) = Shape(s)
    BY <1>1, <2>1
  <2>3. ASSUME NEW s \in Running PROVE \E a \in authored.states : Shape(a) = Shape(s)
    BY <1>1, <2>1
  <2> HIDE DEF Shape
  <2>4. {Shape(a) : a \in authored.states} \subseteq {Shape(s) : s \in Running}
    <3> SUFFICES ASSUME NEW a \in authored.states PROVE Shape(a) \in {Shape(s) : s \in Running}
      OBVIOUS
    <3>1. PICK s \in Running : Shape(a) = Shape(s)
      BY <2>2
    <3> QED  BY <3>1
  <2>5. {Shape(s) : s \in Running} \subseteq {Shape(a) : a \in authored.states}
    <3> SUFFICES ASSUME NEW s \in Running PROVE Shape(s) \in {Shape(a) : a \in authored.states}
      OBVIOUS
    <3>1. PICK a \in authored.states : Shape(a) = Shape(s)
      BY <2>3
    <3> QED  BY <3>1
  <2> QED  BY <2>4, <2>5
<1>3. authored.start = definition.start
  BY ClearFindings
<1>4. WaysOn(authored.states) = WaysOn(Running)
  <2> DEFINE final == TerminalNames(definition.states)
  <2>1. \A states : WaysOn(states) = {w \in Ways(states, OnFlow) : w[3] \notin final}
    BY DEF WaysOn, OnFlow
  <2>2. ASSUME NEW a, NEW s, Twins(a, s)
        PROVE  s.name = a.name /\ \A r : r.kind \in OnFlow /\ r.to \notin final => (r \in a.arrows <=> r \in s.arrows)
    BY <2>2, TwinsGoTheSameWays DEF Twins
  <2> HIDE DEF final
  <2>3. \A w \in Ways(authored.states, OnFlow) : w[3] \notin final => w \in Ways(Running, OnFlow)
    <3>1. \A a \in authored.states : \E s \in Running :
            s.name = a.name /\ \A r \in a.arrows : r.kind \in OnFlow /\ r.to \notin final => r \in s.arrows
      BY <1>1, <2>2
    <3> QED  BY <3>1, WaysAreHad
  <2>4. \A w \in Ways(Running, OnFlow) : w[3] \notin final => w \in Ways(authored.states, OnFlow)
    <3>1. \A s \in Running : \E a \in authored.states :
            a.name = s.name /\ \A r \in s.arrows : r.kind \in OnFlow /\ r.to \notin final => r \in a.arrows
      BY <1>1, <2>2
    <3> QED  BY <3>1, WaysAreHad
  <2> QED  BY <2>1, <2>3, <2>4
<1>5. ASSUME NEW a, NEW s, Twins(a, s)
      PROVE  s.name = a.name /\ To(a, "catch") \subseteq To(s, "catch") /\ (To(a, "catch") = {} <=> To(s, "catch") = {})
  BY <1>5, TwinsCatchAlike DEF Twins
<1>6. Ways(authored.states, {"catch"}) \subseteq Ways(Running, {"catch"})
  <2> DEFINE kinds == {"catch"}
             none == {}
  <2>1. \A a \in authored.states : \E s \in Running :
          s.name = a.name /\ \A r \in a.arrows : r.kind \in kinds /\ r.to \notin none => r \in s.arrows
    BY <1>1, <1>5 DEF To
  <2>2. \A w : w[3] \notin none
    OBVIOUS
  <2> HIDE DEF kinds, none
  <2>3. \A w \in Ways(authored.states, kinds) : w[3] \notin none => w \in Ways(Running, kinds)
    BY <2>1, WaysAreHad
  <2>4. Ways(authored.states, kinds) \subseteq Ways(Running, kinds)
    BY <2>2, <2>3
  <2> QED  BY <2>4 DEF kinds
<1>7. {w[1] : w \in Ways(authored.states, {"catch"})} = {w[1] : w \in Ways(Running, {"catch"})}
  <2> DEFINE catching(states) == {s.name : s \in {x \in states : To(x, "catch") # {}}}
  <2>1. \A a \in authored.states : \E s \in Running : s.name = a.name /\ (To(a, "catch") = {} <=> To(s, "catch") = {})
    BY <1>1, <1>5
  <2>2. \A s \in Running : \E a \in authored.states : s.name = a.name /\ (To(a, "catch") = {} <=> To(s, "catch") = {})
    BY <1>1, <1>5
  <2>3. catching(authored.states) = catching(Running)
    <3>1. ASSUME NEW a \in authored.states, To(a, "catch") # {} PROVE a.name \in catching(Running)
      <4>1. PICK s \in Running : s.name = a.name /\ (To(a, "catch") = {} <=> To(s, "catch") = {})
        BY <2>1
      <4> QED  BY <3>1, <4>1
    <3>2. ASSUME NEW s \in Running, To(s, "catch") # {} PROVE s.name \in catching(authored.states)
      <4>1. PICK a \in authored.states : s.name = a.name /\ (To(a, "catch") = {} <=> To(s, "catch") = {})
        BY <2>2
      <4> QED  BY <3>2, <4>1
    <3>3. catching(authored.states) \subseteq catching(Running)
      BY <3>1
    <3>4. catching(Running) \subseteq catching(authored.states)
      BY <3>2
    <3> HIDE DEF catching
    <3> QED  BY <3>3, <3>4
  <2>4. \A states : {w[1] : w \in Ways(states, {"catch"})} = catching(states)
    BY WaysAreNamed
  <2> HIDE DEF catching
  <2> QED  BY <2>3, <2>4
<1>8. ASSUME NEW a \in authored.states, NEW s \in Running, a.name = s.name, a.type = "task", a.handler # Absent
      PROVE  a.handler = s.handler
  <2>1. PICK x \in Running : Twins(a, x)
    BY <1>1
  <2>2. x = s
    BY <1>8, <2>1 DEF Twins, Running, MachineInv, IsDefinition, NamesAreUnique
  <2> QED  BY <1>8, <2>1, <2>2, TwinsHave
<1> QED  BY <1>2, <1>3, <1>4, <1>6, <1>7, <1>8

-----------------------------------------------------------------------------
(* A flow drawn after the definition has all of it that can be drawn.       *)
LEMMA DrawnArrows ==
  ASSUME Authorable, NEW s \in Running
  PROVE  /\ \A kind : kind # "catch" => To(Draw(s), kind) = {r \in To(s, kind) : r.to \notin TerminalNames(definition.states)}
         /\ \A kind : kind \notin {"next", "catch"} => To(Draw(s), kind) = To(s, kind)
         /\ To(Draw(s), "catch") \subseteq To(s, "catch")
         /\ To(s, "catch") # {} => To(Draw(s), "catch") # {}
<1> DEFINE drawn == {r \in s.arrows : r.to \notin TerminalNames(definition.states)}
           caught == {r \in drawn : r.kind = "catch"}
<1>1. Draw(s).arrows = {r \in drawn : r.kind # "catch"} \cup OneOf(caught)
  BY DEF Draw
<1>2. \A r \in s.arrows : r.kind # "next" => r \in drawn
  BY DEF Authorable
<1>3. OneOf(caught) \subseteq caught /\ (caught # {} => OneOf(caught) # {})
  BY DEF OneOf
<1>4. \A r : r \in drawn <=> r \in s.arrows /\ r.to \notin TerminalNames(definition.states)
  OBVIOUS
<1>5. \A r : r \in caught <=> r \in drawn /\ r.kind = "catch"
  OBVIOUS
<1> HIDE DEF drawn, caught
<1> QED  BY <1>1, <1>2, <1>3, <1>4, <1>5 DEF To

LEMMA DrawnStateIsClear ==
  ASSUME MachineInv, Authorable, NEW s \in Running
  PROVE  StateFindings(Draw(s), Level(definition.states, s.in)) = {}
<1> DEFINE here == Level(definition.states, s.in)
           a == Draw(s)
<1>1. s \in definition.states /\ s.type \notin Terminal /\ Proper(s)
  BY DEF Running, MachineInv, IsDefinition
<1>2. \A x \in definition.states : x.name = s.name => x = s
  BY <1>1 DEF MachineInv, IsDefinition, NamesAreUnique
<1>3. s \in here
  BY <1>1 DEF Level
<1>4. a.name = s.name /\ a.type = s.type /\ a.concurrency = s.concurrency /\ a.handler = s.handler
  BY DrawIs
<1>5. Named(here, a.name) = s
  BY <1>2, <1>3, <1>4 DEF Named, Level
<1>6. ~NextDiffers(a, s, here)
  <2>1. To(a, "next") = {r \in To(s, "next") : r.to \notin TerminalNames(definition.states)}
    BY DrawnArrows
  <2>2. CASE To(a, "next") # {}
    <3>1. \A r, q \in To(s, "next") : r = q
      BY <1>1 DEF Proper
    <3>2. To(s, "next") = To(a, "next")
      BY <2>1, <2>2, <3>1
    <3> QED  BY <2>2, <3>2 DEF NextDiffers
  <2>3. CASE To(a, "next") = {} /\ ~s.end /\ a.type # "choice"
    <3>1. PICK r \in To(s, "next") : TRUE
      BY <1>1, <1>4, <2>3 DEF Proper
    <3>2. r.to \in TerminalNames(definition.states) /\ r \in s.arrows /\ r.kind = "next"
      BY <2>1, <2>3, <3>1 DEF To
    <3>3. r.to \in {x.name : x \in here}
      BY <1>1, <3>2 DEF MachineInv, IsDefinition, WellFormed
    <3>4. PICK x \in definition.states : x.name = r.to /\ x.type \in Terminal
      BY <3>2 DEF TerminalNames
    <3>5. PICK y \in here : y.name = r.to
      BY <3>3
    <3>6. x = y
      BY <3>4, <3>5 DEF Level, MachineInv, IsDefinition, NamesAreUnique
    <3>7. r.to \in TerminalNames(here)
      BY <3>4, <3>5, <3>6 DEF TerminalNames
    <3> QED  BY <2>3, <3>1, <3>7 DEF NextDiffers
  <2> HIDE DEF a
  <2> QED  BY <2>2, <2>3 DEF NextDiffers
<1>7. ~CatchesDiffer(a, s)
  BY DrawnArrows DEF CatchesDiffer
<1>8. \A kind \in {"default", "choice", "start", "branch"} : To(s, kind) = To(a, kind)
  BY DrawnArrows
<1> HIDE DEF a, here
<1>9. Differences(a, s, here) = {}
  BY <1>4, <1>6, <1>7, <1>8 DEF Differences
<1>10. a.name \in {x.name : x \in here}
  BY <1>3, <1>4
<1>11. StateFindings(a, here) = {<<a.name, kind>> : kind \in Differences(a, s, here)}
  BY <1>4, <1>5, <1>10 DEF StateFindings
<1> QED  BY <1>9, <1>11 DEF a, here

LEMMA DrawnIsClean == ASSUME MachineInv PROVE DrawnAfterTheCodeIsClean
<1> SUFFICES ASSUME source # "no definition", Authorable, authored = Drawing PROVE MachineFindings = {}
  BY DEF DrawnAfterTheCodeIsClean
<1>1. Unresolved = {} /\ Source = definition.states
  BY DEF Authorable, Unresolved, Source
<1>2. authored.start = definition.start
  BY DEF Drawing
<1>3. \A a : a \in authored.states <=> \E s \in Running : a = Draw(s)
  BY DEF Drawing, Running
<1>4. ASSUME NEW in PROVE LevelDrift(in) = {}
  <2> DEFINE here == Level(Source, in)
             mine == Level(authored.states, in)
             unauthored == {x \in here : x.type \notin Terminal /\ x.name \notin {a.name : a \in mine}}
  <2>1. LevelDrift(in) = (UNION {StateFindings(a, here) : a \in mine}) \cup {<<x.name, "not authored">> : x \in unauthored}
    BY DEF LevelDrift
  <2>2. ASSUME NEW a \in mine PROVE StateFindings(a, here) = {}
    <3>1. PICK s \in Running : a = Draw(s)
      BY <1>3 DEF Level
    <3>2. s.in = in
      BY <3>1, DrawIs DEF Level
    <3> QED  BY <1>1, <3>1, <3>2, DrawnStateIsClear
  <2>3. ASSUME NEW x \in here, x.type \notin Terminal PROVE x.name \in {a.name : a \in mine}
    <3>1. x \in Running /\ x.in = in
      BY <1>1, <2>3 DEF Running, Level
    <3>2. Draw(x) \in mine
      BY <1>3, <3>1, DrawIs DEF Level
    <3> QED  BY <3>2, DrawIs
  <2>4. unauthored = {}
    BY <2>3
  <2> HIDE DEF here, mine, unauthored
  <2> QED  BY <2>1, <2>2, <2>4
<1>5. Drift = {}
  BY <1>4 DEF Drift
<1> QED  BY <1>1, <1>2, <1>5 DEF MachineFindings

(* What is authored and what runs keep their form, whoever edits them: the    *)
(* definition is one that Step Functions takes, the flow one with a state to *)
(* a name, nested in the outermost level (the machine of MachineCheck).     *)
THEOREM MachineStaysWellFormed == MachineSpec => []MachineInv
<1>1. MachineInit => MachineInv
  BY MachineInitInv
<1>2. MachineInv /\ [MachineNext]_machineVars => MachineInv'
  BY MachineNextInv
<1> QED  BY <1>1, <1>2, PTL DEF MachineSpec

(* The findings of state-machine-check.ts are the drift, at every level of   *)
(* nesting: a machine without one is the machine that runs, as far as a flow *)
(* can draw it, and a flow drawn after the code is without one.             *)
THEOREM MachineFindingsAreTheDrift == MachineSpec => []FindingsAreTheDrift
<1>1. MachineInv => FindingsAreTheDrift
  BY CleanIsTheCode, DrawnIsClean DEF FindingsAreTheDrift
<1> QED  BY <1>1, MachineStaysWellFormed, PTL

-----------------------------------------------------------------------------
(* The listeners behind a write are those of the surface, step by step.      *)
LEMMA RunByIs == \A l : RunBy(l) \subseteq surface
BY DEF RunBy, ListenersRun, Of

LEMMA RunSteps ==
  ASSUME NEW table
  PROVE  \E g \in [Nat -> SUBSET surface] :
           /\ \A n \in Nat : RunWithin(table, n) = g[n]
           /\ g[0] = Start(table) /\ \A n \in Nat : g[n + 1] = g[n] \cup UNION {RunBy(l) : l \in g[n]}
<1> DEFINE Next(before) == before \cup UNION {RunBy(l) : l \in before}
           step == [X \in SUBSET surface |-> Next(X)]
           Fits(g) == g = [n \in Nat |-> IF n = 0 THEN Start(table) ELSE Next(g[n - 1])]
           run == CHOOSE g : Fits(g)
<1>1. Start(table) \in SUBSET surface /\ step \in [SUBSET surface -> SUBSET surface]
  BY RunByIs DEF Start, Of
<1>2. PICK g \in [Nat -> SUBSET surface] : g[0] = Start(table) /\ \A n \in Nat : g[n + 1] = step[g[n]]
  <2> DEFINE S == SUBSET surface
             start == Start(table)
  <2>1. start \in S /\ step \in [S -> S]
    BY <1>1
  <2> HIDE DEF step, S, start
  <2>2. \E g \in [Nat -> S] : g[0] = start /\ \A n \in Nat : g[n + 1] = step[g[n]]
    BY <2>1, IteratesExist
  <2> QED  BY <2>2 DEF S, start
<1>3. \A n \in Nat : n # 0 => g[n] = Next(g[n - 1])
  <2> SUFFICES ASSUME NEW n \in Nat, n # 0 PROVE g[n] = Next(g[n - 1])
    OBVIOUS
  <2>1. n - 1 \in Nat /\ (n - 1) + 1 = n
    OBVIOUS
  <2> HIDE DEF Next
  <2> QED  BY <1>2, <2>1
<1>4. Fits(g)
  <2> HIDE DEF Next
  <2> QED  BY <1>2, <1>3
<1>5. Fits(run)
  <2> HIDE DEF Fits
  <2> QED  BY <1>4
<1> HIDE DEF run
<1>6. run[0] = Start(table) /\ \A n \in Nat : run[n + 1] = Next(run[n])
  <2>1. run[0] = Start(table)
    <3> HIDE DEF Next
    <3> QED  BY <1>5
  <2>2. ASSUME NEW n \in Nat PROVE run[n + 1] = Next(run[n])
    <3>1. n + 1 \in Nat /\ n + 1 # 0 /\ (n + 1) - 1 = n
      OBVIOUS
    <3> HIDE DEF Next
    <3> QED  BY <1>5, <3>1
  <2> QED  BY <2>1, <2>2
<1>7. \A n \in Nat : RunWithin(table, n) = run[n]
  BY DEF RunWithin, run
<1>8. run \in [Nat -> SUBSET surface]
  <2>1. run = [n \in Nat |-> run[n]]
    BY <1>5
  <2> DEFINE Typed == {n \in Nat : run[n] \in SUBSET surface}
  <2>2. 0 \in Typed
    BY <1>1, <1>6
  <2>3. ASSUME NEW n \in Nat, n \in Typed PROVE n + 1 \in Typed
    BY <1>6, <2>3, RunByIs
  <2>4. \A n \in Nat : n \in Typed
    <3> HIDE DEF Typed
    <3> QED  BY <2>2, <2>3, NatsOneByOne
  <2> QED  BY <2>1, <2>4
<1> QED  BY <1>6, <1>7, <1>8

LEMMA RunFacts ==
  ASSUME surface \subseteq Listeners, NEW table
  PROVE  /\ RunWithin(table, 0) = Start(table)
         /\ \A n \in Nat : /\ RunWithin(table, n) \subseteq surface
                           /\ RunWithin(table, n + 1) = RunWithin(table, n) \cup UNION {RunBy(l) : l \in RunWithin(table, n)}
         /\ \A m, n \in Nat : m <= n => RunWithin(table, m) \subseteq RunWithin(table, n)
         /\ Cardinality(surface) \in Nat
         /\ \A n \in Nat : RunWithin(table, n) # {} =>
              /\ Cardinality(surface) > 0
              /\ \A k \in Nat : k >= Cardinality(surface) - 1 => RunWithin(table, n) \subseteq RunWithin(table, k)
<1>1. IsFiniteSet(surface) /\ Cardinality(surface) \in Nat
  BY ListenersAssumption, FS_Subset, FS_CardinalityType
<1>2. PICK g \in [Nat -> SUBSET surface] :
        /\ \A n \in Nat : RunWithin(table, n) = g[n]
        /\ g[0] = Start(table) /\ \A n \in Nat : g[n + 1] = g[n] \cup UNION {RunBy(l) : l \in g[n]}
  BY RunSteps
<1> DEFINE more == [X \in SUBSET surface |-> UNION {RunBy(l) : l \in X}]
<1>3. more \in [SUBSET surface -> SUBSET surface] /\ \A n \in Nat : g[n + 1] = g[n] \cup more[g[n]]
  BY <1>2, RunByIs
<1>4. more[{}] = {}
  OBVIOUS
<1> HIDE DEF more
<1>5. CASE g[0] # {}
  <2>1. /\ Cardinality(surface) \in Nat \ {0}
        /\ \A m, n \in Nat : m <= n => g[m] \subseteq g[n]
        /\ \A n, k \in Nat : k >= Cardinality(surface) - 1 => g[n] \subseteq g[k]
    <3>1. Grows(surface, g, more)
      BY <1>1, <1>3, <1>5 DEF Grows
    <3> QED  BY <3>1, ClosureIs DEF Stops
  <2> HIDE DEF Start, RunBy
  <2> QED  BY <1>1, <1>2, <2>1
<1>6. CASE g[0] = {}
  <2> DEFINE Idle == {n \in Nat : g[n] = {}}
  <2>1. 0 \in Idle
    BY <1>6
  <2>2. ASSUME NEW n \in Nat, n \in Idle PROVE n + 1 \in Idle
    <3>1. n + 1 \in Nat /\ g[n] = {} /\ more[g[n]] = {}
      BY <1>4, <2>2
    <3>2. g[n + 1] = {} \cup {}
      BY <1>3, <3>1
    <3> QED  BY <3>1, <3>2
  <2>3. \A n \in Nat : n \in Idle
    <3> HIDE DEF Idle
    <3> QED  BY <2>1, <2>2, NatsOneByOne
  <2> QED  BY <1>1, <1>2, <2>3
<1> QED  BY <1>5, <1>6

(* Fewer events run fewer listeners.                                        *)
LEMMA RunsGrow ==
  ASSUME NEW runs, NEW events, NEW fresh, fresh \subseteq events, NEW candidates
  PROVE  ListenersRun(runs, fresh, candidates) \subseteq ListenersRun(runs, events, candidates)
<1> SUFFICES ASSUME NEW l \in ListenersRun(runs, fresh, candidates)
             PROVE  l \in ListenersRun(runs, events, candidates)
  OBVIOUS
<1>1. l.events \cap fresh # {} => l.events \cap events # {}
  OBVIOUS
<1>2. CASE runs \in {"all", "validation"}
  BY <1>1, <1>2 DEF ListenersRun
<1>3. CASE runs = "touch"
  <2>1. l \in candidates /\ OnTouch(l, fresh)
    BY <1>3 DEF ListenersRun
  <2>2. OnTouch(l, events)
    BY <1>1, <2>1 DEF OnTouch
  <2> QED  BY <1>3, <2>1, <2>2 DEF ListenersRun
<1>4. CASE runs \notin {"all", "validation", "touch"}
  BY <1>4 DEF ListenersRun
<1> QED  BY <1>2, <1>3, <1>4

(* The walk, step by step.                                                  *)
AllKeys == Tables \X Events
AllVisits == [running : SUBSET surface, via : Nat, path : SUBSET AllKeys]

LEMMA WritesAre ==
  ASSUME surface \subseteq Listeners, NEW running \in SUBSET surface, NEW write \in Writes(running)
  PROVE  write.table \in Tables /\ write.events \subseteq Events
BY ListenersAssumption DEF Writes

LEMMA BehindIs ==
  ASSUME surface \subseteq Listeners, NEW visit \in AllVisits PROVE Behind(visit) \subseteq AllVisits
<1> SUFFICES ASSUME NEW write \in Writes(visit.running), NEW fresh, fresh = Fresh(write, visit.path)
             PROVE  [running |-> ListenersRun(write.runs, fresh, Of(write.table)), via |-> visit.via + 1,
                     path |-> visit.path \cup Keys(write.table, fresh)] \in AllVisits
  BY DEF Behind
<1>1. visit.running \in SUBSET surface /\ visit.via \in Nat /\ visit.path \in SUBSET AllKeys
  BY DEF AllVisits
<1>2. write.table \in Tables /\ fresh \subseteq Events
  BY <1>1, WritesAre DEF Fresh
<1>3. ListenersRun(write.runs, fresh, Of(write.table)) \in SUBSET surface
  BY DEF ListenersRun, Of
<1>4. visit.path \cup Keys(write.table, fresh) \in SUBSET AllKeys
  BY <1>1, <1>2 DEF Keys, AllKeys
<1>5. visit.via + 1 \in Nat
  BY <1>1
<1> QED  BY <1>3, <1>4, <1>5 DEF AllVisits

LEMMA VisitSteps ==
  ASSUME surface \subseteq Listeners, NEW table \in Tables
  PROVE  \E g \in [Nat -> SUBSET AllVisits] :
           /\ Visits(table) = g[Cardinality(AllKeys)]
           /\ g[0] = {First(table, event) : event \in Events}
           /\ \A n \in Nat : g[n + 1] = g[n] \cup UNION {Behind(visit) : visit \in g[n]}
<1> DEFINE Next(before) == before \cup UNION {Behind(visit) : visit \in before}
           base == {First(table, event) : event \in Events}
           step == [X \in SUBSET AllVisits |-> Next(X)]
           Fits(g) == g = [n \in Nat |-> IF n = 0 THEN base ELSE Next(g[n - 1])]
           run == CHOOSE g : Fits(g)
<1>1. base \in SUBSET AllVisits /\ step \in [SUBSET AllVisits -> SUBSET AllVisits]
  <2>1. base \in SUBSET AllVisits
    BY DEF First, AllVisits, AllKeys, Of
  <2>2. \A X \in SUBSET AllVisits : Next(X) \in SUBSET AllVisits
    BY BehindIs
  <2> HIDE DEF Next, base
  <2> QED  BY <2>1, <2>2
<1>2. PICK g \in [Nat -> SUBSET AllVisits] : g[0] = base /\ \A n \in Nat : g[n + 1] = step[g[n]]
  <2> DEFINE S == SUBSET AllVisits
             start == base
  <2>1. start \in S /\ step \in [S -> S]
    BY <1>1
  <2> HIDE DEF step, S, start, base
  <2>2. \E g \in [Nat -> S] : g[0] = start /\ \A n \in Nat : g[n + 1] = step[g[n]]
    BY <2>1, IteratesExist
  <2> QED  BY <2>2 DEF S, start
<1>3. \A n \in Nat : n # 0 => g[n] = Next(g[n - 1])
  <2> SUFFICES ASSUME NEW n \in Nat, n # 0 PROVE g[n] = Next(g[n - 1])
    OBVIOUS
  <2>1. n - 1 \in Nat /\ (n - 1) + 1 = n
    OBVIOUS
  <2> HIDE DEF Next
  <2> QED  BY <1>2, <2>1
<1>4. Fits(g)
  <2> HIDE DEF Next
  <2> QED  BY <1>2, <1>3
<1>5. Fits(run)
  <2> HIDE DEF Fits
  <2> QED  BY <1>4
<1> HIDE DEF run
<1>6. run[0] = base /\ \A n \in Nat : run[n + 1] = Next(run[n])
  <2>1. run[0] = base
    <3> HIDE DEF Next
    <3> QED  BY <1>5
  <2>2. ASSUME NEW n \in Nat PROVE run[n + 1] = Next(run[n])
    <3>1. n + 1 \in Nat /\ n + 1 # 0 /\ (n + 1) - 1 = n
      OBVIOUS
    <3> HIDE DEF Next
    <3> QED  BY <1>5, <3>1
  <2> QED  BY <2>1, <2>2
<1>7. Visits(table) = run[Cardinality(AllKeys)]
  BY DEF Visits, run, AllKeys
<1>8. run \in [Nat -> SUBSET AllVisits]
  <2>1. run = [n \in Nat |-> run[n]]
    BY <1>5
  <2> DEFINE Typed == {n \in Nat : run[n] \in SUBSET AllVisits}
  <2>2. 0 \in Typed
    BY <1>1, <1>6
  <2>3. ASSUME NEW n \in Nat, n \in Typed PROVE n + 1 \in Typed
    BY <1>6, <2>3, BehindIs
  <2>4. \A n \in Nat : n \in Typed
    <3> HIDE DEF Typed
    <3> QED  BY <2>2, <2>3, NatsOneByOne
  <2> QED  BY <2>1, <2>4
<1> QED  BY <1>6, <1>7, <1>8

(* A visit runs listeners that a chain of its length runs, and has at least   *)
(* as many keys on its path; and whole writes have run the listeners of     *)
(* these keys.                                                              *)
Covered(table, path, n) ==
  \A key \in path : \A l \in Of(key[1]) : key[2] \in l.events => l \in RunWithin(table, n)

OnTrack(table, visit) ==
  /\ visit.running \subseteq RunWithin(table, visit.via)
  /\ visit.path \in SUBSET AllKeys /\ IsFiniteSet(visit.path) /\ Cardinality(visit.path) >= visit.via + 1
  /\ WholeWrites => Covered(table, visit.path, visit.via)

LEMMA AllKeysFinite == IsFiniteSet(AllKeys) /\ Cardinality(AllKeys) \in Nat
<1>1. IsFiniteSet(Events)
  <2>1. IsFiniteSet({"create"}) /\ IsFiniteSet({"create"} \cup {"update"})
    BY FS_Singleton, FS_AddElement
  <2>2. IsFiniteSet(({"create"} \cup {"update"}) \cup {"destroy"})
    BY <2>1, FS_AddElement
  <2>3. Events = ({"create"} \cup {"update"}) \cup {"destroy"}
    BY DEF Events
  <2> QED  BY <2>2, <2>3
<1> QED  BY <1>1, ListenersAssumption, FS_Product, FS_CardinalityType DEF AllKeys

LEMMA FirstOnTrack ==
  ASSUME surface \subseteq Listeners, NEW table \in Tables, NEW event \in Events
  PROVE  OnTrack(table, First(table, event)) /\ First(table, event).via = 0
<1> DEFINE visit == First(table, event)
<1>1. visit.via = 0 /\ visit.path = {<<table, event>>} /\ visit.running = {l \in Of(table) : event \in l.events}
  BY DEF First
<1>2. visit.running \subseteq Start(table)
  BY <1>1 DEF Start
<1>3. IsFiniteSet(visit.path) /\ Cardinality(visit.path) = 1
  BY <1>1, FS_Singleton
<1>4. Covered(table, visit.path, 0)
  BY <1>1, RunFacts DEF Covered, Start
<1> HIDE DEF visit
<1>5. visit.path \in SUBSET AllKeys
  BY <1>1 DEF AllKeys
<1> QED  BY <1>1, <1>2, <1>3, <1>4, <1>5, RunFacts DEF OnTrack, visit

LEMMA BehindOnTrack ==
  ASSUME surface \subseteq Listeners, NEW table \in Tables,
         NEW visit \in AllVisits, OnTrack(table, visit), NEW next \in Behind(visit)
  PROVE  OnTrack(table, next) /\ next.via = visit.via + 1
<1>0. /\ visit.running \in SUBSET surface /\ visit.via \in Nat /\ visit.path \in SUBSET AllKeys
      /\ next \in AllVisits
  BY BehindIs DEF AllVisits
<1>1. PICK write \in Writes(visit.running) :
        /\ write.runs # "none" /\ Fresh(write, visit.path) # {}
        /\ next = [running |-> ListenersRun(write.runs, Fresh(write, visit.path), Of(write.table)), via |-> visit.via + 1,
                   path |-> visit.path \cup Keys(write.table, Fresh(write, visit.path))]
  BY DEF Behind
<1> DEFINE fresh == Fresh(write, visit.path)
           n == visit.via
<1>2. PICK l \in visit.running : write \in l.effects
  BY DEF Writes
<1>3. l \in surface /\ l \in RunWithin(table, n)
  BY <1>0 DEF OnTrack
<1>4. /\ next.via = n + 1 /\ next.running = ListenersRun(write.runs, fresh, Of(write.table))
      /\ next.path = visit.path \cup Keys(write.table, fresh)
  BY <1>1
<1>5. fresh \subseteq write.events /\ \A event \in fresh : <<write.table, event>> \notin visit.path
  BY DEF Fresh
<1>6. /\ RunBy(l) \subseteq RunWithin(table, n + 1)
      /\ RunWithin(table, n) \subseteq RunWithin(table, n + 1)
  BY <1>0, <1>3, RunFacts
<1>7. next.running \subseteq RunBy(l)
  <2>1. ListenersRun(write.runs, fresh, Of(write.table)) \subseteq ListenersRun(write.runs, write.events, Of(write.table))
    BY <1>5, RunsGrow
  <2>2. ListenersRun(write.runs, write.events, Of(write.table)) \subseteq RunBy(l)
    BY <1>1, <1>2 DEF RunBy
  <2> QED  BY <1>4, <2>1, <2>2
<1>8. IsFiniteSet(next.path) /\ next.path \in SUBSET AllKeys /\ Cardinality(next.path) >= n + 2
  <2>1. next.path \in SUBSET AllKeys
    BY <1>0 DEF AllVisits
  <2>2. IsFiniteSet(next.path) /\ Cardinality(next.path) \in Nat /\ Cardinality(visit.path) \in Nat
    BY <2>1, AllKeysFinite, FS_Subset, FS_CardinalityType DEF OnTrack
  <2>3. visit.path \subseteq next.path /\ visit.path # next.path
    BY <1>1, <1>4, <1>5 DEF Keys
  <2>4. Cardinality(visit.path) <= Cardinality(next.path) /\ Cardinality(visit.path) # Cardinality(next.path)
    BY <2>2, <2>3, FS_Subset
  <2> QED  BY <1>0, <2>1, <2>2, <2>4 DEF OnTrack
<1>9. ASSUME WholeWrites PROVE Covered(table, next.path, n + 1)
  <2>1. write.runs = "all"
    BY <1>1, <1>2, <1>3, <1>9 DEF WholeWrites
  <2>2. ASSUME NEW key \in visit.path, NEW o \in Of(key[1]), key[2] \in o.events
        PROVE  o \in RunWithin(table, n + 1)
    BY <1>6, <1>9, <2>2 DEF OnTrack, Covered
  <2>3. ASSUME NEW event \in fresh, NEW o \in Of(write.table), event \in o.events
        PROVE  o \in RunWithin(table, n + 1)
    <3>1. o \in next.running
      BY <1>4, <2>1, <2>3 DEF ListenersRun
    <3> QED  BY <1>6, <1>7, <3>1
  <2> HIDE DEF fresh
  <2>4. \A key \in next.path : key \in visit.path \/ \E event \in fresh : key = <<write.table, event>>
    BY <1>4 DEF Keys
  <2> QED  BY <2>2, <2>3, <2>4 DEF Covered
<1> HIDE DEF fresh
<1> QED  BY <1>0, <1>4, <1>6, <1>7, <1>8, <1>9 DEF OnTrack

(* What a walk of n steps has visited.                                      *)
VisitsWithin(table, g) ==
  /\ g \in [Nat -> SUBSET AllVisits]
  /\ Visits(table) = g[Cardinality(AllKeys)]
  /\ g[0] = {First(table, event) : event \in Events}
  /\ \A n \in Nat : g[n + 1] = g[n] \cup UNION {Behind(visit) : visit \in g[n]}

LEMMA VisitsOnTrack ==
  ASSUME surface \subseteq Listeners, NEW table \in Tables, NEW g, VisitsWithin(table, g)
  PROVE  /\ \A n \in Nat : \A visit \in g[n] : visit \in AllVisits /\ OnTrack(table, visit)
         /\ \A m, n \in Nat : m <= n => g[m] \subseteq g[n]
<1> USE DEF VisitsWithin
<1> DEFINE Tracked == {n \in Nat : \A visit \in g[n] : OnTrack(table, visit)}
<1>1. 0 \in Tracked
  BY FirstOnTrack
<1>2. ASSUME NEW n \in Nat, n \in Tracked PROVE n + 1 \in Tracked
  <2> SUFFICES ASSUME NEW visit \in g[n + 1] PROVE OnTrack(table, visit)
    OBVIOUS
  <2>1. CASE visit \in g[n]
    BY <1>2, <2>1
  <2>2. ASSUME NEW before \in g[n], visit \in Behind(before) PROVE OnTrack(table, visit)
    BY <1>2, <2>2, BehindOnTrack
  <2> QED  BY <2>1, <2>2
<1>3. \A n \in Nat : n \in Tracked
  <2> HIDE DEF Tracked
  <2> QED  BY <1>1, <1>2, NatsOneByOne
<1> DEFINE Growing == {n \in Nat : \A m \in Nat : m <= n => g[m] \subseteq g[n]}
<1>4. 0 \in Growing
  OBVIOUS
<1>5. ASSUME NEW n \in Nat, n \in Growing PROVE n + 1 \in Growing
  <2>1. \A m \in Nat : m <= n + 1 => m <= n \/ m = n + 1
    OBVIOUS
  <2>2. g[n] \subseteq g[n + 1]
    OBVIOUS
  <2> QED  BY <1>5, <2>1, <2>2
<1>6. \A n \in Nat : n \in Growing
  <2> HIDE DEF Growing
  <2> QED  BY <1>4, <1>5, NatsOneByOne
<1> QED  BY <1>3, <1>6

(* With whole writes, a listener is visited at its distance from the write:   *)
(* a key on the path to it would have run it before.                        *)
LEMMA VisitedInTime ==
  ASSUME surface \subseteq Listeners, WholeWrites, NEW table \in Tables, NEW g, VisitsWithin(table, g)
  PROVE  \A n \in Nat : \A l \in RunWithin(table, n) :
           n = 0 \/ l \notin RunWithin(table, n - 1) => \E visit \in g[n] : visit.via = n /\ l \in visit.running
<1> DEFINE New(n, l) == l \in RunWithin(table, n) /\ (n = 0 \/ l \notin RunWithin(table, n - 1))
           Visited(n, l) == \E visit \in g[n] : visit.via = n /\ l \in visit.running
           InTime == {n \in Nat : \A l : New(n, l) => Visited(n, l)}
<1>1. 0 \in InTime
  <2> SUFFICES ASSUME NEW l \in RunWithin(table, 0) PROVE Visited(0, l)
    OBVIOUS
  <2>1. l \in Of(table) /\ l.events # {} /\ l \in surface
    BY RunFacts DEF Start, Of
  <2>2. l.events \subseteq Events
    BY <2>1, ListenersAssumption
  <2>3. PICK event \in Events : event \in l.events
    BY <2>1, <2>2
  <2>4. First(table, event) \in g[0]
    BY DEF VisitsWithin
  <2>5. First(table, event).via = 0 /\ l \in First(table, event).running
    BY <2>1, <2>3 DEF First
  <2> QED  BY <2>4, <2>5
<1>2. ASSUME NEW n \in Nat, n \in InTime PROVE n + 1 \in InTime
  <2> SUFFICES ASSUME NEW l, New(n + 1, l) PROVE Visited(n + 1, l)
    OBVIOUS
  <2>0. n + 1 \in Nat /\ n + 1 # 0 /\ (n + 1) - 1 = n
    OBVIOUS
  <2>1. l \in RunWithin(table, n + 1) /\ l \notin RunWithin(table, n)
    BY <2>0
  <2>2. PICK k \in RunWithin(table, n) : l \in RunBy(k)
    BY <2>1, RunFacts
  <2>3. New(n, k)
    <3> SUFFICES ASSUME n # 0, k \in RunWithin(table, n - 1) PROVE FALSE
      BY <2>2
    <3>1. n - 1 \in Nat /\ (n - 1) + 1 = n
      OBVIOUS
    <3>2. l \in RunWithin(table, n)
      BY <2>2, <3>1, RunFacts
    <3> QED  BY <2>1, <3>2
  <2>4. PICK visit \in g[n] : visit.via = n /\ k \in visit.running
    BY <1>2, <2>3
  <2>5. PICK write \in k.effects : /\ write.runs # "none"
                                   /\ l \in ListenersRun(write.runs, write.events, Of(write.table))
    BY <2>2 DEF RunBy
  <2>6. k \in surface /\ write.runs = "all"
    <3>1. k \in surface
      BY <2>2, RunFacts
    <3> QED  BY <2>5, <3>1 DEF WholeWrites
  <2>7. PICK event \in write.events : event \in l.events
    BY <2>5, <2>6 DEF ListenersRun
  <2>8. l \in Of(write.table)
    BY <2>5 DEF ListenersRun
  <2>9. visit \in AllVisits /\ OnTrack(table, visit)
    BY <2>4, VisitsOnTrack
  <2>10. <<write.table, event>> \notin visit.path
    <3> SUFFICES ASSUME <<write.table, event>> \in visit.path PROVE FALSE
      OBVIOUS
    <3>1. Covered(table, visit.path, n)
      BY <2>4, <2>9 DEF OnTrack
    <3>2. l \in RunWithin(table, n)
      BY <2>7, <2>8, <3>1 DEF Covered
    <3> QED  BY <2>1, <3>2
  <2> DEFINE fresh == Fresh(write, visit.path)
             next == [running |-> ListenersRun(write.runs, fresh, Of(write.table)), via |-> visit.via + 1,
                      path |-> visit.path \cup Keys(write.table, fresh)]
  <2>11. event \in fresh
    BY <2>7, <2>10 DEF Fresh
  <2>12. next \in Behind(visit)
    <3>1. write \in Writes(visit.running)
      BY <2>4 DEF Writes
    <3> QED  BY <2>5, <2>11, <3>1 DEF Behind
  <2>13. l \in next.running /\ next.via = n + 1
    <3>1. l \in ListenersRun(write.runs, fresh, Of(write.table))
      BY <2>6, <2>7, <2>8, <2>11 DEF ListenersRun
    <3> QED  BY <2>4, <3>1
  <2>14. next \in g[n + 1]
    <3> HIDE DEF next
    <3> QED  BY <2>4, <2>12 DEF VisitsWithin
  <2> HIDE DEF next
  <2> QED  BY <2>13, <2>14
<1>3. \A n \in Nat : n \in InTime
  <2> HIDE DEF InTime
  <2> QED  BY <1>1, <1>2, NatsOneByOne
<1> QED  BY <1>3

(* A hop is a write of a listener that as many run before.                  *)
LEMMA HopsAreChains ==
  ASSUME surface \subseteq Listeners, NEW table \in Tables, NEW hop \in Hops(table)
  PROVE  /\ hop.via \in Nat \ {0} /\ hop.table \in Written(RunWithin(table, hop.via - 1))
         /\ hop = [table |-> hop.table, via |-> hop.via]
<1>1. PICK g : VisitsWithin(table, g)
  BY VisitSteps DEF VisitsWithin
<1>2. PICK visit \in Visits(table) : \E write \in Writes(visit.running) : hop = [table |-> write.table, via |-> visit.via + 1]
  BY DEF Hops
<1>3. PICK write \in Writes(visit.running) : hop = [table |-> write.table, via |-> visit.via + 1]
  BY <1>2
<1>4. visit \in AllVisits /\ OnTrack(table, visit)
  BY <1>1, AllKeysFinite, VisitsOnTrack DEF VisitsWithin
<1>5. visit.via \in Nat /\ visit.running \subseteq RunWithin(table, visit.via)
  BY <1>4 DEF AllVisits, OnTrack
<1>6. hop.via = visit.via + 1 /\ hop.via - 1 = visit.via /\ hop.table = write.table
  BY <1>3, <1>5
<1>7. write.table \in Written(RunWithin(table, visit.via))
  BY <1>5 DEF Written, Writes
<1> QED  BY <1>3, <1>5, <1>6, <1>7

(* The distances: a table that is written at all is so within as many steps  *)
(* as there are listeners, and the first of them is its distance.           *)
Nearest(table, target, n) ==
  /\ n \in Nat /\ target \in Written(RunWithin(table, n))
  /\ \A m \in Nat : m < n => target \notin Written(RunWithin(table, m))

LEMMA WrittenGrows ==
  ASSUME surface \subseteq Listeners, NEW table, NEW m \in Nat, NEW n \in Nat, m <= n
  PROVE  Written(RunWithin(table, m)) \subseteq Written(RunWithin(table, n))
<1>1. RunWithin(table, m) \subseteq RunWithin(table, n)
  BY RunFacts
<1> QED  BY <1>1 DEF Written, Writes

LEMMA NearestIs ==
  ASSUME surface \subseteq Listeners, NEW table, NEW target, NEW k \in Nat,
         target \in Written(RunWithin(table, k))
  PROVE  /\ \E n \in Nat : Nearest(table, target, n) /\ n <= k
         /\ \A n : Nearest(table, target, n) => n < Cardinality(surface) /\ Distance(table, target) = n + 1
         /\ Cardinality(surface) \in Nat /\ target \in Written(RunWithin(table, Cardinality(surface)))
<1> DEFINE count == Cardinality(surface)
           Writing == {n \in Nat : target \in Written(RunWithin(table, n))}
<1>1. count \in Nat /\ count > 0 /\ \A n \in Nat : n >= count - 1 => target \in Written(RunWithin(table, n))
  <2>1. RunWithin(table, k) # {}
    BY DEF Written, Writes
  <2>2. /\ count \in Nat /\ count > 0
        /\ \A n \in Nat : n >= count - 1 => RunWithin(table, k) \subseteq RunWithin(table, n)
    BY <2>1, RunFacts
  <2> QED  BY <2>2 DEF Written, Writes
<1>2. \E n \in Nat : Nearest(table, target, n)
  <2>1. Writing # {} /\ Writing \subseteq Nat
    OBVIOUS
  <2>2. PICK n \in Writing : \A m \in Writing : ~(<<m, n>> \in OpToRel(<, Nat))
    <3> HIDE DEF Writing
    <3> QED  BY <2>1, NatLessThanWellFounded, WFMin
  <2>3. \A m \in Writing : ~(m < n)
    BY <2>2 DEF OpToRel
  <2> QED  BY <2>3 DEF Nearest
<1>3. \A n : Nearest(table, target, n) => n \in Nat /\ n <= k /\ n < count
  <2> SUFFICES ASSUME NEW n, Nearest(table, target, n) PROVE n \in Nat /\ n <= k /\ n < count
    OBVIOUS
  <2>1. n \in Nat /\ ~(k < n) /\ ~(count - 1 < n)
    BY <1>1 DEF Nearest
  <2> QED  BY <1>1, <2>1
<1>4. ASSUME NEW n, Nearest(table, target, n) PROVE Distance(table, target) = n + 1
  <2> DEFINE Is(d) == /\ target \in Written(RunWithin(table, d - 1))
                      /\ d > 1 => target \notin Written(RunWithin(table, d - 2))
  <2>1. n \in Nat /\ n + 1 \in 1..count /\ (n + 1) - 1 = n /\ (n + 1) - 2 = n - 1 /\ (n + 1 > 1 => n - 1 \in Nat /\ n - 1 < n)
    BY <1>1, <1>3, <1>4
  <2>2. Is(n + 1)
    BY <1>4, <2>1 DEF Nearest
  <2>3. ASSUME NEW d \in 1..count, Is(d) PROVE d = n + 1
    <3>1. d \in Nat /\ d - 1 \in Nat /\ (d > 1 => d - 2 \in Nat)
      BY <1>1
    <3>2. ~(d - 1 < n)
      BY <1>4, <2>3, <3>1 DEF Nearest
    <3>3. ~(d - 1 > n)
      <4> SUFFICES ASSUME d - 1 > n PROVE FALSE
        OBVIOUS
      <4>1. d > 1 /\ n <= d - 2
        BY <2>1, <3>1
      <4>2. target \in Written(RunWithin(table, d - 2))
        BY <1>4, <2>1, <3>1, <4>1, WrittenGrows DEF Nearest
      <4> QED  BY <2>3, <4>1, <4>2
    <3> QED  BY <2>1, <3>1, <3>2, <3>3
  <2> DEFINE dist == CHOOSE d \in 1..count : Is(d)
  <2>4. dist = n + 1
    <3> HIDE DEF Is
    <3> QED  BY <2>1, <2>2, <2>3
  <2> QED  BY <2>4 DEF Distance
<1> HIDE DEF count, Writing
<1>5. target \in Written(RunWithin(table, count))
  BY <1>1
<1> QED  BY <1>1, <1>2, <1>3, <1>4, <1>5 DEF count

(* The walk has a hop to a table at its distance.                           *)
LEMMA NearestHop ==
  ASSUME surface \subseteq Listeners, WholeWrites, NEW table \in Tables, NEW target,
         NEW n, Nearest(table, target, n)
  PROVE  [table |-> target, via |-> n + 1] \in Hops(table)
<1>1. PICK g : VisitsWithin(table, g)
  BY VisitSteps DEF VisitsWithin
<1>2. n \in Nat /\ target \in Written(RunWithin(table, n))
  BY DEF Nearest
<1>3. PICK l \in RunWithin(table, n) : \E write \in l.effects : write.table = target
  BY <1>2 DEF Written, Writes
<1>4. n = 0 \/ l \notin RunWithin(table, n - 1)
  <2> SUFFICES ASSUME n # 0, l \in RunWithin(table, n - 1) PROVE FALSE
    OBVIOUS
  <2>1. n - 1 \in Nat /\ n - 1 < n
    BY <1>2
  <2>2. target \in Written(RunWithin(table, n - 1))
    BY <1>3 DEF Written, Writes
  <2> QED  BY <2>1, <2>2 DEF Nearest
<1>5. PICK visit \in g[n] : visit.via = n /\ l \in visit.running
  BY <1>1, <1>2, <1>4, VisitedInTime
<1>6. visit \in AllVisits /\ OnTrack(table, visit)
  BY <1>1, <1>2, VisitsOnTrack
<1>7. n <= Cardinality(AllKeys)
  <2>1. Cardinality(visit.path) <= Cardinality(AllKeys) /\ Cardinality(visit.path) \in Nat
    BY <1>6, AllKeysFinite, FS_Subset, FS_CardinalityType DEF OnTrack
  <2> QED  BY <1>2, <1>5, <1>6, <2>1, AllKeysFinite DEF OnTrack
<1>8. visit \in Visits(table)
  BY <1>1, <1>2, <1>7, AllKeysFinite, VisitsOnTrack DEF VisitsWithin
<1>9. \E write \in Writes(visit.running) : write.table = target
  BY <1>3, <1>5 DEF Writes
<1> QED  BY <1>5, <1>8, <1>9 DEF Hops

LEMMA ChainsAreFound ==
  ASSUME surface \subseteq Listeners PROVE AlsoChangesAreTheChains
<1> SUFFICES ASSUME NEW table \in Tables
             PROVE  /\ {c.table : c \in AlsoChanges(table)} \subseteq Reached(table)
                    /\ WholeWrites => /\ Reached(table) \subseteq {c.table : c \in AlsoChanges(table)}
                                      /\ \A c \in AlsoChanges(table) : c.via = Distance(table, c.table)
  BY DEF AlsoChangesAreTheChains
<1>1. \A c : c \in AlsoChanges(table) <=>
              /\ c \in Hops(table) /\ c.table # table
              /\ \A other \in Hops(table) : other.table # table /\ other.table = c.table => c.via <= other.via
  BY DEF AlsoChanges
<1>2. ASSUME NEW c \in AlsoChanges(table)
      PROVE  /\ c.via \in Nat /\ c.via - 1 \in Nat /\ c.table # table
             /\ c.table \in Written(RunWithin(table, c.via - 1))
  BY <1>1, HopsAreChains
<1>3. ASSUME NEW c \in AlsoChanges(table) PROVE c.table \in Reached(table)
  BY <1>2, NearestIs DEF Reached
<1>4. ASSUME NEW target, NEW n, Nearest(table, target, n)
      PROVE  \A hop \in Hops(table) : hop.table = target => hop.via >= n + 1
  <2> SUFFICES ASSUME NEW hop \in Hops(table), hop.table = target PROVE hop.via >= n + 1
    OBVIOUS
  <2>1. hop.via \in Nat /\ hop.via - 1 \in Nat /\ target \in Written(RunWithin(table, hop.via - 1))
    BY HopsAreChains
  <2>2. n \in Nat /\ ~(hop.via - 1 < n)
    BY <1>4, <2>1 DEF Nearest
  <2> QED  BY <2>1, <2>2
<1>5. ASSUME WholeWrites, NEW target \in Reached(table)
      PROVE  target \in {c.table : c \in AlsoChanges(table)}
  <2>1. target \in Written(RunWithin(table, Cardinality(surface))) /\ target # table /\ Cardinality(surface) \in Nat
    BY RunFacts DEF Reached
  <2>2. PICK n \in Nat : Nearest(table, target, n)
    BY <2>1, NearestIs
  <2> DEFINE c == [table |-> target, via |-> n + 1]
  <2>3. c \in Hops(table)
    BY <1>5, <2>2, NearestHop
  <2>4. \A other \in Hops(table) : other.table = target => c.via <= other.via
    <3>1. \A other \in Hops(table) : other.table = target => other.via \in Nat /\ other.via >= n + 1
      BY <1>4, <2>2, HopsAreChains
    <3> QED  BY <3>1
  <2>5. c \in AlsoChanges(table) /\ c.table = target
    BY <1>1, <2>1, <2>3, <2>4
  <2> HIDE DEF c
  <2> QED  BY <2>5
<1>6. ASSUME WholeWrites, NEW c \in AlsoChanges(table)
      PROVE  c.via = Distance(table, c.table)
  <2>1. PICK n \in Nat : Nearest(table, c.table, n)
    BY <1>2, NearestIs
  <2>2. Distance(table, c.table) = n + 1
    BY <1>2, <2>1, NearestIs
  <2>3. [table |-> c.table, via |-> n + 1] \in Hops(table)
    BY <1>6, <2>1, NearestHop
  <2>4. c.via <= n + 1
    BY <1>1, <1>2, <2>3
  <2>5. c.via >= n + 1
    BY <1>1, <1>4, <2>1
  <2> QED  BY <1>2, <2>1, <2>2, <2>4, <2>5
<1> QED  BY <1>3, <1>5, <1>6

(* The surface is made of the listeners there are.                          *)
LEMMA SurfaceOfListeners == CascadeSpec => [](surface \subseteq Listeners)
<1>1. CascadeInit => surface \subseteq Listeners
  BY DEF CascadeInit
<1>2. surface \subseteq Listeners /\ [CascadeNext]_surface => (surface \subseteq Listeners)'
  BY DEF CascadeNext, SurfaceChanges
<1> QED  BY <1>1, <1>2, PTL DEF CascadeSpec

(* For any listeners: what a write also changes is what a chain of listeners *)
(* writes, at the length of the shortest, and with whole writes all of it.  *)
THEOREM ChangesAreTheChains == CascadeSpec => []AlsoChangesAreTheChains
<1>1. surface \subseteq Listeners => AlsoChangesAreTheChains
  BY ChainsAreFound
<1> QED  BY <1>1, SurfaceOfListeners, PTL
=============================================================================
