----------------------------- MODULE LabelSearch -----------------------------
(***************************************************************************)
(* featureAreaLabels of discovery/src/jira/snapshot.ts: the labels of a     *)
(* field are found through Jira's suggestions, which answer a typed prefix  *)
(* with at most LABEL_FULL_ANSWER labels.  A prefix with a full answer is   *)
(* opened: each of its one-character extensions is probed in the next       *)
(* round, down to LABEL_MAX_PREFIX and within LABEL_MAX_CALLS calls.  A     *)
(* round is one step: that its probes run concurrently and come back as     *)
(* from a loop is what MapAtMost shows.                                     *)
(***************************************************************************)
EXTENDS Naturals, Sequences, FiniteSets, SequencesExt

CONSTANTS LabelChars,  (* LABEL_CHARS, a sequence                          *)
          Words,       (* labels a project may have, sequences of characters*)
          MostLabels,  (* bound: labels it has                             *)
          FullAnswer,  (* LABEL_FULL_ANSWER                                *)
          MaxPrefix,   (* LABEL_MAX_PREFIX                                 *)
          MaxCalls     (* LABEL_MAX_CALLS                                  *)

ASSUME LabelAssumption ==
  /\ FullAnswer \in Nat \ {0} /\ MaxPrefix \in Nat /\ MaxCalls \in Nat \ {0}
  /\ LabelChars \in Seq(Range(LabelChars)) /\ IsInjective(LabelChars)
  /\ \A w \in Words : w \in Seq(Range(w))

VARIABLES labels,   (* the labels of the field                              *)
          level,    (* level: the prefixes to probe                         *)
          left,     (* left                                                 *)
          found,    (* found                                                *)
          threw,    (* a probe of the round failed, and the search with it  *)
          opened,   (* history: prefixes whose answer was full              *)
          probed    (* history: prefixes probed                             *)

labelVars == <<labels, level, left, found, threw, opened, probed>>

LabelInit ==
  /\ labels \in UNION {kSubset(k, Words) : k \in 0..MostLabels}
  /\ level = {<<>>}
  /\ left = MaxCalls
  /\ found = {}
  /\ threw = FALSE
  /\ opened = {}
  /\ probed = {}

Matching(typed) == {w \in labels : IsPrefix(typed, w)}

(* Jira picks which of the labels that match it suggests.                   *)
Suggestions(typed) ==
  IF Cardinality(Matching(typed)) <= FullAnswer THEN {Matching(typed)}
  ELSE kSubset(FullAnswer, Matching(typed))

(* The prefixes of a level are of one length, and flatMap lists them in the  *)
(* order of LABEL_CHARS, character by character.                            *)
RankOf(c) == CHOOSE k \in DOMAIN LabelChars : LabelChars[k] = c
Before(u, t) == \E k \in DOMAIN t : /\ SubSeq(u, 1, k - 1) = SubSeq(t, 1, k - 1)
                                    /\ RankOf(u[k]) < RankOf(t[k])

(* level.slice(0, left) and its length.                                      *)
Batch == {t \in level : Cardinality({u \in level : Before(u, t)}) < left}
BatchSize == IF Cardinality(level) < left THEN Cardinality(level) ELSE left

(* Mutant: an answer is taken for cut only above the full size.             *)
FullAbove(answer) == Cardinality(answer) > FullAnswer

Full(answer) == Cardinality(answer) >= FullAnswer

Opens(typed, answer) == Full(answer) /\ Len(typed) < MaxPrefix

Extensions(typed) == {Append(typed, c) : c \in Range(LabelChars)}

NextLevel(batch, answers) == UNION {Extensions(t) : t \in {t \in batch : Opens(t, answers[t])}}

(* The while loop goes on.                                                   *)
Probing == level # {} /\ left > 0 /\ ~threw

(* One turn of the while loop: the batch is probed, its labels are added,    *)
(* the prefixes that may be cut are opened.                                 *)
Round ==
  /\ Probing
  /\ \E answers \in [Batch -> UNION {Suggestions(typed) : typed \in Batch}] :
       /\ \A typed \in Batch : answers[typed] \in Suggestions(typed)
       /\ found' = found \cup UNION {answers[typed] : typed \in Batch}
       /\ opened' = opened \cup {typed \in Batch : Full(answers[typed])}
       /\ level' = NextLevel(Batch, answers)
  /\ left' = left - BatchSize
  /\ probed' = probed \cup Batch
  /\ UNCHANGED <<labels, threw>>

(* A probe fails: the labels found so far are lost with the search.         *)
RoundThrows ==
  /\ Probing
  /\ threw' = TRUE
  /\ left' = left - BatchSize
  /\ UNCHANGED <<labels, level, found, opened, probed>>

LabelNext == Round \/ RoundThrows

LabelSpec == LabelInit /\ [][LabelNext]_labelVars

Returned == ~threw /\ (level = {} \/ left = 0)

-----------------------------------------------------------------------------
(* Where a label can fall through: under a prefix with a full answer that    *)
(* the label itself is, that is as long as LABEL_MAX_PREFIX, that goes on   *)
(* with a character outside LABEL_CHARS, or whose extension found the calls *)
(* used up.                                                                 *)
FallsThrough(w) ==
  \E p \in opened :
    /\ IsPrefix(p, w)
    /\ \/ p = w
       \/ Len(p) = MaxPrefix
       \/ w[Len(p) + 1] \notin Range(LabelChars)
       \/ left = 0 /\ Append(p, w[Len(p) + 1]) \notin probed

(* The search loses no label otherwise: with answers below the limit at the  *)
(* end of every branch it has found all of them, whichever labels Jira      *)
(* chose to suggest on the way.                                             *)
LabelsFoundUnlessCut == Returned => \A w \in labels \ found : FallsThrough(w)
=============================================================================
