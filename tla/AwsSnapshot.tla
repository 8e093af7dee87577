----------------------------- MODULE AwsSnapshot -----------------------------
(***************************************************************************)
(* The snapshot of an AWS account: aws-snapshot.ts lists it call by call    *)
(* into the folder of the day while the account goes on changing, and       *)
(* extractors/aws-live.ts compares what it finds in that folder.  Each file *)
(* is written in place, so a folder may hold files of several fetches, and  *)
(* one cut short.  Topics, tasks, tables, streams and rules are left out:   *)
(* their listings can only throw, which any step here can.                  *)
(***************************************************************************)
EXTENDS Naturals, Sequences

CONSTANTS Queues, Functions, Buckets, Targets,
          Known,          (* functions the resolver maps to a service        *)
          Candidates,     (* queues of a known service that are no DLQ       *)
          Bare,           (* a queue's name in lower case, without its stage *)
          MaxFetches,     (* bound: fetches into one folder                  *)
          MaxChanges      (* bound: changes of the account                   *)

ASSUME AwsAssumption ==
  /\ Candidates \subseteq Queues
  /\ MaxFetches \in Nat /\ MaxChanges \in Nat

VARIABLES queues,     (* the account: its queues                             *)
          mappings,   (* its event source mappings, <<function, queue>>      *)
          couplings,  (* its bucket notifications, <<bucket, target>>        *)
          changes,    (* history: how often the account changed              *)
          fetch,      (* history: how many fetches were begun                *)
          at,         (* the step a fetch is at, 0 when none is running      *)
          unread,     (* buckets the notification step has still to ask about*)
          out,        (* what it has read                                    *)
          folder,     (* each file: what it holds, and the fetch it is of    *)
          alone,      (* history: fetches and queues seen without a consumer *)
          coupled     (* history: fetches and couplings the account had      *)

accountVars == <<queues, mappings, couplings, changes>>
fetchVars == <<fetch, at, unread, out, folder>>
awsVars == <<accountVars, fetchVars, alone, coupled>>

(* Mutant: the queues are listed before what consumes them.                 *)
QueuesFirst == <<"queues", "mappings", "buckets", "notifications">>

(* The order of the steps of fetchAwsSnapshot.                               *)
Steps == <<"mappings", "queues", "buckets", "notifications">>

(* A file that is missing and one that does not parse both read as empty.   *)
Unreadable == [of |-> 0, holds |-> {}]

Consumed(q) == \E f \in Functions : <<f, q>> \in mappings

AwsInit ==
  /\ queues \in SUBSET Queues
  /\ mappings \in SUBSET (Functions \X Queues)
  /\ couplings \in SUBSET (Buckets \X Targets)
  /\ changes = 0 /\ fetch = 0 /\ at = 0
  /\ unread = {} /\ out = {}
  /\ folder = [name \in {"mappings", "queues", "buckets", "notifications"} |-> Unreadable]
  /\ alone = {} /\ coupled = {}

(* What the account shows while the fetch runs.                             *)
Witnessed ==
  IF at' = 0 THEN UNCHANGED <<alone, coupled>>
  ELSE /\ alone' = alone \cup {<<fetch', q>> : q \in {q \in queues' : ~Consumed(q)'}}
       /\ coupled' = coupled \cup {<<fetch', c>> : c \in couplings'}

-----------------------------------------------------------------------------
(* The account.  Deleting a queue leaves its mappings behind; a mapping is   *)
(* made only to a queue that is there.                                      *)
CreateQueue(q) == q \notin queues /\ queues' = queues \cup {q} /\ UNCHANGED <<mappings, couplings>>
DeleteQueue(q) == q \in queues /\ queues' = queues \ {q} /\ UNCHANGED <<mappings, couplings>>
Consume(f, q) ==
  /\ q \in queues /\ <<f, q>> \notin mappings
  /\ mappings' = mappings \cup {<<f, q>>}
  /\ UNCHANGED <<queues, couplings>>
Release(m) == mappings' = mappings \ {m} /\ UNCHANGED <<queues, couplings>>
Couple(c) == c \notin couplings /\ couplings' = couplings \cup {c} /\ UNCHANGED <<queues, mappings>>
Uncouple(c) == couplings' = couplings \ {c} /\ UNCHANGED <<queues, mappings>>

AccountChanges ==
  /\ changes < MaxChanges
  /\ changes' = changes + 1
  /\ \/ \E q \in Queues : CreateQueue(q) \/ DeleteQueue(q)
     \/ \E f \in Functions, q \in Queues : Consume(f, q)
     \/ \E m \in mappings : Release(m)
     \/ \E c \in Buckets \X Targets : Couple(c)
     \/ \E c \in couplings : Uncouple(c)
  /\ UNCHANGED fetchVars
  /\ Witnessed

-----------------------------------------------------------------------------
(* The fetch.  The notification step begins by reading the buckets back.    *)
StartFetch ==
  /\ at = 0 /\ fetch < MaxFetches
  /\ fetch' = fetch + 1 /\ at' = 1
  /\ UNCHANGED <<accountVars, unread, out, folder>>
  /\ Witnessed

Writes(name, data) == folder' = [folder EXCEPT ![name] = [of |-> fetch, holds |-> data]]

(* Every bucket is in the list, with notifications or without.               *)
Answer(name) ==
  CASE name = "mappings" -> mappings
    [] name = "queues" -> queues
    [] name = "buckets" -> Buckets

List ==
  /\ at \in 1..3
  /\ Writes(Steps[at], Answer(Steps[at]))
  /\ at' = at + 1
  /\ unread' = IF at = 3 THEN folder'["buckets"].holds ELSE {}
  /\ out' = {}
  /\ UNCHANGED <<accountVars, fetch>>
  /\ Witnessed

(* A bucket that cannot be read is passed over.                             *)
ReadBucket(b) ==
  /\ at = 4 /\ b \in unread
  /\ unread' = unread \ {b}
  /\ out' \in {out, out \cup {c \in couplings : c[1] = b}}
  /\ UNCHANGED <<accountVars, fetch, at, folder>>
  /\ Witnessed

WriteNotifications ==
  /\ at = 4 /\ unread = {}
  /\ Writes("notifications", out)
  /\ at' = 0
  /\ UNCHANGED <<accountVars, fetch, unread, out>>
  /\ Witnessed

(* A call that throws ends the fetch; one that is killed while it writes     *)
(* leaves that file cut short.                                              *)
FetchEnds ==
  /\ at # 0
  /\ folder' \in {folder} \cup (IF unread = {} THEN {[folder EXCEPT ![Steps[at]] = Unreadable]} ELSE {})
  /\ at' = 0 /\ unread' = {} /\ out' = {}
  /\ UNCHANGED <<accountVars, fetch>>
  /\ Witnessed

AwsNext ==
  \/ AccountChanges \/ StartFetch \/ List
  \/ \E b \in Buckets : ReadBucket(b)
  \/ WriteNotifications \/ FetchEnds

AwsSpec == AwsInit /\ [][AwsNext]_awsVars

-----------------------------------------------------------------------------
(* analyzeAwsLive on the folder as it is.  Queues are matched by bare name,  *)
(* and only a known service's function counts as a consumer.                *)
BoundQueues == {Bare[m[2]] : m \in {m \in folder["mappings"].holds : m[1] \in Known}}
OrphanQueues == {q \in folder["queues"].holds \cap Candidates : Bare[q] \notin BoundQueues}
BucketCouplings == folder["notifications"].holds

(* An orphan queue of one fetch really had no consumer at some moment of     *)
(* that fetch, unless a function of no known service consumes it.           *)
OrphansStoodAlone ==
  folder["mappings"].of = folder["queues"].of =>
    \A q \in OrphanQueues :
      \/ <<folder["queues"].of, q>> \in alone
      \/ \E m \in folder["mappings"].holds : m[2] = q /\ m[1] \notin Known

CouplingsStood == \A c \in BucketCouplings : <<folder["notifications"].of, c>> \in coupled

(* However the account changes between two calls, and wherever a fetch of    *)
(* the day ends, what a comparison reports missing or coupled was so while  *)
(* its files were being fetched (the order of the steps of aws-snapshot.ts).*)
FindingsStood == OrphansStoodAlone /\ CouplingsStood
=============================================================================
