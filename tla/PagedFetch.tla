----------------------------- MODULE PagedFetch -----------------------------
(***************************************************************************)
(* readPages of discovery/src/net/pages.ts with the page rules of its       *)
(* callers in jira/snapshot.ts and datadog/snapshot.ts.  Each page is one   *)
(* get of a client: retrying of net/retry.ts with the pauses of             *)
(* net/retry-after.ts.  The service is modelled beside the reader: its list *)
(* may change between two requests, it may refuse a request, and one that    *)
(* is read by cursor may hand out the same page again.                      *)
(***************************************************************************)
EXTENDS Integers, Sequences, FiniteSets, SequencesExt

CONSTANTS Items,         (* what a service may list, in its sort order      *)
          Dropped,       (* those the caller's mapper or filter drops       *)
          PageSize,      (* PAGE_SIZE, SEARCH_PAGE, AGILE_PAGE              *)
          MaxEventPages, (* MAX_EVENT_PAGES                                 *)
          Attempts,      (* ATTEMPTS                                        *)
          Asked,         (* the waits a Retry-After may name, in seconds    *)
          Edits,         (* bound: changes of the list while it is read     *)
          Repeats,       (* bound: cursors that name the page just read     *)
          Null

ASSUME PagingAssumption ==
  /\ Items \subseteq Nat \ {0} /\ IsFiniteSet(Items)
  /\ PageSize \in Nat \ {0}
  /\ MaxEventPages \in Nat \ {0}
  /\ Attempts \in Nat \ {0}
  /\ Asked \subseteq Int /\ Null \notin Int

VARIABLES kind,     (* which caller of readPages is reading                 *)
          service,  (* the items the service lists now                      *)
          page,     (* readPages: page, Null once there is no next one      *)
          items,    (* readPages: items                                     *)
          n,        (* readPages: n                                         *)
          attempt,  (* retrying: attempt, for the page being asked          *)
          stall,    (* seconds this page has been slept on                  *)
          reading,  (* "yes", "done", "failed": how readPages ends          *)
          lasting,  (* history: items listed during the whole reading       *)
          removals, insertions, (* history: what the service did            *)
          repeats   (* history: pages that were, or will be, read again,    *)
                    (* in whole or in part                                  *)

pagingVars == <<kind, service, page, items, n, attempt, stall, reading,
                lasting, removals, insertions, repeats>>

ByNumber == {"monitors", "teams", "slos"}
ByOffset == {"incidents", "boards", "boardBugs"}
ByCursor == {"bugs", "events"}
Kinds == ByNumber \cup ByOffset \cup ByCursor

RankIn(S, i) == Cardinality({j \in S : j <= i})
InOrder(S) == [k \in 1..Cardinality(S) |-> CHOOSE i \in S : RankIn(S, i) = k]

Listed == Cardinality(service)

(* Where the asked page starts: a page number and an offset count places, a  *)
(* cursor names the last item given.                                        *)
Start ==
  CASE kind \in ByNumber -> page * PageSize
    [] kind \in ByOffset -> page
    [] OTHER -> RankIn(service, page)

Least(a, b) == IF a < b THEN a ELSE b
Most(a, b) == IF a > b THEN a ELSE b

(* What the service answers, and whether it has more after it.              *)
Served == {i \in service : RankIn(service, i) \in (Start + 1)..(Start + PageSize)}
More == Start + Cardinality(Served) < Listed

(* A closed incident, an issue resolved as no bug, an event of no monitor, a *)
(* monitor or board without an id and an issue without a key are dropped;   *)
(* all teams and objectives are kept.                                       *)
Kept(S) == IF kind \in {"teams", "slos"} THEN S ELSE S \ Dropped

(* The boards and their bugs count what was kept for the next offset: a page *)
(* with a dropped entry is overlapped by the next one.                      *)
Overlapping == kind \in {"boards", "boardBugs"} /\ Kept(Served) # Served

(* Only the events are given a maximum.                                     *)
MayReadOn(count) == kind = "events" => count < MaxEventPages

FirstPage == 0

PageCount == (Listed + PageSize - 1) \div PageSize

NextMonitors == IF page + 1 < PageCount THEN page + 1 ELSE Null

(* The service may name the page it gave: `next > page` stops there.        *)
NextTeams(named) == IF named # Null /\ named > page THEN named ELSE Null

NextSlos == IF Cardinality(Served) < PageSize THEN Null ELSE page + 1

(* Mutant: the kept items are counted instead.                              *)
NextIncidentsByKept == IF Cardinality(Kept(Served)) < PageSize THEN Null ELSE page + PageSize

(* What is counted is the answer, not what the mapper keeps of it.           *)
NextIncidents == IF Cardinality(Served) < PageSize THEN Null ELSE page + PageSize

NextBoards ==
  IF More /\ Kept(Served) # {} THEN page + Cardinality(Kept(Served)) ELSE Null

(* Mutant: each page starts at the last item of the page before.            *)
NextBoardBugsOverlapping ==
  IF page + Cardinality(Kept(Served)) < Listed /\ Kept(Served) # {}
  THEN page + Cardinality(Kept(Served)) - 1 ELSE Null

NextBoardBugs ==
  IF page + Cardinality(Kept(Served)) < Listed /\ Kept(Served) # {}
  THEN page + Cardinality(Kept(Served)) ELSE Null

(* A token as long as more follows: the last item served.                   *)
NextCursor == IF More THEN Max(Served) ELSE Null

NextPages ==
  CASE kind = "monitors" -> {NextMonitors}
    [] kind = "teams" -> {NextTeams(named) : named \in IF More THEN {page + 1} ELSE {page, Null}}
    [] kind = "slos" -> {NextSlos}
    [] kind = "incidents" -> {NextIncidents}
    [] kind = "boards" -> {NextBoards}
    [] kind = "boardBugs" -> {NextBoardBugs}
    [] OTHER -> {NextCursor}

-----------------------------------------------------------------------------
CapSeconds == 60
FloorSeconds == 1

(* Mutant: hours asked for are hours slept.                                 *)
RetryAfterUncapped(asked) == IF asked = Null THEN Null ELSE Most(asked, FloorSeconds)

(* Seconds asked for, a date that is past counting below zero; a header      *)
(* that is absent or unreadable asks for nothing.                           *)
RetryAfter(asked) == IF asked = Null THEN Null ELSE Least(Most(asked, FloorSeconds), CapSeconds)

Backoff(a) == 2 ^ a + 1

(* ATTEMPTS are few enough for the backoff to stay within the cap.           *)
ASSUME BackoffAssumption == \A a \in 0..(Attempts - 2) : Backoff(a) \in FloorSeconds..CapSeconds

Pause(asked) == IF RetryAfter(asked) = Null THEN Backoff(attempt) ELSE RetryAfter(asked)

-----------------------------------------------------------------------------
PagingInit ==
  /\ kind \in Kinds
  /\ service \in SUBSET Items
  /\ page = FirstPage
  /\ items = <<>>
  /\ n = 0
  /\ attempt = 0
  /\ stall = 0
  /\ reading = "yes"
  /\ lasting = service
  /\ removals = 0 /\ insertions = 0 /\ repeats = 0

history == <<kind, service, lasting, removals, insertions>>

TurnTo(next) ==
  /\ page' = next
  /\ n' = n + 1
  /\ attempt' = 0
  /\ stall' = 0
  /\ reading' = IF next # Null /\ MayReadOn(n + 1) THEN "yes" ELSE "done"

(* The page is read and the next one asked for, or the reading returns.     *)
ReadPage ==
  /\ reading = "yes"
  /\ items' = items \o InOrder(Kept(Served))
  /\ \E next \in NextPages : TurnTo(next)
  /\ repeats' = IF Overlapping THEN repeats + 1 ELSE repeats
  /\ UNCHANGED history

(* The service hands out the cursor it was given: the same page again.  No   *)
(* reader compares the two; only the events have a maximum.                 *)
ReadPageAgain ==
  /\ reading = "yes"
  /\ kind \in ByCursor
  /\ page # FirstPage
  /\ repeats < Repeats
  /\ repeats' = repeats + 1
  /\ items' = items \o InOrder(Kept(Served))
  /\ TurnTo(page)
  /\ UNCHANGED history

(* A status that is retried: Exhausted on the last attempt, a pause before. *)
RefusedForNow(asked) ==
  /\ reading = "yes"
  /\ IF attempt >= Attempts - 1
     THEN reading' = "failed" /\ UNCHANGED <<attempt, stall>>
     ELSE /\ attempt' = attempt + 1
          /\ stall' = stall + Pause(asked)
          /\ UNCHANGED reading
  /\ UNCHANGED <<history, page, items, n, repeats>>

(* Any other status, the network, the timeout, a body that is no JSON, or    *)
(* an abort during the pause: thrown on, and nothing that was read is kept. *)
ReadFails ==
  /\ reading = "yes"
  /\ reading' = "failed"
  /\ UNCHANGED <<history, page, items, n, attempt, stall, repeats>>

Edit == removals + insertions < Edits /\ reading = "yes"

GoesAway(i) ==
  /\ Edit
  /\ i \in service
  /\ service' = service \ {i}
  /\ lasting' = lasting \ {i}
  /\ removals' = removals + 1
  /\ UNCHANGED <<kind, page, items, n, attempt, stall, reading, insertions, repeats>>

Appears(i) ==
  /\ Edit
  /\ i \notin service
  /\ service' = service \cup {i}
  /\ insertions' = insertions + 1
  /\ UNCHANGED <<kind, page, items, n, attempt, stall, reading, lasting, removals, repeats>>

Reader ==
  \/ ReadPage
  \/ ReadPageAgain
  \/ \E asked \in Asked \cup {Null} : RefusedForNow(asked)
  \/ ReadFails

PagingNext == Reader \/ \E i \in Items : GoesAway(i) \/ Appears(i)

PagingSpec == PagingInit /\ [][PagingNext]_pagingVars

-----------------------------------------------------------------------------
Read(i) == Cardinality({k \in 1..Len(items) : items[k] = i})
Missed == {i \in Kept(lasting) : Read(i) = 0}
ReadTwice == {i \in Items : Read(i) > 1}

(* Reading a list that stays as it is, page after page, gives every item the *)
(* caller keeps, once and in order; and unread says truly whether pages     *)
(* were left: only the events, cut at MAX_EVENT_PAGES, may leave some.      *)
ReadsTheWholeList ==
  reading = "done" /\ removals + insertions + repeats = 0 =>
    LET all == InOrder(Kept(service)) IN
    /\ IsPrefix(items, all)
    /\ page = Null => items = all
    /\ page # Null => kind = "events" /\ Listed > MaxEventPages * PageSize

(* A list that changes while it is read: an item that was listed the whole   *)
(* time is passed over only if as many items went away, and read twice only *)
(* if as many came; reading by cursor does neither.                         *)
ShiftsAreBounded ==
  reading = "done" /\ page = Null /\ repeats = 0 =>
    /\ Cardinality(Missed) <= removals
    /\ Cardinality(ReadTwice) <= insertions
    /\ kind \in ByCursor => Missed = {} /\ ReadTwice = {}

(* However the service answers, one page is slept on for at least a second   *)
(* per refusal and at most the cap per retry: a Retry-After of none, of the *)
(* past or of hours neither hammers the service nor stalls the fetch.       *)
StallWithinBounds ==
  /\ stall >= attempt * FloorSeconds
  /\ stall <= (Attempts - 1) * CapSeconds

(* A reading asks for no more pages than the service can fill, one that is   *)
(* not full, and those it reads again.  The events stop at their limit      *)
(* whatever the cursor says; the search for bugs has none and goes on for   *)
(* as long as the service names the same cursor.                            *)
PagesAreBounded ==
  /\ n <= Cardinality(Items) \div PageSize + 1 + repeats
  /\ kind = "events" => n <= MaxEventPages

(* Asking is bounded in time and in number.                                 *)
FetchIsBounded == StallWithinBounds /\ PagesAreBounded
=============================================================================
