# Verification of dependency-explorer

TLA+ models of the stateful parts of dependency-explorer, the TLC runs that
check them, and theorems about them that TLAPS proves for every value of their
constants.  Paths below are relative to `src/packages/` of the repository.

The repository is a TypeScript workspace of four packages: `schema` (zod
schemas), `data` (the declared dataset of services, flows and resources),
`discovery` (command-line programs that pin the production branches of the
source repositories, scan them, compare them with the dataset and fetch Jira,
Datadog and AWS snapshots) and `web` (a single-page explorer whose whole state is
in its URL).  What is hard about it is in `discovery`, where concurrent requests,
several processes, git working trees of earlier runs and files written one by one
meet failures at any point, and in `web`, where a sequence of patches and of Back
and Forward must keep a page and an address in step.

## 1. Inventory

For each component: the state it keeps, its operations, what makes it hard, and
what would make it correct.

| Component | State and operations | Hard behaviour | Correct when |
|---|---|---|---|
| **Bounded concurrency** (`discovery/src/net/at-most.ts`) | `mapAtMost`: lanes over one shared iterator, a map of failures, a results array. `Bound`: a counter of free slots and a queue of resolvers, `run`. | Lanes resume in any order; one call fails while others run; a slot is handed to a caller that has not resumed. | It settles as a plain loop would, only when nothing runs any more; no call after a failure; slots are conserved, handed on in order, never idle. |
| **Retrying client** (`net/retry.ts`, `net/retry-after.ts`, `jira/client.ts`, `datadog/client.ts`) | Attempts, pauses after a 429, a slot per request. | The pause is inside a lane and outside a slot; the retry queues again. | No more than IN_FLIGHT requests; attempts bounded; nothing left behind. |
| **Label probes** (`jira/snapshot.ts`) | A breadth-first search over prefixes: one round of `mapAtMost` per level. | Rounds, truncated answers, failures in a round, a budget of calls. | A label is lost only where an answer was cut and could not be opened; a round ends, whatever is retried. |
| **Paged reading** (`net/pages.ts` and its callers) | An offset, a page number or a cursor; the items so far. | Lists that change between pages; a cursor that repeats; the maximum. | Every item once on a list that stays; on one that changes, no more lost or read twice than the changes shift; an end. |
| **Snapshot folders** (`snapshot-dir.ts`, the `fetch-cli.ts` files) | `<home>/<day>/` with one JSON file per key, a hidden temporary folder per writer. `write`, `read`, `latestSnapshotDir`. | A throw or a kill between any two calls; two fetches on a day; a reader in between. | Never files of two fetches in a folder; a success is whole; files of others are taken only by a fetch that looked before they came; a read is one snapshot. |
| **Pinning and graphs** (`pinned.ts`) | `.pinned/<repo>` worktrees, `graph.json` in them, the lists `pinned` and `skipped`; the user's source clones with their branches and FETCH_HEAD. `pinRepos`, `removeWorktree`, `buildGraphs`, `emptyPinError`. | Any git command fails; worktrees and graphs of earlier runs; origin and the clones move; a kill in the middle. | What is reported pinned is on disk, is fresh, has a graph of that commit; what failed leaves nothing; every target is answered for. |
| **Discovery run** (`discover.ts`, `discovery-run.ts`, `baseline.ts`) | The report, the committed `discovered.json`, `monolith-routes.json`, `resources.json`, `listeners.json` and `baseline.json`, the exit code. | Four files written one after the other with an early return between; the scan reads directories, not the list of pins; several runs with different flags. | Files never mix commits unnoticed; a green check means the baseline was really rescanned; a missing input refuses the derived file; a cut input stops the run. |
| **Call-edge grading** (`code-grades.ts`, `code-wiring.ts`, `route-grades.ts`) | Pure: a graph and the declared edges give a grade. | Ambiguous nodes, search depth. | A grade has its evidence. |
| **Checks** (`flow-check.ts`, `branch-check.ts`, `state-machine-check.ts`, `area-check.ts`, `resource-check.ts`, `listener-check.ts`) | Pure: the dataset against what was extracted. | Missing repositories, empty extractions, states nested in states. | Drift is found exactly; what cannot be seen is skipped, never passed or reported. |
| **Cascade and listeners** (`data/src/listeners-derive.ts`) | Pure: a write triggers listeners which write again. | Cycles, writes that run some listeners only. | It terminates; every reachable table, by its shortest chain. |
| **Overlays** (`datadog/overlay.ts`, `datadog/health/`, `jira/overlay.ts`) | Pure: a snapshot to verdicts per node. | Missing series, boundaries of thresholds. | A verdict never claims more than its data. |
| **Extractors** (`extractors/`) | Pure: source text to facts. | Regular expressions over Ruby, TypeScript and Terraform. | Tested by fixtures. |
| **AWS snapshot** (`aws-snapshot.ts`, `aws-fetch.ts`, `extractors/aws-live.ts`) | Sequential CLI calls, each answer written in place in the folder of the day; a comparison of that folder with the map. | The account changes between two calls; a call of several fails; a second fetch of the day is cut short. | What is reported missing or coupled was so at some moment of the fetch. |
| **URL state** (`web/src/hooks/useUrlState.ts`, `shell/validateUrlState.ts`) | The history, the URL, the parsed state. Patches, Back, Forward, reload, shared links. | Patches that forget other pages' keys; push or replace; repairs of unknown names. | A reload shows what was shown; Back undoes a navigation and stays in the explorer. |
| **Overlay loading, diagrams** (`web/src/hooks/useOverlay.ts`, `diagram/`) | A promise per overlay for all readers; renders and clipboard writes that end late. | Readers mount and leave while a load is out; a late result of an earlier diagram. | One request, one answer for all; what is shown, exported or said belongs to the diagram on screen. |
| **Impact** (`web/src/utils/impact.ts`) | A level of nodes and what is settled, round by round. | A node is settled at its first hop, by the strongest effect of that hop only. | Every effect has a cause one hop nearer; none is left out. |

How they interact: `fetchJiraSnapshot` runs its probes through `mapAtMost`, each
probe calls the client's `get`, which calls `retrying`, which enters `Bound` once
per attempt; the fetch programs hand their answer to `snapshotFolder.write`, and
`discover` reads the latest folder back and hands it to the overlays.  `discover`
calls `runDiscovery`, which calls `pinRepos` and `buildGraphs`, then reads the
worktrees they left on disk (shared state between runs), then `writeOutputs`, and
`discover` compares the findings with the baseline.  `web` loads the committed
files and the overlays.


## 2. Modules

| Module | Models | Kind |
|---|---|---|
| `SequentialMap` | what a caller of `mapAtMost` is promised | abstract specification |
| `MapAtMost` | `mapAtMost`, one step per job of the event loop | implements `SequentialMap` |
| `Bound` | the class `Bound` | component |
| `JiraProbes` | one round of probes: `MapAtMost` and `Bound` by INSTANCE, `get`, `retrying` | composition |
| `LabelSearch` | the search of `featureAreaLabels` over prefixes, a round of probes per step | component |
| `PagedFetch` | `readPages` with the page rules of its eight callers, `retrying`, `Retry-After`, and the service that is read | component |
| `Pinning` | `pinned.ts`, origin and the source clones | component |
| `DiscoveryRun` | `runDiscovery`, `writeOutputs`, `baseline.ts`, exit codes, over many runs | extends `Pinning` |
| `SnapshotFolder` | `snapshot-dir.ts`, one file system call per step, several processes | component |
| `SourceChecks` | the verdicts of `flow-check.ts`, `branch-check.ts` and `area-check.ts` on each kind of reference | component |
| `MachineCheck` | `state-machine-check.ts`: an authored state machine against its definition | component |
| `ListenerCascade` | `cascadeFrom` and `alsoChanges` of `listeners-derive.ts` | component |
| `ImpactSearch` | `computeImpact` of `impact.ts` | component |
| `AwsSnapshot` | `aws-snapshot.ts`, the account it lists, and what `aws-live.ts` says of queues and buckets | component |
| `UrlState` | `useUrlState.ts`, `validateUrlState.ts`, the patches of every page, the browser's history | component |
| `OverlayLoad` | `useOverlay.ts`: one request for all readers of an overlay | component |
| `MermaidRender` | `MermaidDiagram.tsx`, `Diagram.tsx`, `CopyMermaid.tsx`: late renders and copies | component |
| `MapAtMostProofs`, `BoundProofs`, `JiraProofs` | the theorems about `MapAtMost`, `Bound`, and `JiraProbes` and `LabelSearch` | proofs |
| `SnapshotProofs` | the theorems about `SnapshotFolder` and `AwsSnapshot` | proofs |
| `DiscoveryProofs` | the theorems about `Pinning` and `DiscoveryRun` | proofs |
| `UrlProofs` | the theorems about `UrlState` | proofs |
| `AnswersProofs` | the theorems about `PagedFetch`, `OverlayLoad` and `MermaidRender` | proofs |
| `DerivedProofs` | the theorems about `ImpactSearch`, `SourceChecks`, `MachineCheck` and `ListenerCascade` | proofs |
| `MCAnswers`, `MCDerived` | instances that hold several components, one per behaviour (the variable `part`) | instance |
| the other `MC...` | the instance TLC checks | instance |

`MCAnswers` puts `PagedFetch`, `LabelSearch`, `OverlayLoad`, `MermaidRender` and
`AwsSnapshot` under one specification, `MCDerived` the four modules of what is derived by an algorithm.
The components share no state: a behaviour picks one of them in `Init` and leaves
the variables of the others alone, so each is checked as if it were alone.

### From code to model

**MapAtMost.** JavaScript code between two awaits runs without interruption, so a
step is one such piece.  `lane[l]` is the item that lane `l` awaits, `taken` the
position of the shared iterator, `out` and `failures` the two collections.
`Settle` is the promise of `fn`; `StoreAndTake`, `StoreAndReturn` and `Fail` are
what follows `await fn(item)`: the result stored and the loop's guard read again,
or the catch.  `Return` and `Throw` follow `Promise.all`; `Throw` picks the
smallest failed index.  All lanes take their first item synchronously, in `Init`.

**Bound.** `free` is `#free`, `waiting` is `#waiting` (by caller rather than by
resolver).  `LeaveToNext` shifts a resolver and calls it: the caller is then
`granted`, and becomes `running` in a later job (`Resume`), with newcomers free to
call `run` in between.

**JiraProbes.** A lane that takes an item calls `get`, `retrying` and `Bound.run`
without an await in between, so `NextProbe` joins `StoreAndTake` with `Enter`.  An
answer leaves the slot in `finally` before the lane resumes.  A 429 with attempts
left gives the slot back and sleeps; `Wake` enters again.  Which probes fail is
chosen once; how many 429s precede an outcome is free.

**LabelSearch.** `level` holds the prefixes of a round, `left` the calls that remain,
`found` the labels so far.  The prefixes of a level are of one length and the code
lists them in the order of `LABEL_CHARS`, so a set stands for the list and `Batch`,
its first `left` in that order (`Before`), for the slice.  A round is one step (`Round`), since `MapAtMost`
shows that a round comes back as a plain loop over its prefixes would, and
`RoundThrows` is the round in which a probe fails.  Jira picks which of the labels
that match a prefix it suggests; an answer of `FullAnswer` labels opens the prefix,
one character at a time, within `MaxPrefix` and the calls left.  A label is a
sequence of characters because the search is about its prefixes.

**PagedFetch.** `page` is the number, offset or cursor of the next page, `items` what
was read.  Items are numbered in the order the service lists them in, so a page is the
set of the items of certain ranks (`RankIn`) and `InOrder` lists what of it is kept.
`kind` is the caller: three read by page number, three by offset, two by
cursor, and each has the rule of its own source for "is there a next page" (a page
that is not full, a total, an end mark, a maximum of pages).  `Start`, `Appears` and
`GoesAway` are the service: its list may change between two requests.  `Served` is
what it answers, `More` whether it says that more follows, and `Kept` what the mapper
and filter of the caller leave of it.  `ReadPageAgain` hands out the page just read, as
a search by cursor may: only the events have a maximum against it, the search for Jira
bugs (`jira/snapshot.ts:114`) has none.  The boards and their bugs count what was kept
for the next offset, so a page with an entry without id or key is overlapped by the
next one (`Overlapping`), and one with nothing else ends the reading.  A 429 sleeps for `Retry-After` clamped to 1..60 seconds, or for
`2^attempt + 1`, and asks again; attempts are counted per page.

**Pinning.** Each git command is a step: `Fetch`, `RevParse`, `Checkout` (of an
existing worktree, or `worktree add`), `RemoveWorktree`, and each may fail
(`GitFails`, `RemoveFails`).  Between steps, `Push`, `Pull`, `FetchElsewhere` and
`MoveClone` are what others do.  Commits of a production branch are numbered in
their order; `Wip` is a commit of another branch.  `graph` is the
`built_at_commit` of the untracked `graph.json`, which a checkout leaves alone.
`Crash`, and a graphify that fails while it writes, may leave a graph cut short
(`Broken`), which the next run that pins the repository fails to parse.

**DiscoveryRun.** A committed file is modelled by the commits it was derived from.
The scan is one synchronous pass, hence one step, and it reads whatever worktree
exists (`Scanned`), as `findRepos` lists directories, but graphs of pinned
repositories only (`Parsed`): one that does not parse ends the run (`ScanFails`), a
run that pinned nothing is refused; `Abort` gives the exit code of each.
`writeOutputs` is one step per file, with the early return when the monolith's
readers are unavailable.  `earlier` is not in the code: it remembers the files that
the early return leaves, as the run found them.  A
finding stands for a repository at a commit, so that a baseline accepted at one
commit is told from any other.

**SnapshotFolder.** A folder is a function from keys to the writer whose answer
the file holds.  `rmSync` is one step per entry; `renameSync` is one step and
refuses a folder that is not empty.  `AddForeign` is the user, who puts a file of
another kind into a day's folder at any time; `unaware` is not in the code: it
remembers which fetches had looked into the folder by then (`snapshot-dir.ts:43`), and
`RemoveForeign` is such a fetch taking the file with the folder.  A reader reads key by key; a hidden temporary
folder is a candidate only where there is no day at all, as the sort of
`latestSnapshotDir` has it.

**SourceChecks.** The checks walk over the references a dataset declares (a unit's
path, an edge's flag, the callee of a connection, the source of a rule, an area's
terms, ...) and judge each by itself, so a state has one reference, the code as a
set of facts (`file`, `text`, `route`, ...), and the repositories that are checked
out.  `Verdict` is what the code says of the reference: `ok`, a finding, or a skip.
Code and check-outs come and go in any order; facts of a repository that is not
there are not seen.

**MachineCheck.** `definition` is the machine as it runs, `authored` the flow's.  A
machine is a set of states, each with the state it is nested in and a bag of arrows
(next, default, choice, catch, the start of an item processor, a branch), since the
code compares multisets.  `LevelDrift` is one call of the code's recursive `compare`;
`Compared` are the levels that its recursion gets to, from the outermost into each
state whose twin has its name and type, to any depth.  Either side is edited, an
entry or the file may be unreadable, and `Author` draws the flow anew.  An edit leaves
a definition Step Functions takes (`WellFormed`, `Proper`).

**ListenerCascade.** The surface is a set of listeners, each with the table and the
events it runs on, its phase, and its effects, which are writes.  `Visits` follows
every path and ends it at a (table, event) that is on the path, as `cascadeFrom` does:
each visit of listeners has a key more on its path than the one it is behind, so no
path is longer than there are keys.
A discovery run adds a listener or drops one.  The Rails order, the mode, the grade
and the mark of a cycle do not change where the walk goes and are left out.

**ImpactSearch.** `level` holds the nodes of the next hop, `entries` what is settled.
`Round` settles a level and finds the next one; within a level the strongest effect
of a node wins, and a settled node is not looked at again.  `Pick` asks again for
another origin.

**UrlState.** `state` is the `UrlState` of the code as a function of its keys, an
address is a function from the keys it has, and a patch is a function merged over
the state (`p @@ state`).  `MainOffers`, `PanelOffers`, `SearchOffers`,
`CrumbOffers` and `Offers` list the patches that the screen offers in a state, so a
`Pick` is one that a reader could make.  `CommitPatch` merges, forgets other pages,
writes the address and pushes or replaces.  `history.back()` only queues a move
(`Ask`), and so do the browser's buttons, pressed at any time and out of the explorer
and in again too; `Traverse` makes the move and `popstate` parses and validates the
address.  Each queued move says for checking whether FlowPage's Back asked for it with
no other move back to come (`sure`).
`Main` and `Panel` are what Explorer renders: the same choices in the same order.
`shown` is not in the code: it remembers what was last on screen at each entry.
A unit, a flow or an area is an id; the keys that filter within a page and the
renderer are left out.

**OverlayLoad.** `load` is the promise `loads` keeps under a name, `due` the effects
React has to run and the callbacks on the promise, each with the mounting it belongs
to.  A reader mounts with nothing to show, its effect asks or joins the promise that
is there, and its callback shows the answer unless the mounting is over.

**MermaidRender.** `renders` and `copying` are promises that are out.  `Turn` changes
the source or the renderer: the effect's cleanup cancels what is out and another
render starts.  A render resolves or rejects at any later time; `last` is the ref
that the PNG export reads, `status` what Copy says, `clipboard` the text it took last
and the instance of the button that wrote it, be that still there or not.

**AwsSnapshot.** `at` is the step of `fetchAwsSnapshot` a fetch is at, `folder` what each
file holds and the fetch it is of; a file that is missing or cut short is of no fetch and
reads as empty, as `loadAwsSnapshot` has it.  `List` is one CLI call and its write,
`ReadBucket` one call of the notification step, `FetchEnds` a call that throws or a kill,
while a file is written too.  `AccountChanges` is whatever others do to the account between
two calls; a queue that is deleted leaves its mappings behind, and a mapping is made only
to a queue that is there.  `alone` and `coupled` are not in the code: they remember what was
true of the account while a fetch ran.  One fetch runs at a time.  A listing is one step,
whether or not the CLI reads it in pages.

## 3. Runs

| Run | Bounds | Shows |
|---|---|---|
| `map_at_most` | 5 items, 3 lanes, any failing set | in bounds, quiet once settled, no call after a failure, implements `SequentialMap`, settles |
| `bound` | 5 callers, 2 slots | slots conserved, none idle, first come first served, no starvation |
| `jira_probes` | 4 probes, 3 lanes, 2 slots, 2 attempts | request bound while running and nothing left behind when settled (`RequestsInBounds`), implements `SequentialMap`, the round settles |
| `pinning` | 2 repositories, 2 commits, with and without `--no-fetch`, others fetch in the clone of one of them, a clone may lose its `.git` | pins are on disk and graphed at that commit, and fresh where nobody else fetches; failures leave nothing; every target answered |
| `discovery_run` | 2 runs of the three scripts, 2 repositories, 2 commits | committed files do not mix commits unnoticed, and after the early return are what they were (`HonestFiles`); a graph is of the commit of the facts; a green check means the accepted baseline; a graph cut short stops the run before it writes or passes (`CutGraphStops`) |
| `snapshot_folder` | 2 fetches, 1 reader, 2 days, 2 files, foreign files from the start and one that comes at any time (`MaxLate`) | folders are never a mix; success is whole, and files of others are taken only by a fetch that looked before they came (`ReplacesOnlyByAWhole`); reads are one snapshot; writes end |
| `url_state` | the monolith and a service, 2 flows, 2 resources, 2 connections, one of the rest; 10 links; histories of 2 entries, 2 moves asked for at once | reload and Back show what was left (`EntryShowsWhatWasLeft`); Back leaves the explorer only behind another Back still to come (`BackStaysInside`); a pick is what is shown, at an address of its own (`PickLandsOnItsPage`) |
| `answers` | paging: 5 items, one of them dropped, pages of 2, 2 event pages, 3 attempts, waits of -5 and 7200 s, 2 edits, 3 repeats; labels: up to 5 of 10 words over two probed characters and one that is not, full answers of 2, prefixes up to 2, 5 calls; 3 readers of 2 overlays, 2 mounts each; 2 diagrams, 4 turns, 2 copies; 2 queues of one bare name, a known and an unknown function, a bucket, 2 fetches, 2 changes of the account | a list that stays is read whole and once; one that changes loses and repeats no more than its changes shift; pages, but for those read again, and pauses are bounded; a label is lost only where it is cut; readers agree; what is drawn, exported and said is of the diagram on screen, and it is drawn; an orphan queue stood alone and a coupling was there during the fetch that reported it (`FindingsStood`) |
| `derived` | each kind of reference and its variants over the monolith, a service and the library; machines of three levels, 2 edits; 9 listeners on 4 tables; 4 services, 8 connections, 3 relations, 2 hops | verdicts are true; findings are the drift; the tables a write also changes are those at the ends of its chains; an effect has a cause one hop nearer, and none is left out (`ImpactIsExact`) |
| `leftover_read` | as `discovery_run`, a clone may lose its `.git` | violated: the clone is skipped as not checked out, and its worktree is scanned as if pinned |
| `missing_monolith` | as `discovery_run` | violated: `resources.json` rewritten without the monolith |
| `sync_chain` | the map of `derived` | violated: the hard failures of an impact report are not the synchronous chain |

**Why the bounds are enough.** Five items on three lanes is the least with a lane
that comes back twice while another is still at its first item, so that a late
failure of an early item can meet an early failure of a late one.  Three waiting
callers distinguish a queue from a stack and from a bag.  Three lanes over two
slots is the shape of 6 over 4 in the code: a lane can queue while another sleeps.
Two commits give "older", "same" and "newer than the run"; two repositories, one of
them without code, give a failure of one beside a success of the other, and the
loop's order.  `pinning` has no bound on runs, so worktrees and graphs of any earlier
run are met; `discovery_run` needs two, one to leave something behind and one to find
it.  Two files are the least that can be mixed; one foreign file is enough to come
before, between or after the steps of either fetch.

Five items in pages of two give full pages, a short last one, a last one that is just
full, and an item whose dropping makes a full page look short.  Two edits can shift
the same page twice or cancel out; the waits are one in the past and one beyond the
clamp.  Five calls are fewer than the prefixes two characters can open, so the calls
run out; a word that begins with the third character is never probed for.  Three
readers of two overlays are two that share a request beside one that does not; two
mounts are one that is over and one that is not.  Four turns go to another diagram and
back while two renders are out.  Two changes of the account are the least that take a
consumer and its queue away between two calls, and two fetches the least that can be
mixed in a folder.  Three levels of states are the least with a
level inside of a nested one, which is compared only if both states around it match.  The listeners write back to a table on the path
under the same event and under another, touch, and run on validation only.  Four
services and a resource that call and message each other in circles are enough for a
node to be reached at two hops by two effects, which is where the search could go
wrong; the code's four hops, and any other number, are what the theorems are for.

A history of two entries holds an entry and the one it was left from; the browser
drops older ones (browsers keep about fifty), so a session has no bound.
Two moves asked for at once are the least that get in each other's way:
`canGoBack` (`useUrlState.ts:184`) reads the mark of the entry that a first
`history.back()` has not left yet, and a second press of FlowPage's Back
(`Explorer.tsx:85`) leaves the explorer.  The run reaches this; `BackStaysInside`
says that nothing else lets that button out.

`url_state` assumes that its links are the documented ones (`Links`), and this cannot
be dropped.  With a link that names both `s` and
`flow`, `EntryShowsWhatWasLeft` fails: `forgetOtherPages` (`useUrlState.ts:192`) runs
on a page change only, so `s` stays in the state of the flows page, comes back on the
monolith page when a route of a file is opened, and a reload of that address opens
the microservices page.  `MCUrlState` has TLC evaluate the assumption on its instance
(`LinksAreTidy`, the hypothesis of the theorems of `UrlProofs`).

`CHECK_DEADLOCK FALSE` is set where the modelled program ends: a settled promise
(`map_at_most`, `jira_probes`), processes that have exited (`snapshot_folder`), a
reading, a search, a drawing or a fetch that is done or whose bounds are used up (`answers`),
and edits that are used up or a search with nothing left (`derived`).

**Fairness.** Weak fairness only.  A call of `fn` settles because the clients give
every request a timeout; a due job runs because the event loop runs it; a
synchronous program takes its next step because the file system calls return or throw
(`WritesEnd`); `mermaid.render` resolves or rejects (`RenderStep`).  Nothing
says that origin moves, that a caller calls `run` or that a program is started, that
a call throws, that a process is killed, that a list changes or that a reader turns
to another page: none of these is fair.

## 4. Theorems

All are proved by TLAPS for every value of the constants that satisfies the named
assumptions in the modules (sizes are natural numbers, special values differ from
ordinary ones, the set of callers is finite).

**MapAtMostProofs**: `TypeCorrect`, `Quiet`, `Bounded`, `NoLateCall`,
`ImplementsSequential`.  The inductive invariant ties the lanes to the calls: an
item is running or settled and not yet stored exactly if one lane, and only one,
awaits it; what the iterator gave out is stored, failed or awaited; failures are
among the failing items.  Without it a lane could return with its call still
running, which `Quiet` forbids.  `Bounded` maps the running calls into the lanes by
an injection.  `ImplementsSequential` needs one more fact: when lanes are done with
a failure recorded, every item smaller than the smallest failed one was taken and
succeeded, since the iterator gives items out in order.

**BoundProofs**: `TypeCorrect`, `SlotsKept`, `WorkConserving`,
`FirstComeFirstServed`.  The invariant says that the queue holds exactly the waiting
callers, each once, that free and held slots add up to `Limit`, and that nothing is
free while somebody waits.  That the queue has no repetition is what makes the
cardinality of the holders move by one.

**JiraProofs**: `RoundsKeepTheirBounds`, `RoundsImplementSequential`.  Each step of a
round is a step of `mapAtMost` or none and a step of `Bound` or none, so the two
modules above, taken by INSTANCE with the sizes of a round, give their invariants
here; their assumptions on the constants follow from those of `JiraProbes`.  What is
left is `Coupled`: a probe is inside `run` only while its lane awaits it, and one
that sleeps after a 429 has an attempt left.  From it a settled round has no request,
pause or queued call left.

`NoLabelIsLost` is about the search those rounds serve, for any labels, characters,
limits and choices of Jira.  `FoundOrDue` says that a label not found yet lies under a
prefix that is still to be probed, or falls through where `LabelsFoundUnlessCut` allows
it.  A step keeps it only because of `Levelled`: the prefixes of a level are of one
length and none of them was probed before, so a prefix that a budget cut off was never
probed, and a label under an opened prefix goes on with a character whose extension is
in the next level.

**AnswersProofs**: `FetchesAreBounded`, `ListsAreReadWhole`, `ShiftsStayBounded`, for
lists and pages of any size, all eight callers and any number of changes.  They rest
on a small library of ranks: the ranks of a set number it without gaps
(`RankNumbers`), as many items lie between two ranks as the ranks differ by
(`RankSlice`), a set followed by another is listed as the one followed by the other
(`InOrderJoins`), and an edit moves the ranks after it by one (`RankWithout`,
`RankWith`).  `NextPagesAre` brings the eight page rules to one: either nothing is
left after this page, or the page is a full one and the next starts where it ends.

- `FetchesAreBounded`: `Positions` says where the next page starts after `n` pages, and
  for a cursor how many of all items lie before it, so that the number of full pages
  that were not handed out again is bounded whatever the list does; `Stalls` adds up the pauses of one page.  It
  assumes that the backoffs of `Attempts` stay within the cap (`BackoffAssumption`;
  with the five of the code they are at most 9 seconds), which the run evaluates.
- `ListsAreReadWhole`: where no page is read again, `Whole` says that an undisturbed reading holds what is kept of
  the first `n` pages, in order, and goes on right after them.
- `ShiftsStayBounded`: the invariant is not about what is missed but about what is going
  to be.  For page numbers and offsets, `Skipped` are the unread items that have moved
  into the pages read, `Exposed` the items read that have moved out of them: a removal
  adds at most one to the first, an insertion at most one to the second, and a page read
  adds to neither.  For cursors, `Divided`: everything before the cursor was read, once,
  and nothing after it.

`ReadersAgree` and `DrawingsAreOfTheSource` hold for any number of readers, mountings,
turns and copies; a clipboard write of a button that is gone may end after one of the
button on screen, which is the only way "Copied" is ever belied.  `AskedOnce` says that a name is asked for by the first effect that
runs and never again, `ShownOrDue` that a mounted reader still has something due or
shows what came; `RenderInv` that a render that is live is one of the source on screen.

**DiscoveryProofs** has two parts.  The first is about the pins: `TypeCorrect`, `PinsAreOnDisk`, `FailedPinsAreGone`,
`PinsAreFresh`, `GraphsAreAtThePin`, `TargetsAreAnswered`.  `LoopInv` says where the
loop of `pinRepos` is: the repository at work has left `todo`, is not pinned, and is
skipped only while it is being removed; repositories still to do have neither
answer; every other one has.  `FreshInv` follows the commit from origin through
FETCH_HEAD and `rev-parse` to the worktree; it needs that nobody else fetches in the
clone (`FreshPin` speaks of the clones outside `OthersFetch`): FETCH_HEAD is read by a
command of its own (`pinned.ts:51`), and an editor's fetch between the two makes a
branch at work the pin.  `GraphInv` says what the second loop has left to do.

The second part: `FilesAreHonest`, `GraphsAreOfTheFacts`, `GreenIsTheBaseline`,
`CutGraphsStopTheRun`, for any number of runs.  Each step of `discover` is a step of `Pinning` or leaves its
variables alone, so the invariant of the first part holds throughout.  To it come
`ReportInv`, what the run holds in memory is what is on disk for it, and
`WrittenInv`, the files written so far are of this run's commits: the second is what
carries `HonestFiles` from one write to the next, across a kill in between, and
past the early return to what the run found (`earlier`).  That no file is written with
a graph cut short needs the first part too: once the graphs are done the worktrees
change no more.

**SnapshotProofs**: `DiskHoldsSnapshots`, `ReadsAreOneSnapshot`,
`SnapshotsReplaceWhole`, for any number of fetches, readers, days and files.  The
argument is one about ownership: a temporary folder holds only what its own writer
put there (`OwnTemp`) and is renamed as a whole.  A reader has read of one version,
and its folder has no other unless it was replaced (`ReadersKeepOneSource`).  A fetch
that removes a folder had looked into it, so a file of another kind that is there came
later and the fetch is in `unaware`: the guide's "never replaced" holds up to that.

`FindingsWereTrue` is about the AWS fetch, for any number of queues, functions, changes
and fetches.  `ListedOrAlone` is its heart: once the mappings are listed, a queue that
is there or has a consumer is in the list or was seen alone, since a consumer comes
only to a queue that is there; that is why they must be listed first.

**DerivedProofs**: `ImpactTypeCorrect` and `ReportsAreExact` hold for every map and any number of hops.
The invariant they need is that a level is of one hop and lies outside everything
settled (`LevelIsOutermost`).

`ChecksAreTruthful` holds for every dataset: a verdict looks at facts of repositories
that are there (`FilesWhereCheckedOut`, `ExtractedWhereCheckedOut`), so what it finds
is in the code and what it does not find is missing from it or not checked out.  Each
kind of reference has its lemma, from the comparison of its verdict with what the
reference says; where it blames what holds, the token is only in a repository that is
not checked out (`OnlyElsewhere`, §5), and that repository is named as skipped.

`MachineStaysWellFormed` and `MachineFindingsAreTheDrift` hold for machines nested to any
depth, and `ChangesAreTheChains` for any finite surface of listeners.  Both walks are
functions of the number of steps (`Levels`, `Visits`, `RunWithin`), and what holds of
every value of such a function needs three lemmas that are proved here from the
well-foundedness of the numbers, because the induction theorems of the library take
an operator as a parameter: a set that has 0 and every successor has every number
(`NatsOneByOne`); a function with a given first value and a given step exists, so that
the `CHOOSE` behind a recursive definition has one to choose (`IteratesExist`); and
what grows within a finite set has stopped after as many steps as the set has elements,
and is then the least set that is closed (`ClosureIs`).

- `MachineFindingsAreTheDrift`: the levels compared are the least set with the outermost one
  that is closed under states that match (`LevelsAre`).  If no level compared has a
  finding, then every state of either side at a compared level has a twin, so that
  every level of either side is compared (`AllLevelsAreCompared`) and every state has a
  twin (`ClearStatesAreTwins`); twins are nested alike and go the same ways, except to
  final states.  For a flow drawn after the code each state is its own twin
  (`DrawnStateIsClear`).  The invariant, `MachineInv`, is that the names of each side
  are unique, that its states are nested in the outermost level, and that its arrows
  are those of their type; it assumes that an edit of the definition is one that Step
  Functions takes.
- `ChangesAreTheChains`: a visit of the walk runs listeners that a chain of as many others
  runs (`OnTrack`), which gives that no table is named for nothing.  Where writes run
  all listeners or none, the listeners of a key on the path have all been run, so that
  one that first runs after `n` steps is behind a write with a key that is still fresh,
  and the walk visits it at that distance (`VisitedInTime`), before the keys are used up.

**UrlProofs**: `EntriesShow`, `BackStays`, `PicksLand`, for every map, every patch the
pages offer and any number of picks, moves and reloads.  `StatesInv` says that the
address of every entry reads as a proper state (page and keys agree with each other and
with the map, and no key of another page is left) that shows what was on screen there,
and that the current state has the page and the page's keys of the state its entry
reads as.  What carries it is that writing a proper state and reading it back gives a
state like it (`RoundTrip`), and that every patch offered leads from a proper state to
a proper one.  `HistoryInv` says that the first entry was not pushed as long as the page
before the explorer is still in the history, which is why the mark in an entry can be
trusted; `BackInv` that a move which FlowPage's Back asked for with no other move back to
come has an entry of the explorer to go to.  The theorems
name one hypothesis: links say nothing of other pages than theirs (`LinksAreTidy`).
§3 says what fails without it.

**Not proved.** Liveness (`Settles`, `NoStarvation`, `RoundSettles`,
`WritesEnd`, `DrawingArrives`) is beyond the prover.  Every safety
invariant and action property that a passing run checks is stated by a theorem.

## 5. Findings

1. A repository whose directory has lost its `.git` is skipped (`pinned.ts:40`) before
   the `try` whose `catch` would remove its worktree; the scan then reads the old commit
   as pinned (`leftover_read`).  One that is gone altogether is not even a target, with
   the same effect.
2. When the monolith itself cannot be pinned, nothing stops `--apply` from rewriting
   `resources.json` without its tables (`missing_monolith`).
3. The impact report settles a node with the effect of the hop it is first met at
   (`impact.ts:13`).  A service that calls the failed one asynchronously is settled as
   "degrades" at hop 1 and stays so when something it calls synchronously fails; its
   own synchronous callers are then left out of the hard failures, which
   `docs/guide/explorer.md:131` and `:134` describe as the synchronous chain
   (`sync_chain`).  In the committed data, with svc-communications-v2 down skello-app
   is shown as degraded, and svc-bff, svc-pos and svc-punch are missing.

Disagreements met while modelling that no run states:

- `--no-fetch` pins the clone's local branch (`pinned.ts:51`), where
  `docs/guide/discovery.md:61` promises the origin refs.
- A removal that throws half-way leaves part of the old snapshot
  (`snapshot-dir.ts:53`), where `discovery.md:92` says that a snapshot is whole or not
  there.  `FoldersAreSnapshots` therefore allows a folder to lack files, but not to mix
  them.
- A file that somebody puts into the folder of the day after a fetch has looked into it
  (`snapshot-dir.ts:43`) is removed with the folder (`:53`), where `discovery.md:91` says
  that a folder with other files is never replaced.  `ReplacesOnlyByAWhole` allows this
  to a fetch that had looked before, and to no other.
- FlowPage's Back pressed twice before the browser has moved leaves the explorer
  (`Explorer.tsx:85`), where the code beside it closes the flow when there is nothing of
  the explorer to go back to (§3).
- A snapshot that is read, file by file, while a second fetch of the day replaces its
  folder can be a mixture of the two (`snapshot-dir.ts:61`); `ReadIsOneSnapshot` names
  the case (`swapped`).
- After the early return at `discovery-run.ts:774` an `--apply` leaves `resources.json`
  and `listeners.json` of an earlier run beside a new `discovered.json`; each says its
  own commits, and `HonestFiles` says that they are exactly what they were.
- The search for Jira bugs goes on for as long as the service names the cursor it was
  given (`jira/snapshot.ts:114`, `net/pages.ts:10`); `FetchIsBounded` counts such pages
  apart.  Boards and board issues are offset by what was kept of a page
  (`jira/snapshot.ts:126`, `:137`): an entry without an id or key makes the next page
  overlap it, and a page of nothing else ends the reading.
- A graph cut short makes every later run that pins its repository fail until somebody
  removes it (`pinned.ts:71`): nothing rebuilds it.  `CutGraphStops` says that such a
  run at least writes nothing and is not green.
- An area clicked in the monolith table while the endpoint list is open changes the
  address and shows nothing: the list is drawn in front of its slice
  (`MonolithPage.tsx:52`, `Explorer.tsx:71`, against `docs/guide/explorer.md:101`).
  Likewise an area card picked while presenting (`refPatch.ts:21`), and a service
  picked in a flow while a unit's panel is open (`Explorer.tsx:67`).
- A flag of an edge of which one of the two repositories is missing is reported, where
  the comment at `flow-check.ts:423` says it is skipped (`:463`).  `VerdictsAreTrue`
  says how far this goes: only for a token that the missing repository alone has, and
  beside a skip that names it (`OnlyElsewhere`).
- A write that runs a `subset` of a table's listeners runs none in the walk
  (`listeners-derive.ts:70`), where `docs/guide/data.md:126` promises every reachable
  table.  The committed `listeners.json` has no such write on which the tables depend;
  `AlsoChangesAreTheChains` speaks of surfaces without them (`WholeWrites`).
- A request step whose reverse connection exists is not checked for its path, and a
  call is graded as an import on a matching file stem alone.
- A state machine's catch is compared by its target, so that a second target is not
  noticed, and a choice, a default or a catch that ends in a Succeed or Fail state
  cannot be drawn without a finding (`Authorable`).
- A queue that only a function of no known service consumes is reported with "NO consumer
  binding" (`discover.ts:218`, `aws-live.ts:120`): the loop over the mappings leaves such a
  function out before it notes the queue (`aws-live.ts:156`).  `FindingsStood` names the
  case.  It also speaks of mappings and queues of one fetch only: where a second fetch of
  the day ends between the two, the comparison reads new mappings beside old queues, and
  where it is killed while it writes the mappings, every queue of a known service reads as
  an orphan; nothing in the folder tells.
- The cause of a problem is the latest release that regressed before the end of the
  problem's first day, however long before.

Places where the code relies on its surroundings are the assumptions of `FreshPin`
and `EntryShowsWhatWasLeft` described in §3 and §4.

## 6. Not modelled, and why

- **Declared data.**  More than half of the implementation's lines
  (`packages/data/src/services`, `flows`, `connections.ts`, `areas.ts`, ...) are
  records without behaviour; the checks of §2 take them as constants.
- **Schemas** (`packages/schema`): zod declarations.  That a file is refused is
  modelled where it matters (`OverlayLoad`, `MachineCheck`).
- **Extractors** (`discovery/src/extractors`): regular expressions and syntax trees
  over Ruby, TypeScript, YAML and Terraform.  What they find is a set of facts in the
  models; how they find it is text, out of the reach of TLC.
- **Call-edge grading**: the grade is decided by regular expressions over a graph's
  source text.  Which graph may be used is modelled (`UsableGraph`).
- **Resource registry and relations, drift of the listener surface**: names joined by
  text; no state of their own.
- **AWS snapshot**: streams, tasks, topics, tables and scheduled rules, which are listed
  and compared one by one, and the matching of resource names to services.
- **Datadog metric queries and health**: verdicts over hourly real-valued series; the
  arithmetic is tested at its boundaries.  Jira's counts per area: one pass over one
  snapshot.
- **Geometry, painting, pages**: what a page shows is modelled in `UrlState` as a
  choice of page and panel, not what it looks like.
- In the modelled parts: git's registration of worktrees (`pinned.ts:55`; a failing
  command stands for it), two `discover` runs at once (`discovery-run.ts:197`),
  unpinned runs and `--json`, the coverage and overlaps of areas, the keys that filter
  within a page, the first step of a flow that an impact hits.  A committed JSON file
  cut short by a kill (`discovery-run.ts:778`) makes the next run fail while it loads
  its dataset; a file is written in one step here.
