# ReconSR in TLA+

TLA+ models of the reconnaissance engine of ReconSR, the TLC runs that check
them on small instances, and theorems about them that TLAPS proves for every
value of the constants. Paths below are relative to the repository.

## 1. The system

ReconSR is a single Go process. The user gives it a target; it runs collection
modules on the target, stores what they find in a SQLite database per project,
and runs modules again on whatever was found, until nothing new appears
(README.md:56: "continuing until no new entities remain").

```
 cli ──> controller ──> pipeline.Run
                           │
      ┌── dispatchChan ────┴──────── repoChan ──┐
      v                                         │
 dispatcher.Dispatch ──> modules ──> processor.Process
      ^                                         │
      └────── batch ── repository.Store <───────┘
```

| component | state it keeps | operations | what is hard |
|---|---|---|---|
| `internal/pipeline` | two unbuffered channels, `repoWritersWg`, four goroutines | `Run` | termination: who closes which channel when; exact counting across packages |
| `internal/dispatcher` | `inFlight` keys, semaphores per function, global slots, `isPaused`, module index | `Dispatch`, `SetPause`, `LoadConfig` | races of items of one entity, timeouts against late answers, limits, pause |
| `internal/processor` | none between calls | `Process` | which results and errors a packet carries; its place in the counting |
| `internal/repository` | per-project database (entities, relations, function log, errors), `master.db`, temporary databases | `Store`, `GetResumePayload`, `GetProjectStatus`, `UpdateEntitiesScope`, `DeleteProject`, ... | idempotent upserts, depths and scope marks that depend on order, partial failure of multi-step operations |
| `internal/controller` | active session and project, `syncedProjects`, config file | `CheckAndResumeScope`, `SetResumeSession`, `GetActiveGraph`, `SyncConfig`, ... | stale caches, calls from the user interface during a run |
| `internal/scopemanager` | allow and block rules, fingerprint and hash of the last load | `Load`, `IsOutOfScope`, `IsExplicitlyAllowed` | change detection, precedence of rules |
| `internal/cli` | what is shown as paused, the shared input channel | `HandleUserInput`, `InteractiveControl`, `HandleReconComplete` | state shown against state kept elsewhere |
| `internal/updater` | the executable on disk | `Update` | failure or crash between the steps of a replacement, several updates at once |
| `modules/*`, eleven clients of remote services | refused keys, credits, the moment of the last request | the functions of `schema.Module` | rate limits, retries and pages of concurrent calls |
| `modules/*`, results | none | the functions of `schema.Module` | results that name their sources so that they can be stored |
| `modules/utils/preflightcheck` | memoised verdicts per domain | `PreFlightCheck` | single flight, transient errors kept for ever |
| `internal/validator`, `internal/report`, `internal/i18n`, `internal/boot`, module utilities | none, or settings | parsing, rendering | out of the models (section 5) |

Components talk by direct calls and by the two channels. `repoWritersWg` is
shared by `pipeline`, `processor`, `dispatcher` and `controller`: it counts
outstanding work, and its reaching zero is what ends a run.

What makes each component correct:

* **pipeline**: the counter equals the outstanding work; no send on a closed
  channel; the WaitGroup is not reused before `Wait` returned; the decision to
  close is taken in a quiet system; `Run` returns and strands nothing.
* **dispatcher**: a key in `inFlight` has one owner; limits are never exceeded
  and every token is given back; a function an item asked for is answered even
  when the call was left to another item; every call gets a verdict.
* **processor**: whatever a module hands over, the packet hangs together, so
  that no part of it brings the whole down when it is stored.
* **repository**: every result hangs below the entity its module declared,
  whatever the order; no depth is smaller than what is stored shows; everything
  within the limit is run; a blocked entity is not dispatched; what processes
  that died leave behind is cleaned up, and nothing else.
* **controller and scopemanager**: the rules in memory are those in the files;
  marks stored in a project agree with the rules once it counts as
  synchronised; the configuration file keeps what the user has chosen.
* **cli**: what the user is shown agrees with the state of the engine.
* **updater**: at every moment a complete executable exists.
* **modules**: requests keep their distance, credits are overdrawn by calls that run
  at once only, every call ends; a zone's verdict rests on what was heard.

The complete list of hazards, each at its line and with the properties that
cover it, is in `PROJECT.json`.

## 2. Modules

| module | models |
|---|---|
| `Quiescence` | abstract promise of a run: work begets work, the run shuts down only when none is left |
| `Pipeline` | `pipeline.Run` and the token protocol it shares with `Process`, `Dispatch`, `Store` and `CheckAndResumeScope`; implements `Quiescence` |
| `Dispatcher` | `dispatcher.Dispatch`: items, calls, executors, keys, limits, timer, pause |
| `ScopeSync` | `syncedProjects` and the scope marks under `Store`, `SyncScopeWithDB` and `CheckAndResumeScope`, over menus, runs, edits and restarts |
| `ScopeFiles` | `scopemanager`: the loading of the rules while the files are edited, and their precedence |
| `TempDatabases` | the temporary databases of standalone runs of several processes |
| `Registry` | project files and master rows under several processes |
| `ConfigFile` | `configs/config.txt` and the switches and paces derived from it |
| `Updater` | the self-update |
| `Preflight` | `preflightcheck`: the check of a DNS zone |
| `ApiClients` | the clients of remote services: preflight, limiter, attempts, pages, credits |
| `Results` | what modules hand over, and the classes of values they draw on |
| `DnsFindings`, `LookupFindings`, `RegistrationFindings`, `VirusTotalFindings`, `NetlasFindings`, `ShodanFindings`, `LeakixFindings`, `HunterFindings` | the results of every function, by module |
| `Findings` | all of them |
| `Packet` | `processor.Process` and `repository.buildStoreBatch`: from an output to a batch; implements `Delivery` |
| `Delivery` | abstract promise to a module: its results are stored whole, each once and where its source may be, or given up for a source that is not clear |
| `EntityStore` | what `Store` makes of batches over the sessions of a project |
| `Storing` | `Packet` and `EntityStore` side by side, and the properties of `Packet` |
| `Host` | the five components that keep files on a host (`TempDatabases`, `Registry`, `Updater`, `ConfigFile`, `ScopeFiles`), side by side, and their properties |
| `CollectionModules` | `ApiClients` and `Preflight` side by side, and their properties |
| `PipelineProofs`, `DispatcherProofs`, `ScopeSyncProofs`, `EntityStoreProofs` | theorems of the modules named |
| `PacketProofs` | theorems of `Storing`: packets |
| `DatabasesProofs`, `FilesProofs` | theorems of `Host`: the databases, and the other files |
| `ModulesProofs` | theorems of `CollectionModules` |
| `MCPipeline`, `MCDispatcher`, `MCScopeSync`, `MCHost`, `MCModules`, `MCStoring` | instances for TLC; `MCStoring` gives `Packet` all findings |

The components of `Host`, those of `CollectionModules` and those of `Storing` share
no state: a variable `part` says which one a behaviour is about, and a step is one of that
component. What is claimed of a component there is claimed of every behaviour
of its own specification; the proofs make the connection.

### Pipeline

The state is the program counters of the four goroutines of `Run` (`closer`,
`store`, `dispatch`; the injector is `payload["injector"]`), whether each
channel is open, the counter, and for every unit of work where it is. A *unit*
is one count of `repoWritersWg`, followed through its life:

| `stage` | in the code |
|---|---|
| `injected`, `proc` | a `Process` goroutine that has not built its packet |
| `sending`, `sent` | `Process` at `out <- repoData`, and between it and `writersWg.Done()` |
| `result` | a counted result of a packet, before `Store` has decided about it |
| `batched` | an item of a batch on its way through `dispatchChan` |
| `item` | the goroutine of an item in `Dispatch` |
| `dead` | given back |

Each action is one handler up to its next blocking operation. `Build` is
`Process` up to the send, the `Add(totalResults)` included; `HandOver` is the
rendezvous on `repoChan`; `Done` is the separate step after it, which may
happen before or after `Store`. `Spawn` is the end of an item: `K` packets for
one count. `Store(kept)` is the body of the loop of the store goroutine: the
call, the counts given back, and the decision to forward. The closer goroutine
is modelled with the internal states of `WaitGroup.Wait` (`blocked`,
`released`) because Go panics when the counter is raised in between. `Check`,
`Sync` and `Resume` are `CheckAndResumeScope` with all its error returns.

Left open: what modules return (any set of fresh units), what `Store` keeps
(any subset, none when it fails), which items are skipped. The context is
`context.Background()` (cmd/ReconSR-cli/main.go:15) and never cancelled, so the
`ctx.Done()` branches are not modelled.

### Dispatcher

`item`, `call` and `exec` are the program counters of the three kinds of
goroutines; `inFlight`, `sem`, `slots` and `paused` are the variables of the
package; `known` is `CompletedFunctions`, read from `log` when the batch was
built; `expiring` are the goroutines that sleep five seconds before they delete
a key; `report` follows the packet of a call to `Store`. The model is untimed:
the timer of a call may fire whenever it runs, and so may the five seconds. The
tests the code makes for all functions of a module at once (`matchTags`,
`Capabilities`) are made for each call by itself, which allows more than the
code does. The module index does not change during a run and is a constant
(`Fn`, `Limit`).

### ScopeSync

`file` are the scope files, `mem` the rules in memory, `synced` is
`syncedProjects`, `mark` the column `out_of_scope` (NULL, 0, 1, or no row),
`node` the rows with `is_anchor = 0`, `logged` the function log, `screen` is
`currentProjID`, `running` and `work` are the run and the entities it has
dispatched. `applied` is a history variable: the rules a project was last
brought in step with. `Written` is the upsert (`out_of_scope OR
excluded.out_of_scope`, with SQL's NULL), `StateBlocked` the state `Store`
computes before it, row 1 included; `Sync` is `SyncScopeWithDB`. A packet is a
function from the entities found to what the module says of their scope.

The rules are on domains, subdomains and addresses; a subdomain's suffixes are
itself and its anchor. `Load` is one step here; `ScopeFiles` takes it apart. All functions of an entity are one function; depth limits, IP
ranges, standalone runs, retrying errors and deleting projects are left out,
and so is what `Pipeline` and `Dispatcher` say of the interleavings inside a
run: here an entity is answered and stored in one step, and the check runs when
nothing is left to do. `Process` classifies and `Store` writes under the same
rules, since the rules in memory change only in the menu and in that check.

### ScopeFiles

`text` and `stamp` are the files, `rules`, `lastHash` and `lastFingerprint` the
variables of the package, `unseen`, `fingerprint` and `found` the locals of
`Load`. `Load` is taken apart into the listing of the directory (`ReadDir`,
`NoDir`), a `Stat` per file, the comparison (`Compare`), a `Read` per file and
`Install`; the user edits, adds and removes files, and the directory, between any
two of these steps, and `Fail` is every error return. A rule is the set of
entities it covers and whether it allows them; a name is its sequence of labels,
so that `IsOutOfScope` walks the suffixes as the code does. Every edit is taken
to change size or time of a file, and different rules to have different hashes.

### TempDatabases and Registry

Processes are steps of one another's environment, and may die between any two
of their own (`Exit`). `TempDatabases` has one process per id; one of
another program, which may come by an id as well, looks like one that ends before it
does anything. Whenever an id is free the
system may give it to somebody (`Start`), also while a clean-up that found it dead
is deleting what has its name: nothing in the code guards the time between
`isProcessAlive` (repository.go:808, 846) and the deletions (817, 743-744). `taken`
is a history variable, the processes that got their id in such a moment. The
processes of one host, or of one container, see one another; containers that share
`./storage` do not, and are not modelled. The clean-up is
`CleanupOrphanedTempDatabases` with its passes over the rows (`SelectDead`,
`DeleteRow`) and over the directory (`Scan`, `Wipe`); the files go one
by one (`RemoveDb`, `RemoveWal`). The run is `PrepareStandaloneSession` and `initProjectDB` step by step, and
`Hide` to `Detach` are what showing the results does to it. A file remembers
whether the present process of its id has written it (`own`) or an earlier one
(`old`). `Registry` is `SyncMasterDB`, in the order directory, rows, changes,
and the menu of projects: creating, opening, touching, re-syncing and deleting.
A dropped route makes a reference resolve to the name of a new project; the
process stands for such a name.

### ConfigFile

A line of the file says of a function whether it is on and at what pace.
`SyncConfig` is `FirstBoot`, or `Boot`, `Append`, `Fill` and `Load`;
`saveConfig` is `Save`, `WriteHeader`, a `WriteLine` per function and `Saved`,
and `WriteFails` or `Exit` may cut it short at any line. `Upgrade` is a version
with functions of its own, among them a module that is new.

### Updater and Preflight

`Updater` has a process per running `Update`; `CreateTemp` to `Swap` is the
replacement on POSIX systems, `RemoveOld` to `MoveBack` that on Windows, where
the image of a running process cannot be removed or replaced (`InUse`,
`CanReplace`, what the code relies on). `Preflight` has the callers of
`PreFlightCheck` for one target: `Lead`, `Join` and `Learn` are the
memoisation, the rest is the check itself, which one caller makes. `word` is a
history variable: by what the zone was condemned without asking its name servers,
an invalid target, a resolver that knows of no NS records, or one that answers with
an error ("server misbehaving"). `bad` and `well` are the addresses that have
confirmed and denied.

### ApiClients

Eleven modules are written alike and differ in what they do with an answer.
What they share is the module's actions: the look at the account under
`sync.Once`, the check for a refused key or spent credits, the rate limiter (that
sleeps with the mutex held, reserves a moment and sleeps without it, or holds
its mutex until the answer), attempts, pages, and the verdict. How many of
Shodan's domain lookups, which spend credits, run at once is `limit`: the 1 that the
module declares (shodan.go:56-60), or what config.txt says, which comes first
(dispatcher.go:327-331) and where a function added to an existing file gets the
default of 30 (controller/config.go:92, 130, 143); `Begin` is the dispatcher letting a
call through. What the clients differ in is a
record per client: the answers that are retried, reported as an error or
as a piece of information, or that stop later calls. Time is counted in units
up to the limiter's delay.

### Results, the modules of findings, Packet

A `*Findings` module says for each function what it hands over, by cases of what
the remote side may answer: which results there are, what each names as its
source and with what local id, and which carry tags or marks. The values are
classes (`Results`): a name or an address that is well formed or not, that is
the target, related to it, or somebody else's. Every output has at most two
records of a kind, which is what it takes for two declarations to be alike.

`Packet` takes one of these outputs through `Process` (correction of types,
what does not trace back to the target, redundant results) and through
`buildStoreBatch`, which visits the groups in any order, as the map of the code
does, resolves their sources and gives up the whole batch when it cannot
(`Ambiguous`, `Unresolvable`). Of the results of one group with the same local id
the last one keeps it, and which one is last is left to the map (`Latest`).

Where a result should end up is said without any order. `Placed` starts from the
target and gives, in each of its stages, every result all the places that follow
from all the entities its source may be among those found so far; after as many
stages as there are results, `Meant` is what a source may mean. An output is
`Lawful` if that is one entity for each of its results. `Delivery` promises no more
than a module can rely on: what is handed over is stored in one go, whole, each
result once and below an entity that its source may mean; or it is given up, which
must not happen to a lawful output.

### EntityStore

`row` are the rows with both depths, `isAnchor` and `anchored`, `relations` and
`log` the other tables, `running` the calls whose packet has not come. `Store`
builds the states of a batch (`Strict`, `Relaxed`, `Relax` over its relations),
writes them (`Upsert`), and dispatches what is within the limit and not logged.
`Resume` is `GetResumePayload` for pending entities, failed ones or both, with
the limit of the session; `ResetProjectLog` is the rescan. `Vanish` is a call
that leaves neither packet nor log. A batch is dispatched at once, a packet
has at most two results, everything is in scope, and properties are one level
deep and without anchors. `Passes` makes as many passes over the results of a
batch as the code allows itself (repository.go:1873). A pass of the model looks at
all results at once, the code goes through them in order and uses in the same pass
what it has just lowered, so that it is never behind the model. Where the passes of
the model are enough to settle, as on every batch of the run, the depths are the
same; the theorems are about the passes of the model.

## 3. Runs

| run | instance | shows |
|---|---|---|
| `pipeline` | 4 units, 1 edit of the scope files | exact counting, no send on a closed channel, quiet scope checks; the run returns, strands nothing and implements `Quiescence`, its liveness included |
| `dispatcher` | 2 items of one entity, 2 functions of limits 1 and 2, 2 slots | key ownership, accounting of slots and tokens, no twin without a timeout |
| `dispatcher_live` | 2 items of one entity, 1 function, 1 slot, limit 1, 1 pause | items settle, keys expire, demand is met |
| `dispatcher_redundant`, `dispatcher_hang` | as small as shows it | the first two findings of section 6 |
| `scope_sync` | the target, a second domain with a subdomain and an address; 4 rule sets, 2 edits, 1 result per packet | `IInv`, blocked rows come back only by an allow rule, synchronising respects allow rules, runs leave nothing behind |
| `scope_stale`, `scope_null`, `scope_home` | as small as shows it | the last three findings of section 6 |
| `host` | 3 ids with temporary databases, 2 in use at a time; 2 processes on 1 project; 3 concurrent updates; 3 functions of 2 modules, 2 of them late; 2 scope files of 3 contents, 3 edits | what crashes, neighbours and edits do to the files of a host |
| `modules` | 2 calls of each of 11 clients (of Shodan's domain lookups, with limits 1 and 2), 2 attempts, 2 pages, 1 credit; 2 callers, 2 addresses, 3 name servers, 2 attempts | requests keep their distance, what is overdrawn is bounded, calls and checks end, verdicts rest on evidence |
| `storing` | every output of every function, its groups in every order; 2 sessions with limits 0 and 1 of 2 functions, 2 packets of up to 2 results, 1 failure; the target with its anchor and a property, and another name | nothing is lost on the way to the batch, results hang where they were declared, `Packet` implements `Delivery`, depths are earned, what is within the limit is run |

Bounds. Four units are a packet with two results while another unit is in
`Store` and one on its way; every sender, the resumed batch and the injected
batch occur with more than one item, and a counting error shows with the first
unit it concerns. Two items of one entity are the smallest set in which a key is
contended, expires and is reserved again; a second function is needed for an
item to stay open while another key expires, a limit of 2 for twins that the
semaphore does not forbid, and a limit of 1 makes it a point of contention.
`MaxEdits` and `MaxPauses` only bound how often the user acts. The rule sets of
`scope_sync` are the four that tell the cases apart: no rule, the domain
blocked, the domain blocked but for what is below it, and a subdomain blocked
below an allowed domain; two edits take a mark from 0 through NULL or 1 and
back. In `host` three ids are an orphan and two processes that clean up after it, or
one that cleans up and one that takes the orphan's id while it does; no more than
two ids are in use at a time (`MaxAlive`), the third is what somebody has left; two processes contend for the one project that is created,
listed, opened and deleted; three edits of the scope files are one before a
Load, one between its fingerprint and its reading, and one that brings the old
rules back. In `modules` every property is about two calls or callers. In
`storing` two packets are what it takes for a row to be met by a nearer or a
farther one, or to be an anchor first; the names are an anchor, what it
anchors, and one without an anchor. The target is the anchored one, whose anchor has
a row from the start.

Deadlock is checked in the safety runs of `Dispatcher` and `ScopeSync`. It is
switched off where the system may stop (processes that are over, packets that
are stored) and where a run that stops short fails a liveness property, which
says more.

Fairness. `Pipeline` assumes weak fairness of every goroutine: the Go scheduler
runs what can run, and each goroutine modelled has one enabled step at a time.
Items included: that an item ends is what `Dispatcher` examines. `Dispatcher`
adds strong fairness for the slot and the semaphore, since Go serves blocked
senders of a channel in turn, and weak fairness of `Resume`, a user who comes
back. `FairSpec` says nothing of `Exec`; `ReturningSpec` adds that it returns.
Only the run about items settling uses `ReturningSpec`. In the run `modules`
time passes, requests and DNS queries have timeouts (the HTTP clients and
`preflight.go` set them), so every call takes its next step, and the mutex of a
limiter is granted to whoever waits (strong fairness of `Lock`): Go's mutexes
do not starve a waiter. The models `TempDatabases`, `Registry`, `ConfigFile`,
`Updater`, `ScopeFiles`, `Packet` and `EntityStore` assume no fairness, and
nothing live is claimed of them.

Every property of a passing run has a mutant: an operator defined before the
one it replaces, with the suffix of the bug it introduces (`SpawnCountsAll`,
`ReserveUnchecked`, `InstallLate`, ...) and used nowhere else, under which TLC
refutes the property.

## 4. Proofs

TLAPS proves, for any finite set of units, items and functions, any limits, any
entities, projects, processes, files, scope rules, calls and packets:

* `PipelineProofs`: `Inductive` (`Spec => []IInv`), and from it `CounterIsExact`,
  `ChannelsOutliveSenders`, `WaitGroupNotReused`, `ScopeCheckIsQuiet` and
  `ImplementsQuiescence`, the refinement of the abstract specification's safety
  part.
* `DispatcherProofs`: `Inductive`, and from it `KeysHaveOneOwner`,
  `TwinsTimedOut` and `LimitsKept`.
* `ScopeSyncProofs`: `OrderlyMarks` (`Spec => []IInv`), `TypeCorrect`,
  `UnblockedByAllow`, `SyncRespectsAllow` and `NothingIsLeft`.
* `DatabasesProofs`: `TempInductive`, and from it `RunKeepsItsDatabase`,
  `RunStartsFresh` and `OrphansAreRemoved`; `RegistryInductive`, and from it
  `ListIsTrue` and `DeletedForGood`.
* `FilesProofs`: `UpdateInductive` and `BinaryIsNeverLost`; `ConfigInductive`, and
  from it `ChoicesKept`, `PacesKept` and `BootLeavesWhole`; `RulesInductive`, and
  from it `RulesCatchUp` and `ChangesReported`.
* `ModulesProofs`: `ZoneInductive`, `CallersAgree` and `VerdictRestsOnEvidence`;
  `ClientInductive`, and from it `GrantsAreSpaced` and `OverdraftIsBounded`.
* `PacketProofs`: `PacketInductive`, and from it `PacketTypes`,
  `LawfulPacketsAreStored` and `PacketDelivers`, the refinement of `Delivery`;
  `LawfulModulesLoseNothing` and `LawfulModulesAreStoredAsDeclared`, on the
  hypothesis that outputs are lawful; `ReachableIsLeast`, about the search of
  `Process`.
* `EntityStoreProofs`: `StoreInductive`, and from it `DepthsAreEarned` and
  `ReachIsRun`.

Each theorem about a component of `Host` or `CollectionModules` is proved of its
own specification first and then of the joint one, whose variable `part` never
changes.

The counting invariant of `Pipeline` alone is not inductive. A step that lets a
unit die must know that it is alive and counted once, so `IInv` adds that no
result is in two packets (`PacketsApart`), no item in two batches
(`BatchesApart`), that from the release of the closer until it waits again
nothing is live (`Quiet`), and the order in which the channels are closed
(`ClosingOrder`). With them each action changes the counter by exactly the
number of units it revives or kills; the lemmas about cardinality at the head of
the module say so for one set moved between stages. In `Dispatcher` ownership of
a key spans three goroutines, so `IInv` adds which stages of a call, its
executor and its key go together (`CallLife`); with it the delayed deletion of a
key is always a deletion by its owner.

In `ScopeSync` a synchronisation reads which rows are blocked before it changes
any mark, so that a subdomain which inherits (NULL) could be overtaken by the
block its anchor gets in the same synchronisation. It is not, because a NULL
subdomain never hangs below an anchor marked 0 (`InheritsNoAllow`): an anchor
gets a 0 either when its row is created, which is no later than its
subdomains', or by an allow rule, which covers the subdomains as well. The
lemmas `SyncOrderly` and `WrittenOrderly` carry this through the two operators
that write marks. For addresses, which the rules of their domain do not cover,
the argument fails, and `AllowedTakesPrecedence` leaves them out: an address
marked NULL below an anchor marked 0 stays blocked by the synchronisation that
blocks the anchor and allows the address, until the rules change again. That a run
leaves nothing behind rests on `PendingDispatched`, that during a run all that is
pending has been dispatched, and on two facts about the operators: `Store` unblocks
nothing, and a synchronisation that unblocks no row by name unblocks none by its
anchor either, so that the check misses nothing when it looks at names only.

A Load of the scope rules may take its fingerprint, then read a file that was
edited in between, and later Loads trust that fingerprint. It does no harm
because an edited file gets a stamp no fingerprint has: `MemoryInv` says that a
fingerprint which still fits the files vouches for the rules in memory,
`LoadInv` the same of what a Load has found so far, and `EditedApart` that after
an edit a fingerprint which fits does not speak of the file. The mutant that
takes the fingerprint after the reading breaks just this.

What a clean-up is deleting belongs to an id that is still dead, or to a process
that has taken the id since the clean-up looked (`DeadInv`); for a process that has
not, the database goes with the step its run is in (`RunInv`), and no assumption
about the ids the system gives out is needed. What does not depend on it is stated
of every process: a run finds no file of an earlier one. An orphan of before the
clean-up is on its list, or in the directory that it has still to scan
(`OrphanInv`). A process that is alone finds the directory and the rows
as it has read them (`AloneInv`), and a project that was
deleted is in no file, row, list or hand (`GoneInv`), while identifiers are
drawn once (`DrawnInv`). The updater never holds the only complete copy in its
hands: `PosixInv` and `WindowsInv` say which files are whole in which step.

`config.txt` is rewritten in place, so that during a save what the user has
chosen is not in the file. `WritingInv` says that it is then in the plan of the
save: a line that is written is as planned, one that is left is not there.
`ChoicesInv` and `PacesInv` say where a choice and a pace are in each step, in
the file, in the plan or in memory, as long as no write has been cut short
(`torn`, `damaged`), and `FirstInv` that nothing can be lost before the first
file.

In `Preflight` one caller asks (`OneAsks`), what is concluded rests on what was
heard (`Evidence`) and all callers learn it (`Agreement`). In `ApiClients` no
call was let through later than the last request its limiter knows of
(`LimiterInv`), which needs that one call at a time sleeps with the mutex
(`MutexInv`). The check of the credits and the request that
spends one are far apart, and several calls may have seen the same credit in
between. `CreditInv` counts them: if each call that has passed the check spends a
credit, the account is overdrawn by less than the limit. A call passes only when it
sees a credit, and then it is one of at most `limit` that run; spending takes one
off both sides; and when the account is read no call has passed yet (`AccountInv`).
With the limit 1 nothing is overdrawn.

In `Packet` the visits to the groups and the stages of `Placed` are held together
by counting: what is in the batch after the n-th visit lies within the n-th stage
(`Traced`), so that whatever a source resolves to, and wherever a result is put, is
among what the source may mean. The stages only ever grow (`StagesGrow`), but they
need not settle (in an output that is not lawful a property may be its own source,
and every stage puts it one level deeper), which is why the visits are counted and
no fixed point is used. `Latest` loses no local id (`LatestKeeps`), and so nothing
that is stored is forgotten (`Known`). For a lawful output this is turned round: no
source resolves to two entities, since it means one only; and as long as groups are
pending one of them is resolved, since by induction over the stages a result placed
by one of them is either stored just there or belongs to a group that is resolved
(`StageResolves`, `LawfulIsResolved`). Hence neither `Ambiguous` nor `Unresolvable`
is enabled, in any order. Of the modules' outputs the theorems suppose that they
have finitely many results (`ListsAreFinite`, an assumption of `Storing`). The two
about `NothingLost` and `StoredAsDeclared` also suppose that outputs are lawful,
but for those of `Lossy` (`LawfulOutputs`). That they are is data, which the run
enumerates: a packet of theirs that is stored with every source meaning one entity
is a lawful one, and these two properties say that all are. What the proof adds is
that nothing but the outputs can make a difference. The search of `Process` takes as
many steps as there are keys; `ReachableIsLeast` shows that this is enough, since a
step that adds no key is the last that could.

`DepthIsEarned` of `EntityStore` compares the depths with the distances over all
relations, which change with every packet, so it is not inductive. `EarnedInv`
is: each row nearer than unresolved, but for the target's, is one step from a row
that is nearer still, or as near if the step is from a node to its property.
`StoreKeepsEarned` shows that a pass earns what it lowers, and that lowering a row
takes nothing from the rows that rest on it. `EarnedIsEnough` follows the steps
back to the target: twice the depth, and one more for a property, grows with each,
so that rows with lower keys are at their distance after fewer passes than there
are rows. That relaxing the limit loses nothing (`DepthsInv`) is harder than it
looks, since a pass lowers an anchor and what it anchors in the same moment and
the anchored row is a pass behind. `RelaxedCatchesUp` shows that after the passes
of a batch it is not: the relaxed depth of a row is, one pass later, at most what
its source and its anchor make of it, and an anchor that adds a pass saves a step.

Induction over the number of passes is induction over data, which the provers do
not take as a rule; it is done with sets. The set of the numbers of passes after
which a claim fails has a least member if it has any (`LeastMember`, from
well-foundedness of the naturals), which is neither the first nor the successor
of one that holds (`Induction`). `PassesExist`, `NearerExists`, `StagesExist` and
`ReachingExists` show the same way that the recursive functions are defined at all.

The assumptions are those of the modules, checked by the runs: finiteness of the
sets, natural bounds, positive limits; that marks for "none" are no names
(`NamesApart` and `NoneApart` in `Host`, `NobodyApart` in `CollectionModules`),
that the calls that spend are calls, of which there are finitely many
(`SpendingCalls`), that an anchor is a domain without one of its own
(`NamesAnchored`), that
properties are no nodes (`PropertiesApart`), and that the depth of what is
unresolved is a natural number (`DepthsNatural`).

## 5. Only model-checked, and not modelled

Only model-checked:

* liveness (`RunReturns`, `EveryUnitSettles`, `Quiesces`, `ItemsSettle`,
  `KeysExpire`, `DemandMet`, `CallsEnd`, `CheckEnds`), since fairness and ENABLED
  are outside the prover's reach;
* what the modules report: that nothing of it is an island (`NoIslands`) and that it
  is lawful but for `Lossy`, the hypothesis of the theorems about `NothingLost` and
  `StoredAsDeclared`. This is data, all of it enumerated.

`NothingLost` and `StoredAsDeclared` leave out the functions of the set `Lossy`
(`get_naptr`, `leakix_domain`, `hunterio`), which are known to lose results
(section 6).

Not modelled: `internal/report`, which renders a graph that has been read;
`internal/boot`, `internal/i18n` and the spinner; the menus of `internal/cli`
but for what they do to stored state; the parsing of values, responses and wire
formats, in `internal/validator` and in the modules, whose outcomes are cases of
the models; the SQL schema and its versions; the mirrors and demo modes of
single clients; the cache of `vuln_lookup`; two processes that write
`config.txt` at once; processes in containers that share `./storage`
(docker/docker-compose.yaml:34), of which each has ids of its own and sees no other:
a clean-up in one of them takes the databases of the other's runs for dangling, or
both use the same name. `loadExistingEntities`, `insertDictionaryValues` and
`upsertAndGetEntities` (repository.go:1648-1764, 2288-2446) are not called.
Components without a module are listed with the reason in `PROJECT.json`.

## 6. Findings

Shown by runs:

* **Redundant execution** (`dispatcher_redundant`): the in-flight key expires
  five seconds after the verdict of its call, the log entry that should replace
  it is written only when all calls of the item are over and the packet has
  gone through `Process` and `Store`. An item batched earlier runs the function
  again (internal/dispatcher/dispatcher.go:544-549, 620-628).
* **A call without a verdict** (`dispatcher_hang`): the semaphore is acquired
  before the timer is started (dispatcher.go:497, 534) and given back only when
  `Exec` returns (514-516). Behind a module call that hangs, the global timeout
  never starts and the run never ends.
* **A change of the rules is swallowed** (`scope_stale`): `ValidateTarget` drops
  the `changed` result of `Load` (internal/controller/controller.go:130). An edit
  made while a project's menu is shown is loaded by the check of the target when
  the run is started, and the check at the end of the run finds nothing new.
* **Block rules do not reach stored entities** (`scope_null`): the audit looks at
  rows marked 0 only, and the first synchronisation turns all of them that no
  rule allows into NULL (repository.go:3299, controller.go:385).
* **Blocked subdomains of the target are run** (`scope_home`): below row 1 `Store`
  ignores `result.OutOfScope` (repository.go:1860-1862) and consults a field that
  is never set for nodes.

Stated in a module and refuted by TLC as an invariant, without a run of its own:

* `TwoConfirmations` (`Preflight`): one name server suffices where the other
  gave no answer, or where both have one address (preflight.go:186), and none is
  asked where a plain resolver answers "server misbehaving" (preflight.go:239-244);
  the comment at preflight.go:112-114 asks for two.
* `LiveTempKept` (`TempDatabases`): a process that gets the id of a dead one while a
  clean-up is deleting the dead one's database may lose its own: its row to the
  DELETE, its file to the removal (repository.go:817, 743-744, long after 808 and
  846). The comment at repository.go:780 speaks of "terminated processes".
* `StandaloneIsIsolated` (`TempDatabases`): showing the results of a standalone
  run while it works deletes its database and its route; what is stored later
  creates a project database under the name of the route, in storage/projects
  (repository.go:422, 590; controller.go:53), and the end of the run finds no
  active project.
* `DeclaredPaceKept` (`ConfigFile`): a function that is added to an existing
  file gets the default pace instead of the one its module declares
  (internal/controller/config.go:129, against MODULE_GUIDE.md:50). The same holds of
  its limit: where the key of Shodan is added after the first start, its domain
  lookups run up to 30 at a time and may overdraw the credits by as many less one.
* `FailuresAreErrors` (`ApiClients`): HackerTarget reports failed requests as
  success without results (hackertarget.go:123).

Seen while modelling; the models follow the code:

* NAPTR targets name their source by type and value only (dns/naptr.go:125-152,
  against MODULE_GUIDE.md:394 and 400); LeakIX does so with hosts
  (leakix/service.go:345), and Hunter with an empty address (hunterio/api.go:464).
  Two alike make the whole packet an error.
* A result that is the source of another is logged as done without being marked
  Applied (repository.go:2210, against MODULE_GUIDE.md:278, 312-330).
* Allowed items do not always take precedence, as default_scope.txt says: of
  names the most specific rule decides (scopemanager.go:371).
* Of results with one local id the last one wins (against MODULE_GUIDE.md:448).
* The pause is kept from run to run while the interactive loop starts with
  "not paused" (cli/interactive.go:35); a run paused for longer than the timeout
  times out the calls it holds back, since the timer starts before the pause
  gate (dispatcher.go:501-534).
* An identifier enters the cache of `vuln_lookup` before it is looked up
  (cve.go:27, cpe.go:31): a failed lookup is not repeated.
* VirusTotal gives the tags of a subdomain it extracts to the target
  (virustotal/domain.go:386-393). The tag "dead" of a name that does not exist
  comes with an error (dns/dns.go:198-205), and `Process` drops the results of
  a function that reports one (processor.go:151-159).
* Netlas and `vuln_lookup` mark a target without tags as Applied, which has no
  effect; an error in the chain of peers of `asn_metadata` is a success; an error
  in an alias makes `mailcrypto` drop the keys it has found.
* A file without max_depth or strict_depth is saved before the paces of the functions
  have been derived (controller/config.go:76-80): the paces set in it are replaced by
  the default.
* A glitch in the look at the account condemns the key of Hunter and Shodan for
  the life of the process; a throttled call of most clients is logged as done.

## 7. Plan

What is left, in this order; each module is written so that it can be proved
about as well as checked.

1. `Session`: the main loop, active project and session, the pause and showing
   results during a run, with what the user is shown.
2. The cache of `vuln_lookup`, shared by two functions over retries.
3. `ConfigFile` under several processes.
4. `EntityStore` with scope marks and anchors of properties.
5. `Engine`: composition of `Pipeline`, `Dispatcher` and the function log, as an
   implementation of an abstract engine that runs every function once for every
   reachable entity, up to failures.
