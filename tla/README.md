# A verification of the morning-shift assistant

TLA+ models of the stateful parts of this repository, model-checked with TLC,
and theorems about them checked with TLAPS. `src/...` below is the repository.
Line numbers in comments (`app.py:154`, `README.md:47`) are lines of files there.

- [The system](#the-system)
- [Modules](#modules)
- [Runs](#runs)
- [Proofs](#proofs)
- [Where code and documentation disagree](#where-code-and-documentation-disagree)
- [What the properties do not promise](#what-the-properties-do-not-promise)
- [More than one thread](#more-than-one-thread)
- [What is not modelled, and the plan](#what-is-not-modelled-and-the-plan)

## The system

A small Flask application for the front desk of a hotel group. It reads the
latest encrypted snapshots of a property-management system (PMS), judges every
cancellation and every in-house reservation by rules that administrators edit,
and lets the desk tick the findings off. One gunicorn worker with one
synchronous thread serves it, systemd restarts it when it dies
(`deployment/systemd/morning-shift.service`); the development server, and
waitress, answer requests on threads (`db.py:33-36`).

| component | state | operations | talks to |
|---|---|---|---|
| `ThresholdRuleStore` (`threshold_rules_store.py`) | tables `app_settings` (one key), `balance_rules`, `balance_rule_properties`; in memory `_default`, `_rules`, `_property_index` | `set_default`, `save_rule`, `add_blank_rule`, `delete_rule`, `get_threshold`, `_load_cache` | Settings routes (`app.py:492-536`), in-house check |
| `PropertyStore` (`property_store.py`) | table `properties`; in memory `_cache` | `ensure_known_names`, `ensure_known_currencies`, `update`, getters | every page load, Settings route (`app.py:483-489`) |
| `RuleStore` (`rules_store.py`) | table `cancellation_rules`; in memory `_cache` | `_auto_detect`, `ensure_known`, `get`, `update` | cancellation check, Settings route (`app.py:463-480`) |
| handled findings (`app.py:87-113`, `369-386`, `static/app.js:130-158`) | table `handled_findings`; the boxes and requests of the open pages | `load_handled_map`, `set_handled`, `toggle_handled`, the check-off box | every page that lists findings |
| in-house check (`inhouse_logic.py`, `app.py:143-216`) | none of its own; `rooms_threshold` in `app_settings` | `evaluate`, `appears_in_inhouse_check`, the failed-deposit queue, the dashboard | all of the above, the PMS reader |
| cancellation check (`cancellation_logic.py`) | none | `evaluate`, `load_cancellations` | `RuleStore`, `PropertyStore`, the PMS reader |
| PMS reader (`pms.py`) | two `lru_cache`s of decrypted rows by import id | selection of the latest completed import, decryption, the reads of each page of `app.py` | the PMS database, which an importer of another repository writes |
| hotel scope (`app.py:116-131`, `templates/home.html`) | the session cookie | choose and confirm hotels | every page |
| deduplication (`dedup.py`) | none | fold of export rows into reservations | the ingestion, which is not in this repository |
| migration (`migrate_config_data.py`) | the same tables | one-off copy of JSON files into the tables, four sections and one commit | the stores, through their tables only |

**What is hard.** Every store keeps a copy of its tables in memory and writes
twice, once to the database and once to the copy. A write is several steps: a
transaction that may fail, then one or more assignments, and for the threshold
rules a reload of three queries between which the database may fail again. The
process may die between any two steps and starts again from the tables. A page
load is itself a writer: it inserts and upgrades what the report mentions, in
two passes that each decide first and write later. Pages are older than the
data: a form or a check-off box acts on what was true when the page was
rendered. Answers to clicks get lost. Reports arrive while
pages read them, some more than once and for another key. A script writes the
tables beside the service. Two filters in two files decide in which
queue a reservation is worked.

**What makes each part correct.** The copy agrees with the tables between
requests, however requests ended. A look-up always has an answer, and it is the
one the tables give. A hotel is in at most one rule, and no save is refused for
it. What somebody typed is not overwritten by what is detected; what nobody typed
is detected. What cannot be read is not guessed. Done means that somebody ticked
what the page shows. A page shows the latest report or a newer one, whole, and
never goes back within itself. Whoever owes money is listed, with the worst severity; when
a dashboard put together while nothing moved shows nothing to do, no reservation that has
yet to arrive has an open flag. A button does what it says. Pages open.

The file `PROJECT.json` lists the components, the hazards at their lines, the
map from definitions to source lines, and a seeded fault for every property that
shows the property can fail.

## Modules

| module | models | state and actions |
|---|---|---|
| `BalanceRules` | what `ThresholdRuleStore` promises | a default, rules, the rule of each hotel, the answers; one step per operation, no database, no copy |
| `ThresholdRuleStore` | `threshold_rules_store.py` and its routes | the three tables, the three parts of the copy, and for each request thread its step, arguments and the rows `_load_cache` has read. A request is received (`Post...`, and `PressDelete` for the button of the page), commits (`Commit...`), and runs `_load_cache` statement by statement (`ReadSetting` to `AssignIndex`). `get_threshold` is two steps |
| `HotelDirectory` | what `PropertyStore` promises | what is known of each hotel and who said it (nobody, a report, a hand), the reports of the open pages, what the last page showed. A page learns the names at one instant and the currencies at another, and shows when nothing is left to learn |
| `PropertyStore` | `property_store.py` and its route | the table, the copy and per thread the report, the decision and the form. A page load runs both passes, each as decide / commit / apply. The columns an `UPDATE` names are those that differ from the loaded row |
| `PolicyBook` | what `RuleStore` promises | what each policy text means, the reports of the open pages, the posts not answered yet. New texts are learnt at one instant, each post writes at one instant: the first hand a whole rule, a later one the columns it changes |
| `RuleStore` | `rules_store.py`, its route, and when `evaluate` raises | as `PropertyStore`, with one pass. A policy text is the record of what the patterns read in it |
| `CancellationCheck` | what `evaluate` answers | extends `RuleStore` by the deadline, the cutoff and the comparison with the time of cancellation. It has no state: the rules are those `RuleStore` has when a page evaluates, the cancellations range over a constant |
| `FindingRegister` | what ticking off promises | the stored fingerprints and the requests not answered yet. Each takes effect at one instant between click and answer, or breaks |
| `HandledFindings` | the check-off box, its request, `set_handled`, the next page | per key the PMS fingerprint and the stored one; per browser the page and its requests in flight |
| `InHouseCheck` | `evaluate`, the two queues, the dashboard | the date, the report, the thresholds, the ticks, and the dashboard between its two reads |
| `PmsReader` | `pms.py` and the order of reads of each page | per report file its status, completion and stored rows; the cancellation events, one row each; the key; the cache; per thread the reads still to make, the file selected, what was read. A read selects (`Select`) and then loads (`Load`, `LoadCached`), in transactions of its own, while the importer goes on (`Start`, `Write`, `Complete`, external) |
| `Migration` | `migrate_config_data.py` | per row of the tables where its content comes from (file, detection, typing), the links of hotels, what the copies of the running service know, and the script's position and plan. The script takes one step per section and one for its commit; the service inserts, types, saves and deletes in between, stops and starts |
| `MC...` | | instances, symmetry and bounds for TLC |
| `...Proofs` | | theorems about the module of that name |

`PmsReader` and `Migration` stand beside the others: the first reads tables that
only the importer writes; the second sees of the stores no more than rows that are
there or not, and repeats their transactions in that detail.
`BalanceRules` is the only interface that `InHouseCheck` needs of the thresholds:
it takes the answer of `get_threshold` for its hotel as a variable that any edit
may move (`MoveThreshold`). The three stores share no table and no lock, so they
are modelled apart.

Conventions, the same in all of them:

- **Requests are threads.** `pc[t]` is the step the request of thread `t` is at.
  `Threads` with one element is the deployed service; with two it is the
  development server. A request that ends, well or with an error, forgets its
  locals (`Finish`).
- **A transaction is one step**, since SQLite lets one writer write at a time and
  sessions do not autoflush a select before the write that would see it, except where
  the code reads before it holds the lock: then the read is a step of its own
  (`ReadRow`, `GetRow`), the row may have come or gone by the commit, and the
  commit is refused (`RowIsStale`, `Refused`, the guards of `CommitUpdate`).
  With one thread this is PostgreSQL too, which the service is deployed on.
- **Failures.** `Fail` is any exception of a transaction: an overlapping one, a
  constraint, or, with `DbMayFail`, the database itself. It rolls back.
  In `ThresholdRuleStore` it also strikes the queries of the reload, after
  the commit; `behind` remembers that, until a reload completes. In `PmsReader` a
  load also fails when one row is not readable with the worker's key; nothing is
  cached then. In `Migration` any step of the script may be its last (`Abandon`).
  The answer of a commit that is lost between the database and the service is not
  modelled.
- **`Restart`** is enabled always: the process dies with what it was doing, and the
  constructors read the tables.
- **Ghosts.** `issued`, `shown`, `typed`, `ticked`, `excused`, `calm`, `behind`,
  `before`, `imported` and `deleted` record
  history that properties or the enabling of a form need; no code reads them.
- **Seeded faults.** A definition commented "Seeded fault" is a plausible mistake in
  the definition after it, with the same parameters. Nothing uses it; the property named for
  it in `PROJECT.json` fails when it takes the other's place.

## Runs

Each run is `tlc -config <cfg> <module>`.

| run | module, cfg | checks |
|---|---|---|
| `thresholds_served` | `MCThresholdRuleStore`, `ThresholdRuleStore_served.cfg` | one request at a time, on a database any call to which may fail, also between the commit and the reload. As long as no reload has failed, the store with its copy and restarts implements `BalanceRules`: callers cannot tell them apart (`ImplementsPromise`), and the copy is the tables between requests (`CacheSynced`). Each commit is the very operation its request carries, and a delete that names no rule, such as the page's, changes nothing (`CommitsWhatWasSent`). After a failed reload the copy may be old, but a look-up never raises (`LookupNeverFails`), the two halves of the copy agree (`CacheSelfConsistent`), and the next reload that completes repairs it (`CompletedWriteSyncs`) |
| `thresholds_threads` | same, `..._threads.cfg` | two overlapping writes: the tables still move by whole operations (`TablesAreAtomic`, a refinement), no save is refused by UNIQUE (`SaveNeverRefused`), no link is orphaned, so the process can start (`NoOrphanLinks`) |
| `properties_served` | `PropertyStore`, `PropertyStore_served.cfg` | the copy is the table between requests, failed ones included; when a page is answered everything its report could say has been used (`ReportIsUsed`); a fixed name or currency moves only by a post for that hotel (`FixedKept`); every entry has its row (`RowForEveryEntry`); and the store with its passes, posts, failures and restarts implements `HotelDirectory` (`ImplementsDirectory`) |
| `properties_untyped_currency` | same, `..._UntypedCurrency.cfg` | *violated*: see below |
| `policies_threads` | `MCRuleStore`, `RuleStore_threads.cfg` | two requests at a time that may fail: an unknown policy is never given a meaning (`UnknownIsNotGuessed`), a configured rule never goes back to the detected one (`ConfiguredByHandStays`), and the table implements `PolicyBook`, however pages and posts overlap (`ImplementsBook`). With whatever rule a page then evaluates, merged ones included, who cancels with less notice is never treated more mildly (`LessNoticeIsNeverMilder`), and the cutoff makes a difference on the deadline day only (`CutoffIsOfItsDay`) |
| `policies_days` | same, `RuleStore_days.cfg` | *violated*: see below |
| `findings_stormy` | `MCHandledFindings`, `HandledFindings_stormy.cfg` | two browsers with two requests each, overlapping, failing, losing answers, one of them clicking on without waiting: only what was ticked is shown Done (`DoneWasTicked`), the requests implement `FindingRegister`, each with its one instant (`TogglesAreAtomic`), and a page with nothing in flight shows what is saved (`QuietPageIsHonest`) but for the boxes whose answer was lost, that were clicked again in flight, or whose row was changed from elsewhere |
| `findings_stale_page` | `HandledFindings`, `HandledFindings_stale.cfg` | *violated*: see below |
| `inhouse_desk` | `MCInHouseCheck`, `InHouseCheck_desk.cfg` | whoever owes is listed with the worst severity, on the day of departure too (`OwingIsListed`); more owed is never flagged more mildly, under thresholds of either sign (`MoreOwedIsNeverMilder`); when both counts of a dashboard are zero and nothing moved while it was put together, no reservation that has yet to arrive has an open flag (`AllClearIsRight`) |
| `inhouse_lost_deposit` | same, `InHouseCheck_lost.cfg` | *violated*: see below |
| `pages` | `MCPmsReader`, `PmsReader_pages.cfg` | reports that arrive in any order while pages read them: a cached in-house report is all of its file (`SnapshotIsWhole`), a cached history has every event reported up to its file (`HistoryIsComplete`), no page is behind what was there when it was opened (`PageIsCurrent`), what a page says later is of the same in-house report or a newer one, the date under its counts too (`PageMovesForward`), and every page is answered (`PageAnswered`) |
| `migration_rerun` | `MCMigration`, `Migration_rerun.cfg` | the script before, beside and after the service, again and again: it replaces nothing that is there and what it brought only typing replaces (`FillsGapsOnly`); it imports all or nothing, so a second run finds nothing missing but rules deleted since (`SecondRunIsNoop`); a row that the running service does not know came from it (`UnknownIsImported`) |

**Bounds.** Two hotels and two rules are enough to move a hotel between rules, to empty
a rule and to bring a deleted one back; with two threads one hotel is, as the two rules
then compete for it, and one threshold (a second one makes too many states; the theorems
have any number). Rule ids are used once (`IdsLeft`). The threaded threshold run leaves
out look-ups (`WritersOnly`), which write nothing a writer reads. Two property codes let
one page insert one and upgrade the other; two currencies tell the stand-in EUR from a
detected one. The policies of the threaded run are one that is detected, without a
cutoff, and one that is not; whoever edits a rule types a cutoff, so that rules with a
cutoff (the edited ones, days before arrival) and without both occur, and every property
there is about a single policy. The cancellations it is evaluated for come from three
days before arrival to the day itself, at, before and after the cutoff. Two browsers are
needed for a stale page, two slots for overlapping clicks; requests of a page that is
gone still count against its slots. `InHouseCheck` has one reservation, since nothing in
the code relates two, and payloads on each side of every comparison in `evaluate`:
balances around zero and around each threshold, one room and two, arrival and departure
before, on and after `today`, up to `LastDay = 2`. `PmsReader` has two days, the first
uploaded twice with different rows, and two histories, the second of which replaces the
event of the first and adds another, for another key: every way in which one report is
newer than another. A page reads up to four times with one thread, while the importer
interleaves at every step; threads share nothing but the cache, whose entries the
properties are about (and the theorems hold for any number). `CacheSize = 2` is smaller
than the three in-house files, so that eviction happens (128 in the code). The files of
`Migration` have one hotel of two, one policy of two, both settings and one rule of two,
so that for each kind there is something the files have and something they do not.
Symmetry is used where the constants are interchangeable model values and no liveness is
checked: threads of `RuleStore`, slots and fingerprints of `HandledFindings`.

**Fairness** is assumed in `PmsReader` only: `GoesOn(t)`, which is `WF_vars(Serve(t))`, for
each thread. A request that has begun is run by the server, and the database answers each of
its transactions or refuses it (`Fail`, which also ends the page and needs no fairness).
Nothing is assumed of anybody who opens pages, of the importer or of restarts; so
`PageAnswered` holds on an empty database too, and with a cache that keeps evicting. The other
modules have safety properties and refinements only: their requests are straight lines in which
no request waits for another.

**Deadlock** is checked in every run. No module can stop: a restart, an import or
a click is always possible.

## Proofs

TLC checks the instances above; the theorems hold for every set of threads,
hotels, rules, browsers and so on, and for any number of steps.

| theorem | of | says |
|---|---|---|
| `ThresholdRuleStoreProofs!TypeCorrect` | `TypeOK` | every variable keeps its type |
| `...!SavesAreAccepted` | `SaveNeverRefused` | no save is refused by UNIQUE |
| `...!LinksNameRules` | `NoOrphanLinks` | every link names a rule |
| `...!TablesImplementRules` | `TablesAreAtomic` | the tables implement `BalanceRules` |
| `...!NoButtonDeletes` | | as long as every request comes from the Settings page, no rule is ever deleted |
| `ThresholdCopyProofs!CopyIsInSync` * | `CacheSynced` | the copy is the tables between requests, unless a reload has failed |
| `...!LookupsAnswer` * | `LookupNeverFails` | a look-up has an answer, after a failed reload too |
| `...!CopyAgreesWithItself` * | `CacheSelfConsistent` | list and index of the copy never disagree between requests |
| `...!CommitsAsSent` * | `CommitsWhatWasSent` | a commit is the operation its request carries, and none if it is a delete without a name |
| `...!CompletedWritesSync` * | `CompletedWriteSyncs` | a reload that completes repairs the copy |
| `...!StoreKeepsPromise` * | `ImplementsPromise` | the whole store implements `BalanceRules`, unless a reload has failed |
| `PropertyStoreProofs!TypeCorrect` | `TypeOK` | every column has a legal value, merged rows included |
| `...!EntriesHaveRows` | `RowForEveryEntry` | no page or post meets a missing row |
| `...!CurrencyNeverInserts` | | the branch at `property_store.py:131-135` is dead |
| `...!CopyIsTheTable` * | `CacheSynced` | the copy is the table between requests |
| `...!ReportsAreUsed` * | `ReportIsUsed` | an answered page has used what its report says |
| `...!FixedIsKept` * | `FixedKept` | what is fixed changes by a post for it only |
| `...!PinningTakesAPost` | | only a post that carries a currency takes the currency of a hotel for somebody's |
| `...!UnpinnedIsDetected` * | | where a page is answered, a currency no post has pinned and the report has was detected |
| `...!StoreIsDirectory` * | `ImplementsDirectory` | the store implements `HotelDirectory` |
| `HandledFindingsProofs!TypeCorrect` | `TypeOK` | every variable keeps its type |
| `...!OnlyTickedIsStored` | | only what was ticked is stored |
| `...!OnlyTickedIsDone` | `DoneWasTicked` | only what was ticked is shown as Done |
| `...!QuietBoxesAreHonest` | `QuietPageIsHonest` | a page that waits for nothing shows what is saved, but for excused boxes |
| `...!OnlyOtherContentTakesDone` | | the Done of a record as it is now goes only when it is unticked, or by a click on a row with another content |
| `...!TogglesLinearize` | `TogglesAreAtomic` | the requests implement `FindingRegister` |
| `RuleStoreProofs!TypeCorrect` | `TypeOK` | rows and copies have legal values; what is configured has a fee |
| `...!NothingIsGuessed` | `UnknownIsNotGuessed` | an unmatched policy gets no meaning by itself |
| `...!PostsFindTheirRow` | | the branch at `rules_store.py:166-168` is dead |
| `...!StoreIsBook` | `ImplementsBook` | the table implements `PolicyBook`, with any number of threads |
| `...!AutoIsWhole` | | what is by no hand is exactly what is detected, in the table and in the copy |
| `...!EvaluateKnowsAll` | | a page that evaluates has every text of its report in the copy |
| `...!CopyIsTheTable` * | | the copy is the table between requests |
| `...!PostsAreWhole` * | | a committed post is in the table as its form said, and no row inserted is there already |
| `...!ConfiguredStays` | `ConfiguredByHandStays` | the copy never takes back what was configured |
| `...!LateIsMonotone` | `LessNoticeIsNeverMilder` | less notice is never treated more mildly, by any rule |
| `...!CutoffOnItsDay` | `CutoffIsOfItsDay` | the cutoff decides on the deadline day only |
| `...!FittingNumbersOpen` | | if the numbers in texts and forms are in range, no rule makes a page fail |
| `InHouseCheckProofs!TypeCorrect` | `TypeOK` | every variable keeps its type |
| `...!OwingGuestsAreListed` | `OwingIsListed` | who owes is listed, with the worst severity |
| `...!LadderIsMonotone` | `MoreOwedIsNeverMilder` | owing more is never flagged more mildly |
| `...!AllClearIsTrue` | `AllClearIsRight` | both counts zero and nothing moved: no open flag on who has yet to arrive |
| `...!LostDeposits` | | a failed deposit is on no page exactly when the day of arrival is past and nothing else is wrong |
| `PmsReaderProofs!TypeCorrect` | `TypeOK` | every variable keeps its type |
| `...!SnapshotsAreWhole` | `SnapshotIsWhole` | a cached in-house report is all of its file |
| `...!HistoriesAreComplete` | `HistoryIsComplete` | a cached history misses no event reported up to its file |
| `...!PagesAreCurrent` | `PageIsCurrent` | no page is behind what was there when it was opened |
| `...!PagesMoveForward` | `PageMovesForward` | a page never goes back to an older in-house report |
| `...!OneLatestReport` | | where reports are completed one of them is the latest, and only one |
| `...!NoReadIsStuck` | | the guards of an open page's next step hold |
| `...!PagesComeNearer` | | each step of its own brings a page nearer to its answer, nine at most; nothing else moves it but what ends it |
| `...!PagesAreAnswered` | `PageAnswered` | every page is answered, if an open page can take a step (`ENABLED`, see below) |
| `MigrationProofs!TypeCorrect` | `TypeOK` | every variable keeps its type, and links name rules |
| `...!SecondRunNeedsNothing` | `SecondRunIsNoop` | after a run has committed only deleted rules are missing |
| `...!OnlyImportsAreUnknown` | `UnknownIsImported` | rows unknown to the running service came from the files |
| `...!GapsAreFilledOnly` | `FillsGapsOnly` | a commit replaces nothing, and only typing replaces what it brought |

The theorems marked * read `OneThread /\ Spec => ...`: they are about one request
at a time, as the deployed service answers them, with a database that may fail at any
call and a process that may die between any two steps. With two threads several of these
properties fail (see [More than one thread](#more-than-one-thread)).

**Assumptions** are those the modules state about their constants: `None`, `KeyError`,
`Unparsable` and `Blank` are none of the values they stand beside (nor is `None` an entry, a
post or a call of the abstract modules), and the fallback threshold and `EUR` are a threshold
and a currency. In `RuleStore` the policies and what the form can carry are subsets of what the
code can parse; in `InHouseCheck` the payloads, thresholds and typed values are subsets of
their types, and nobody departs before arriving; cancellations have whole days and non-negative
times. In `PmsReader` a file has one type, day and key, and the cache holds at least one; in
`Migration` the files have keys the tables can have, and no hotel in two rules (UNIQUE would
refuse every run). Nothing is assumed of whether the database fails and, outside the marked
theorems, of the number of threads.

**`TablesInv`** (`ThresholdRuleStoreProofs`) is `TypeOK`, the UNIQUE constraint,
`NoOrphanLinks`, that every rule in the table has been issued, and that requests
under way carry what their operation needs. UNIQUE alone is not inductive: a save is
accepted because the links it inserts have been deleted from every rule
before (`SavedUnique`), and a link keeps its rule because a save writes the
row it links to. The refinement maps each commit to one operation of
`BalanceRules`, or to none when it writes nothing, and every other step to a stutter; the hotel's owner is read off
the links (`IndexOfLinks`, which needs UNIQUE). `NoButtonDeletes` adds that, when all requests are
the page's, a delete under way names no rule (`DeletesAreNameless`).

**`CopyInv`** (`ThresholdCopyProofs`) adds to `TablesInv` what the one request knows of
the tables at each step (`CopyOK`). Nobody else writes, so the rows a reload has read
are still the tables when it assigns them. `HalvesAgree` fails only between the
assignments of the rules and of the index, where no query can fail any more; that is
why a reload that stops leaves a copy that is old but whole, and why a look-up never raises.
That the halves of a new copy agree follows from the tables: links are unique and name
rules (`ReloadAgrees`). A save that loaded its row still finds it so (`RowIsFresh`): a
column it leaves out of the `UPDATE` is as the form asked. `StoreKeepsPromise` maps commits and
look-ups to operations of `BalanceRules`, and all else to stutters.

**`EntriesInv`** (`PropertyStoreProofs`) adds to `TypeOK` and
`RowForEveryEntry` what each request has decided and still relies on
(`WorkOK`, `FormOK`): between the decision and the write of a pass, each hotel of
the report is in the copy or about to be inserted; what is to be upgraded is in
the copy; after the names pass the whole report is in the copy. Other threads
do not disturb this, because entries and rows are only ever added (`StepKeeps`).
That the currency pass never inserts is a consequence. `CopyInv` of the same module adds,
for one thread, that the copy is the table except between a commit and the
assignments after it, and that those make it so (`PassOK`); that what a
pass has decided is all its report could say, and nothing fixed
(`NamesDecided`, `CurrenciesDecided`); and that a post still has the row it loaded.
**`ShownInv`** adds that what a page has shown is in the copy and stays there. With it the store
maps to `HotelDirectory`: a commit of a page is one pass over its report, because the copy it was decided
from is the table; rendering is `Show`, because nothing is left to learn; the commit of a post is
`Edit` of a hotel that has been shown; deciding and copying are stutters.

`PinningTakesAPost` and `UnpinnedIsDetected` bound the finding on `UntypedCurrencyIsDetected`:
the prefilled currency of a form is the only way an untyped one gets fixed, and any other
follows the reports.

**`TickedInv`** (`HandledFindingsProofs`) adds that every request in flight, an
untick too, is about a finding that has been ticked, and that the row a live page
waits on keeps the fingerprint its request carries. A revert that ticks a box
again is the step for which the plain invariants are not enough. **`BoxInv`** relates each box
of an open page to its row and to the click it waits for: at most one click is in flight for a box that
nothing excuses; until its commit the row is the opposite of what was asked, afterwards it
is what was asked (`ClickOK`). So the answer may leave the box alone and the
revert may turn it back. It holds whether the server handles requests one at a time or not.

`TogglesLinearize` maps each request to a call of `FindingRegister`. Its one instant is the
commit when there is something to do. When the row already is as asked, it is the moment the
row is read: another commit may change the row before this one's, which then changes nothing,
or is refused. The `UPDATE` that leaves the fingerprint out, because the row it loaded had it,
is that case too (`Written`): it does not put back a fingerprint that has been replaced
meanwhile.

`OnlyOtherContentTakesDone` says how far the code is from the keyed Done of the next section:
no import, page load, failure or lost answer takes it, only the click of a page whose row has
another content. It needs `TickedInv`, which says that somebody had ticked that content.

**`RulesInv`** (`RuleStoreProofs`) explains why a late write of `ensure_known`
never lands on a configured rule, though nothing locks the copy. A request about
to write has inserted the rows itself; the primary key lets nobody else have
inserted them; so the copy cannot have them yet, no page has shown their form, and
nobody can have posted it (`NewOK`). For a post, no column it has loaded as set is
unset since (`PostOK`), which keeps a row legal that two posts have written.

**`BookInv`** adds that every entry by no hand is exactly what is detected in its text
(`AutoIsDetected`), that of its report a page past the decision has each text in the copy or is
about to insert it (`SeenOK`), and that a row a post has loaded, if it was by no hand, was what
is detected (`LoadedOK`). The last is what `PolicyBook` needs of two posts that overlap. An
`UPDATE` leaves a column out when the form says what the loaded row said. If no hand has
written the row at the commit either, the row is the loaded one, so leaving the column out is
as good as writing it: a first hand writes a whole rule, and a merge (`Merged`) is over a row
of a hand only. `StoreIsBook` holds for any number of threads; with one thread **`CopyInv`** of
this module shows that no merge happens and the copy is the table (`PostsAreWhole`,
`CopyIsTheTable`).

`FittingNumbersOpen` is the other half of the finding on `SettingsOpen`: numbers get into the
stores from the texts and from forms only, and a merge takes each of them from one of its two rows
(`NextKeepsFit`). So the two numbers the finding names are all that can shut the page.

**`DeskInv`** (`InHouseCheckProofs`) adds to `TypeOK` that the dashboard's counts
agree with the state until something moves. The properties of the ladder
need no more than types: `RankOf` writes the rank as a function of balance,
threshold and rooms, and monotonicity is arithmetic from there, for every integer.
`LostDeposits` gives the exact extent of the gap between the two queues.

The two theorems of `CancellationCheck` need of `RulesInv` only that a rule in use
has legal values; the rest is arithmetic over days and seconds.

**`ReaderInv`** (`PmsReaderProofs`) adds to the properties what makes them inductive. Of files:
completion times are distinct and do not run ahead of the clock, so what is completed next is
the newest of its day; a completed file has all its rows, and every event a file has written
has a row still, its own or that of a file which replaced it (`ImportsOK`). Of the cache: only
completed files are in it. Of each page: the date is its last read (`DateIsLast`), and the file
it has selected, but not yet loaded, is no older than what it has read and than what was there
when it was opened (`UpToDate`): the load that follows comes later, but the selection is what
counts.

**That pages are answered** is proved up to one step. `OneLatestReport` (a finite set of
completed reports has a latest) and the cache bound give `NoReadIsStuck`, the guards of a
page's next step; `Work` counts the steps it has left, at most nine, and `PagesComeNearer`
shows that each step of its own lowers it and no other raises it. From there and from `GoesOn`
the prover's temporal logic derives `PageAnswered`, one round per value of `Work`. What is
missing between the guards and fairness is `ENABLED <<Serve(t)>>_vars` itself, which the prover
cannot expand: it is the hypothesis of `PagesAreAnswered`, and says no more than the guards do.
TLC, which evaluates `ENABLED`, checks `PageAnswered` without it.

**`MigrationInv`** (`MigrationProofs`) adds what the script relies on between looking and
committing (`PlanOK`): every row of a section it is past is there or planned, as is every rule,
unless somebody deleted it since. Rows are never removed, so the commit leaves nothing of the
files out; that is also why a second run finds nothing (`ImportedOK`).

**Only model-checked**: that an open page can take a step, as `ENABLED` says it, and so
`PageAnswered` from `FairSpec` alone. Every other property of the passing runs is proved.
Induction over data (what a fold computes for every input) is beyond the prover too, and no
module needs it. The four claims of the next section are refuted by TLC's counterexamples; that
nothing else breaks them is proved (`PinningTakesAPost` with `UnpinnedIsDetected`,
`FittingNumbersOpen`, `OnlyOtherContentTakesDone`, `LostDeposits`).

## Where code and documentation disagree

Four runs check a sentence of the repository and find it violated; the fifth point is a
button that does nothing, which a passing run and a theorem state as it is.

1. **A currency nobody typed is fixed** (`properties_untyped_currency`).
   `README.md:167`: "Name and currency are tracked independently". The form of a
   hotel posts its prefilled currency together with the name, and
   `property_store.py:169-174` takes any non-empty currency for a manual one.
   Whoever corrects only the name pins the stand-in EUR, and no report changes it
   any more.
2. **One rule shuts the Settings page** (`policies_days`). `README.md:73-74`: every
   policy text "can be reviewed and edited" there. The page evaluates every
   cancellation before it shows a form (`app.py:430`), and `evaluate` raises on a
   cutoff that is no time of day and on a number of days no date can go back by.
   The first is detected from a text such as "Flexible 18:00 PM DOA", which becomes
   30:00 (`rules_store.py:64-65`); the second can be typed (`app.py:469-470`).
   TLC stops at whichever is shorter, the first. `MaxDays` stands for the
   distance to the first date.
3. **An older page takes a Done away** (`findings_stale_page`). `README.md:30-31`: Done
   is "keyed by the opaque PMS lookup and the payload fingerprint". The row is keyed
   by check type and lookup (`models.py:17-23`); a click on a page that still shows
   the record before an import replaces or deletes the Done of the one after it
   (`app.py:97-113`).
4. **A failed deposit drops out** (`inhouse_lost_deposit`). `inhouse_logic.py:97-98`:
   "a failed deposit remains actionable even on the departure day", and the
   reservation is flagged. But with no other flag it is left to the Failed
   Deposits queue (`inhouse_logic.py:133-138`), which keeps only those that arrive
   today or later (`app.py:158`). From the day after arrival it is in no queue and in no count.
5. **Delete deletes nothing** (`thresholds_served`). The button of a rule
   (`settings.html:141`) submits the form of line 166, which has no field. The save form
   beside it carries a hidden `rule_id` (163-165); this one does not, and neither the button
   nor `settings.js` adds one. The route reads the missing field as `""` (`app.py:535`) and
   deletes the rule of that id, which is none. The page comes back without an error, and the
   rule is still on it. `PressDelete` is that request, apart from `PostDeleteRule`, the route for
   whoever names a rule; no page does, but a client may, so the properties of the store are
   checked with both. `CommitsWhatWasSent` says that the press commits and changes no table,
   `NoButtonDeletes` that no use of the page alone ever deletes a rule.

## What the properties do not promise

- **One unreadable row fails its whole report.** `_decode` raises, nothing is cached
  (`LoadUnreadable`), and every page that needs the report fails until another one is the latest
  or the key fits. For the cancellation history one event encrypted for another key is enough.
  The pages end (`PageAnswered`), with an error.
- **Two counts of one page may be of two reports.** The dashboard selects the in-house
  report once for each queue and once for the date (`app.py:181-205`). Only the order is
  certain: `PageMovesForward`. `AllClearIsRight` is therefore about a dashboard during which nothing moved.
- **A re-run of the migration brings a deleted rule back.** "Running this twice is a
  no-op the second time" (`migrate_config_data.py:15`) holds whatever was edited, but a rule deleted since is
  missing again, so it is inserted again; `SecondRunIsNoop` excepts it. (Deleted by a request that names
  it: the page's button does not, see 5 above.) If the hotel of a rule that is
  missing has since been given to another rule, UNIQUE refuses the
  commit, and with it the whole run.
- **A migration beside the running service** leaves rows that the copies of the service do not have
  (`UnknownIsImported`). A page whose report mentions such a hotel or policy tries to insert it,
  is refused by the primary key and fails, and so does every later one, until
  a restart. "Run this once when cutting over" (`migrate_config_data.py:3`) asks for
  no running service, and does not say so.
- **Done outlives an edit of the rules.** It is compared with the payload only (`app.py:139`): a cancellation
  ticked off as in time stays Done when its policy is edited so that it is late.

## More than one thread

The deployed service has one thread, and the runs above say what holds for it.
The modules can be run with two, and then more goes wrong than documentation
admits; whoever adds a worker thread should know:

- `get_threshold` reads the index before the rules, and a reload assigns the rules
  before the index (`threshold_rules_store.py:63-64, 86-88`): it may raise
  KeyError (`LookupNeverFails` with two threads).
- Two reloads that overlap may assign the older rows last; the copy stays behind
  the tables until the next write (`CacheSynced` with two threads). So may the default: a post
  of the value its row had when it was loaded (`threshold_rules_store.py:72`) writes no row and
  takes the copy all the same.
- A page load may overwrite a name that was typed after it decided
  (`property_store.py:92, 103`; `FixedKept` with two threads).
- Two posts for one row write the columns each of them changed, and the row may be
  neither's: a policy that is always late and has a number of days
  (`rules_store.py:169-172`). `ImplementsBook` says that this is all that can happen to a
  row, and to one that a hand had written before only.

What holds with any number of threads is proved: `TablesAreAtomic`,
`SaveNeverRefused`, `NoOrphanLinks`, `RowForEveryEntry`, that the currency pass never inserts,
all properties of `policies_threads` and `findings_stormy`, and the safety properties
of `pages`.

## What is not modelled, and the plan

Not modelled:

- **Deduplication** (`dedup.py`). Nothing in `src/` calls `dedupe_cancellation_rows` or
  `dedupe_inhouse_rows`; they are sequential folds without state. `first_non_empty_by_property`, which is
  called, is in `PropertyStore` by its result: what a report has for a hotel.
- **Hotel scope** (`app.py:116-131, 219-223`, `templates/home.html`): two values in the
  cookie of one browser. Two of its hazards are listed without a property: a hotel that
  drops out of a report is dropped from the scope by the next form and stays out when it
  comes back, and the dashboard says "All N hotels" when as many are
  selected as there are, whichever they are (`home.html:11`).
- **Content of payloads**: parsing and the wording of deadlines, and encryption, which is the
  computation of a library and is here whether a row is readable with a key.
- Layout and styles, the settings picker, the deployment scripts beyond what they say about processes, and
  `seed_from_csv.py`, which only refuses to run.

The plan:

- `HotelScope`, composed with the hotels of `PmsReader`'s reports, so that the two hazards of the
  scope have a property. It is the only state of the service that has no module.
- What the stores still promise with two threads, where their copies may be behind: that a restart, or
  the next write that completes alone, repairs them.
