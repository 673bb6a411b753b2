# Tech Check client: TLA+ models, checks and proofs

Sunrise Tech Check is a desktop app (Go behind a Wails window) that a candidate
runs before a remote job starts. It asks for a name and an email, collects facts
about the machine, measures the network to a list of points of presence (POPs),
writes the report to a local file, uploads it, and shows the result. It can also
download a newer release of itself and swap it in.

This directory is the formal side of that program. Section 1 is the inventory of
the system, section 2 the modules and how they correspond to the code, section 3
the runs of TLC, section 4 the proofs, section 5 what the models leave out,
section 6 the places where the code and its own words disagree, section 7 the plan.
Paths are relative to `src/`; `wizard/`, `nettest/`, `updater/`, `upload/`,
`config/`, `sysinfo/` stand for `cmd/techcheck/internal/...`, `screens/` for
`cmd/techcheck/frontend/src/screens/`.

## 1. Inventory

| Component | State | Operations | What is hard | What makes it correct |
|---|---|---|---|---|
| **Wizard** (`wizard/app.go`, `frontend/src/main.js`, `screens/identify.js`, `screens/result.js`) | `running`, `cancel`, `current`, `lastLocal`, `lastUpload` under one mutex; one goroutine for each run; the result screen | `StartRun`, `Cancel`, `SendReport`, `LastUploadInfo`, `LocalReportPath` | no guard against a second run; goroutines that outlive the screen that started them; Retry against a run in progress; cancel in the middle of an upload | the running flag is exact; what is shown as sent is stored in full; every run ends; a cancel reaches the run and ends its upload |
| **Upload** (`upload/upload.go`) and the ingest server | attempts, back-off; the record of each run_id | POST with retries on 5xx and transport errors | the answer of a POST that was stored is lost and the POST is sent again; a POST arrives after its client gave up; cancel during back-off or an attempt | at most `upload_retries` + 1 attempts; a stored record is final |
| **Self-update** (`updater/`, `wizard/app.go:99-212`, `components/updateBanner.js`) | three paths of the install directory; `downloading`, `updateReady` | check, `Download`, `Stage`, `SpawnHelper`, `RunApplyUpdate` (wait, swap, relaunch), `CleanupLeftovers` | several processes and detached helpers on the same files; a kill between two renames; failed renames and failed rollback; removals that stop half-way; a parent that does not exit | a complete copy of the app survives; only a complete payload is installed; nothing is swapped under a running app; an accepted update reopens |
| **UDP stream** (`nettest/udpstream.go`) and the beacon | nonce, hellos sent, packets received; the beacon is stateless before `S` | hello, cookie, start, data, end, busy; retry of a busy beacon, second try after silence | loss, duplication, reordering, packets of an earlier try, a busy answer to another packet than the one it is taken for | only this try is measured; the loss reported is real; one stream at a time; a verdict has a cause; it returns |
| **Ladder and stream statistics** (`nettest/udpstream.go:321-348`, `nettest/streamstats.go`) | the steps so far | one stream per rate up to the first lossy one; counting | boundaries: no end packet, no data, exactly at the limit | statistics mean what they say; `max_clean_mbps` is the highest clean rate |
| **Runner** (`nettest/runner.go`) and the running screen | results of each POP; the progress channel; the rows | `QuickPOP` of all POPs at once, `SelectFullPOPs`, `FullPOP` one after another, `emit` | the barrier between phases; events dropped by a full channel; cancel anywhere; partial failure of one test | the nearest POP is chosen; a missing field has a reason; rows settle; one test at a time |
| **Latency** (`nettest/latency.go`, `nettest/icmp.go`) | echoes and replies, samples, drops | ICMP echoes, fallback to TCP connects | the echoes of all POPs share id and sequence numbers; replies come late; the fallback starts over | attempts and drops are those of the pings made |
| **HTTP throughput and jitter under load** (`nettest/throughput.go`, `nettest/jitter.go`) | attempts, start, wait; the load, the ticker, one dial at a time | transfer, wait `retry_after`, ping on a tick, wait for the load | a busy POP against the timeout of the test; the end of the window against a tick; a load that outlives it | only the last attempt is timed; a test ends in time; one transfer at a time; no drop the network did not cause |
| **Single-shot probes** (`nettest/tlscheck.go`, `clockskew.go`, `mtu.go`, `reachability.go`, `udpecho.go`, `geoip.go`) | two flags of the handshake; the two clocks | one request each | an error at any point between dial and answer; Whoami without a timeout | a verdict has a cause; the skew is off by no more than the flight |
| **Configuration** (`config/`, `wizard/app.go:48-87`) | `cfg` | `Load`, `Fetch`, `WithDefaults`, once in a launch | four sources; fields left out, empty or zero; decoding over what is there | each value comes from the best source that has one; a run never tests nothing; the window opens |
| **Update check** (`updater/updater.go`, `components/updateBanner.js`) | the banner | `CheckForUpdate` | a failed check looks like "not supported" | no false banner, no missing one |
| **Saved identity** (`config/identity/`) | `identity.json` | `Load`, `Save` | a process that ends in the middle of a write | what is pre-filled was saved |
| **System information** (`sysinfo/`) | none | one query per fact, then parsing | flags carried from line to line, trees, one time budget for two queries | one default link; each device once; a rate that was reported |
| **Report, other screens, mock servers, build** | none of their own | one write, or rendering | none | inputs or single steps of the modules above |

The components meet in `wizard.App`. `StartRun` starts a goroutine that calls
`nettest.RunAll`; that sends progress through a channel to a forwarder, which
emits Wails events to the JavaScript of the window. The goroutine then calls
`report.WriteLocal` and `upload.Upload`, and emits `complete`. `ApplyUpdate`
looks at `running`, starts a detached copy of the app as the helper, and quits.

## 2. Modules

Each component has a module of its own, with one action per step of the code
between two points where another goroutine, process or packet can come in. Each of
these modules but `Aggregate`, `Config` and `SysInfo` has a `*Proofs` module beside it with
its theorems (those on the operators of `Config` are in `LaunchProofs`, of `Aggregate` in
`LatencyProofs`, of `SysInfo` in `WizardProofs`); an `MC*` module only adds symmetry or a value a
configuration file cannot write. `PROJECT.json` maps
each definition to its lines.

Some definitions are headed by a comment "Mutant: ...". They are not part of any
specification: each is a wrong version of the definition below it, the way a
plausible bug would write it, and shows that the property named for it in
`PROJECT.json` would notice.

### `Updater`, `AtomicInstall`, `MCUpdater`

State: what the three shared paths hold (`target`, `old`, `staged`: nothing, a
partial payload, the current release or the update), and for each process its
life (`app`), the release it runs (`ver`), its download goroutine (`dl`),
`updateReady` (`ready`), its button (`ui`) and the helper it spawned (`helper`).

| Actions | Code |
|---|---|
| `Launch`, `SweepStat`, `SweepOld`, `SweepStaged`, `Exit` | `main.go`, `Startup`, `CleanupLeftovers`: the stat and the two removals are separate steps |
| `DownloadUpdate` ... `Settle`, `OrphanEnds` | the goroutine of `DownloadUpdate`, `Download`, `Stage`; the `ditto` child of macOS survives its parent |
| `ApplyUpdate`, `SpawnHelper`, `SpawnFailed` | `App.ApplyUpdate`, `SpawnHelper` |
| `WaitForExit`, `DropOld`, `MoveAside`, `Place`, `Rollback`, `Tidy`, `Replace`, `Relaunch` | `RunApplyUpdate`, `renameSwapDir`, `replaceFile`, `relaunch` |
| `HelperKilled`, and `Exit` of a process that did not quit | a kill or a power cut |

`os.RemoveAll`, whose error every caller ignores, is two things: of a bundle it makes a partial
one first (`TakesApart`), so that a kill in the middle leaves that, and with the fault `"remove"`
it may return and leave what was there (`Leaves`).

A second process that rewrites, moves or removes files a copy is still writing
leaves that copy `"disturbed"`: it may end with an error, or without one and with an
incomplete result. On Windows open files cannot be removed or moved, on macOS
they can.

`AtomicInstall` is the promise to the user in three variables: the best version
that can be put back, whether the install path holds it, and whether the app is in use.
The version never goes back, and the path changes only while the app is
not in use. `Updater` implements it under the mapping `Best`, `target # "none"`,
`InUse`.

### `Wizard`, `MCWizard`

State: the five fields of `App`, the goroutine of each run (`pc`), cancelled
contexts, the upload call of each run and of the Retry button (`call`,
`carries`, `body`, `tries`), the server's records (`ingest`), the result screen,
`ApplyUpdate` (`apply`). A POST is sent (`Attempt`), may reach the server (`Arrive`) and is
answered for the client (`Answer`): by a success, by an error to retry, or by one that ends the
call. A cancel can come between any two of these. A client that gives up on a POST
(`GiveUp`: a timeout, a lost answer, a cancel) does not know whether it was stored, and one that
was not may still arrive (`late`, `ArriveLate`). A run takes a run_id nobody had (`Fresh`). `Habits`
says what the user does beside the straight path: `"overlap"`, Next is clicked
again while a run is in progress; `"apply"`, Next is clicked while `ApplyUpdate` is
between its check and its quit. The code has no guard against either.

### `UdpStream`

State: the client's position (`phase`), attempts and tries, received sequence
numbers, the set of packets in flight, the streams the beacon sends, and how
often the network still may lose or duplicate. `Delay` decides whether a read
deadline may pass while a packet is in flight or a stream is running. The beacon
is external: modelled from the packets the client sends and accepts, with the
mock of `cmd/mockprobe/stream.go` as a witness.

### `Ladder`, `MCLadder`

`StreamStats` is one pass over the arrivals (`Scanned`, a recursive function), as the loop of
the code is. Each step of the ladder chooses any sequence of arrivals and whether an end
packet came. The properties say what each count means without the pass.

### `Runner`

`Locate` stands for Whoami and the geolocation. The quick checks of all POPs
interleave; `Select` is the barrier, the sort and `SelectFullPOPs`; `FullStart`,
`FullEnd`, `FullSkip`, `FullRepeat` walk through the rows of `FullPOP`. `Outcomes` lists what a
test can leave: a field, an error, or, for jitter and MTU, a field without an error.
`Emit` drops what the channel has no room for and `lost` remembers whose last
event that was; `Forward` is the forwarder together with `applyProgress`. A test is
linearised at its end: a cancel counts as before it or after it. `full_test_max_pops` is a
variable that a run chooses from `Limits`.

### `HttpTests`

The inside of the tests that are one step in `Runner`: the TLS check of the quick phase,
then download, upload, jitter, MTU and clock skew in the order of `FullPOP`. Time is
counted in half seconds from the start of each test; `Tick` waits until every
timer, deadline and ready step of the program has been answered (`Due`, `PingDue`,
`ProbeDue`), so that a reaction takes less than half a second.

| Actions | Code |
|---|---|
| `Send`, `AnswerOK`, `AnswerBusy`, `RequestFails`, `BodyEnds`, `Drained`, `Waited`, `WaitExpired` | `MeasureDownload`, `MeasureUpload` and their single attempts; the same actions are the load of the jitter test (`"load"`) |
| `PingStart`, `Dial`, `DialOK`, `DialFails`, `PingsEnd`, `LoadDone` | the loop of `MeasureJitter`; a tick that comes while a dial is on its way is kept, one at most, as a Go ticker does |
| `ProbeStart`, `TlsConnected`, `TlsVerified`, `TlsEnds` | `MeasureTLS`, `chainsToExpectedRoot` |
| `Stamp`, `Headers`, `SkewMeasured`, `SkewFails`, `MtuEnds` | `MeasureClockSkew`, `MeasureMTU` |

`flight` and `asked` are not of the program: they record how long the last attempt was on its
way and what a busy POP asked for, and are what the properties compare with.

### `Latency`, `Aggregate`, `MCLatency`

One `MeasureLatency` per POP, all at once, each with its socket (`inbox`). A POP answers any
echo it was sent (`echoed`), however late, also one whose sender has moved on to TCP.
`Shared` says whether the kernel hands a reply to every open ICMP socket or to
its own. `Aggregate` has `AggregateSamples` and `percentile`, against a definition
of a nearest-rank percentile by counting. The sorted copy is stated by the place of each
sample (`Place`): how many come no later, the first of two equal ones first.

### `Config`, `Launch`, `MCLaunch`

`Config` has the merges as operators: `Load`, `WithDefaults`, and what `NewApp` does with
the answer of the registry (`WithLive`). A field that a document may leave out is a
sequence of none or one. `Launch` puts them into the order of a launch, with the banner and
the saved identity, and lets the process end anywhere, also between the
truncation of `identity.json` and the write (`SaveBegins`, `SaveEnds`, `Ends`).

### `SysInfo`, `MCWizard`

The parsers of the collectors as operators over the kinds of lines and entries they tell
apart. Loops and the walk over the USB tree are recursive functions: `PortsScanned` takes the
lines one after another, and `Walks` goes from a node to the first item below it and then to
the next item of its own list. A list that skips entries (`CollectAdapters`, `ParseDisplays`)
is a function over the positions that are kept. `WrongPorts`, `WrongAdapters`, `WrongUSB` and
`WrongDisplays` are the inputs for which they are wrong, measured by what the comments say.
`CollectedIsRight` of `MCWizard` says that by the time a run has collected these sets are empty but
for `WrongUSB`, of which only inputs with a first query that timed out may be left
(`WrongUSBInTime`); `USBFromEither` says that none is, which is false (section 6).

## 3. Runs

All runs say `CHECK_DEADLOCK FALSE`: the programs end (the app quits, a
measurement returns, all processes that are ever started are gone), and the final
state has no successor. What must not stop early is stated as liveness.

| Run | Question | Instance |
|---|---|---|
| `UpdaterMac` | do the install and the promise of `AtomicInstall` survive kills, failed renames, half-done removals and a slow parent | macOS, 4 processes one at a time, all faults |
| `UpdaterWindows` | the promise of `AtomicInstall`; does an accepted update reopen | Windows, 3 processes one at a time, removals that leave files |
| `UpdaterSweepRace` (violated) | can the sweep delete the last copy | macOS, 2 overlapping processes |
| `Wizard` | flag, swap, upload, cancel; does a run end and a Retry get its answer; the collectors | 2 runs, 1 retry, one run at a time; lists of up to 3 interfaces of 6 sorts, 4 lines of hardware ports, USB trees of up to 3 nodes, 2 controllers with 2 screens |
| `WizardPartialSent` (violated) | does the server only get complete reports | 2 runs, `"overlap"` |
| `UdpStream` | verdicts, loss, one stream | 2 attempts, 3 hellos, 2 data packets, 3 losses, reordering, no delay |
| `UdpStreamLate` | whose packets are measured; does it return | 2 attempts, 1 hello, 1 data packet, 1 loss, 1 duplicate, any delay |
| `Runner` | selection, report, rows, return | 2 POPs with medians 50 and 100, limit 100, 1 or 2 full tests, a channel of 1 (the code has 128) |
| `Latency` | attempts and drops; order statistics | 2 POPs, 2 samples, replies shown to every socket, timeout; all series of up to 5 samples of 3 values, falling ones of 10 and 20 |
| `Ladder` | counts and the clean rate | 3 rates, 3 data packets, up to 3 arrivals in any order, limit 50 % |
| `HttpTests` | times, retries, pings, skew, return | a timeout of 4.5 s, `retry_after` of 1 s or unusable (5 s), 4 attempts |
| `Launch` | sources, settings, banner, identity | 4 builds, 38 sidecars, 7 registry answers, 2 people, any number of launches |

What the passing runs show, by property; each is stated in words where it is
defined, and some are conjunctions of parts that are named here after "of".

- *Updater*: some complete copy is always on disk (`CopySurvives`), a partial payload is
  never installed (`NoPartialInstalled`), no process runs during the file operations of a
  helper (`SwapsAlone`), the promise of `AtomicInstall` is kept on both platforms
  (`ImplementsInstall`), and without failing renames and a second copy an accepted update is swapped in and
  reopened (`Relaunches`).
- *Wizard*: `RunningIsTrue`, `NoSwapDuringRun`, `WizardInv` (of `StoredComplete`,
  `SentIsStored` and the invariants their proof needs), `CancelReachesRun`,
  `RunCompletes`, `RetryAnswered`; and `CollectedIsRight` for the
  collectors of `SysInfo` (of `AdaptersRight`, `PeripheralsRight`).
- *UdpStream*: an "unsupported" takes the loss of every hello or its answer, a "did not run" a
  loss in each of two tries (`VerdictsHaveCause`, of `UnsupportedIsTrue`,
  `SilenceIsTrue`), reordering is not loss (`NoFalseLoss`), `OneStream`;
  under delay only `MeasuredIsOurs` and `Terminates` remain true.
- *Runner*: the selection is the one the settings ask for (`RunnerInv`, of `TypeOK`,
  `SelectionSound`), `GapsExplained`, `RowsSettle` and `OneTestShown` (unless the last event
  of the row was dropped), `FailedRowStays`, and `RunAllReturns`, which excepts a Whoami that
  hangs.
- *Latency*: `LatencyInv` (of `TypeOK`, `LossIsReal`), `AggregateIsRight`.
- *Ladder*: `StatsMeanWhatTheySay`; the ladder stops at the first lossy rate and its clean
  rate is the highest clean one (`CleanIsHighest`).
- *HttpTests*: the elapsed time is that of the last attempt, and the skew is off by no more than
  the flight (`MeasuredIsFlight`); a test ends with its timeout whatever a busy POP asks for, and
  one transfer runs at a time, the load included (`TestsApart`, of `TypeOK`, `InTime`,
  `OneTransfer`); the POP is not asked before the time it named or too often (`RetriesAsAsked`);
  a ping of the window that the network answers, also one dialled in its last instant, is never a
  drop (`NoPhantomDrop`); no tick is swallowed
  (`EveryTickPinged`); `AllReturn`.
- *Launch*: `ConfigFromBestSource` (of `POPsFromBestSource`, `URLFromBestSource`,
  `RunSettingsUsable`), `WindowIsTrue` (of `TypeOK`, `BannerIsTrue`, `PrefillWasSaved`).

Why the bounds are enough. *Updater*: every path has four possible contents and
one update exists, so four processes suffice for update, failure, second update attempt,
and the start of the result; the theorems hold for any number. *Wizard*: the conflicts are
between one run and the next, and between a run and Retry; two runs
and one retry give each of them. *UdpStream*: silence needs two tries, a busy beacon
two attempts (the code has `bwMaxAttempts` = 4; the third and fourth repeat the second); three losses are enough to lose every
hello of a handshake, or one `S` in each try; two data packets can be
reordered. *Runner*: two POPs are a nearest and another one that is
near, exactly at the limit, left out for room, tied, or not measured at all; one of them echoes UDP.
A channel of one drops events at every place. `Breakable` limits which tests fail on
their own; a cancel can make any test fail. `Shown` limits the rows that are
followed to the quick row and one full test. *HttpTests*: 4.5 s is shorter than the
fallback of 5 s, so a wait can outlast the test; it is long enough for all four attempts, with
waits of 1 s; the jitter window is then 2.5 s with five ticks. Its formula for long
timeouts (`Timeout >= 64`, 30 s) is in `Duration` but not in the run; the theorems are for any timeout. *Launch*: one field stands for those
that are treated alike; a value may be left out, empty, zero or given in each
source. *SysInfo*: three nodes give a chain, a hub with two devices, and a bus
with three. *Latency*: with two samples one can be answered late by the
reply of the other. *Ladder*: three packets are the fewest with a
reordered packet that is not the last; a limit of 50 % is met exactly by one packet of two, with
one of three below it and two of three above; duplicates are among the arrivals.

Fairness. *Updater*: a process that called `Quit` exits, and a helper that can
take its next step takes it; clicks, downloads and faults are not promised.
*Wizard*: the goroutine of a run and an upload advance, because each probe and
each POST has a timeout; and the handlers of an answered Retry run. No click is promised.
*UdpStream*: deadlines fire, packets that are neither lost nor delayed arrive,
the beacon sends its stream. *Runner*: the goroutines of the run advance,
because each test has a timeout; Whoami has none, so it is only promised to end once the run is
cancelled; the forwarder is not promised to run. *HttpTests*: time passes and
timers fire; strong fairness for the end of the ping window, because `select` chooses at
random between it and a tick. *Latency*, *Ladder* and *Launch* state no fairness: only safety is
checked there.

## 4. Proofs

Checked by `tlapm`, for every value of the constants that satisfies the stated
assumption. Every safety and action property of the passing runs has its theorem.

| Module | Theorem | Property of a run | Assumption |
|---|---|---|---|
| `UpdaterProofs` | `TypeCorrect` | `TypeOK` | none |
| | `SwapInvariant`, `LastCopyKept`, `OnlyCompleteInstalled`, `SwapIsAlone` | `CopySurvives`, `NoPartialInstalled`, `SwapsAlone` | `~Overlap` |
| | `UpdaterImplementsInstall` (refinement of `AtomicInstall`) | `ImplementsInstall` | `~Overlap` |
| `WizardProofs` | `TypeCorrect`, `RecordsAreFinal` | `TypeOK` | none |
| | `NoPortsAreWrong`, `NoAdaptersAreWrong`, `NoDisplaysAreWrong`, `WalkListsTheTree`, `USBLostOnlyByTimeout`, `CollectedRight` | `CollectedIsRight` | none |
| | `WizardInvariant`, `RunningFlagExact`, `SwapWaitsForRun`, `CancelReaches` | `WizardInv`, `RunningIsTrue`, `NoSwapDuringRun`, `CancelReachesRun` | `Habits = {}` |
| `UdpStreamProofs` | `StreamInvariant`, `MeasurementIsOurs` | `MeasuredIsOurs` | none |
| | `OrderlyInvariant`, `StreamsNeverOverlap` | `OneStream` | `~Delay`, `MaxDup = 0` |
| | `LossInvariant`, `VerdictsAreCaused`, `ReportedLossIsReal` | `VerdictsHaveCause`, `NoFalseLoss` | `~Delay`, `MaxDup = 0` |
| `RunnerProofs` | `SelectionIsSound`, `EveryGapIsExplained` | `RunnerInv`, `GapsExplained` | none |
| | `RunInvariant`, `RowsAgreeWithReport`, `OneFullTestShown`, `FailedQuickRowStays` | `RowsSettle`, `OneTestShown`, `FailedRowStays` | none |
| `LatencyProofs` | `CountsInvariant`, `LossIsOfPingsMade` | `LatencyInv` | none |
| | `PercentileIsNearestRank` | (part of `AggregateIsRight`) | a sorted series, 1 to 100 per cent |
| | `NoSeriesIsWrong`, `AggregatesAreRight` | `AggregateIsRight` | none |
| `LadderProofs` | `LadderInvariant`, `StatsCountTheArrivals`, `CleanIsLastGoodRate` | `StatsMeanWhatTheySay` | none |
| | `CleanIsHighestIfAscending` | `CleanIsHighest` | `Ascending` rates |
| `HttpTestsProofs` | `TestsInvariant`, `TimesAreTrue`, `RetriesRespectPOP`, `TestsStayApart`, `DropsAreReal`, `NoTickSwallowed` | `MeasuredIsFlight`, `RetriesAsAsked`, `TestsApart`, `NoPhantomDrop`, `EveryTickPinged` | none |
| `LaunchProofs` | `LaunchInvariant`, `BestSourceWins`, `WindowShowsTruth` | `ConfigFromBestSource`, `WindowIsTrue` | none |

"None" means none beside the `ASSUME`s of the module. These say the type of each
constant and are evaluated by TLC on every run. A few say a little more. `SysInfo` assumes that
the nodes of a USB tree are numbered with a node before what hangs below it, which only names
them. `Aggregate` assumes that a series has a sample: the code gives back an empty result before
it looks at one. `Launch` assumes that
a POP in a list names its id: a document that leaves it out would, as the code decodes it,
take the id of the POP in its place (section 6 has the same for `udp_echo`). `Launch` also
assumes that no person has one of the names the model uses for a missing or unreadable file.
`Runner` assumes that a
run has room for one full test (`Limits`): `WithDefaults` fills in a 0; a negative number in a
registry, which nothing rejects, would leave room for none.
`UdpStreamProofs` needs no delays and no duplicates where it says so: with them the
properties are false, as section 6 shows for `OneStream`.

*Updater.* `CopySurvives` is not inductive: that the sweep may remove `.old` and the staged payload
depends on the target being complete, and that on where the helper is. A removal that
stops half-way makes a copy partial without a rename, which is harmless only because the target is complete
at that point. `SwapInv`
adds `Exclusive` (one process or helper is active), `Phases` (what
the life of a process says about its download, button and helper), `Files` (what
the paths hold at each step of the swap) and `OfferIsStaged` (a button that
offers a restart has a complete payload). Each action preserves it; the safety
theorems follow from it, and so does the refinement, where `MoveAside`, `Place`,
`Rollback` and `Replace` map to `TakeAside`, `Upgrade`, `PutBack` and `Upgrade`, and
all other steps to `Open`, `Close` or a stutter. `~Overlap` is needed:
`UpdaterSweepRace` and section 6 show what happens without it.

*Wizard.* `WizardInv` joins `OneRun` (the run in progress is the one `running`,
`current` and `cancel` speak of) with `Reports` (what each call carries and
what a call that succeeded says of the server). `RecordsAreFinal`
needs only types: it holds for any user.

*UdpStream.* `StreamInv` bounds the tries by the attempts (`TryBudget`), which makes
the nonce of a try fresh, and says that each data and end packet in flight is of a
nonce the beacon started (`FromStarted`). `OrderlyInv` adds `OneThing`: without delay
and duplicates the handshake has one packet under way, or the stream runs. `LossInv` keeps
the books of the network: each hello that is neither answered nor under way was lost
(`HelloLosses`), each try that heard nothing lost something unless it may still hear
(`SilenceLosses`), and of the packets the beacon has sent, those neither received nor in
flight are no more than were lost (`StreamLosses`). The last is an inequality of
cardinalities that each send, delivery and loss must keep. A verdict, which looks
only at what the client saw, follows from the books at the moment it is given.

*Runner.* `ReportInv` joins the control of `runPOPs` (`Control`) with what a quick check leaves
(`QuickOK`) and what each finished full test leaves (`FullOK`: its gap is explained). The
selection rests on lemmas about `Rank`: `Before` orders the POPs strictly, so the ranks in a set
are 1 to its size, each once, and a POP before another has the smaller rank. For the rows the
events still in the channel count as well: `Says` is what the screen *will* show of a row once all are
forwarded. `RowsOK` says that this agrees with the report for every row that lost nothing, that
a row of a test to come is untouched, and that after the "failed" of a quick row no event
of that row follows. `OrderOK` is about two rows: between the start of one test and
the start of a later full test lies an event of the first, which is why
the screen never shows both. The theorems are for any capacity of the channel.

*Latency.* `LossIsReal` speaks of the end only. `Counted` says what the counters are on the way: a
ping has its own number while echoes are sent, nothing is a drop before they give up, and
then every connect is a sample or a drop; so what the fallback starts over does not mix.
`PercentileIsNearestRank` is about the operator alone: for a series of any length the rank rounded up
leaves enough samples at or below it and too few below. The statistics are taken of the sorted
copy but are meant of the series. `PlacesDiffer` and `PlacesAreAll` say that a later sample has a
higher place and that the places are 1 to the length, each once; so the copy is the series rearranged by
a bijection, and ascending (`SortedIsSorted`). A rearranged series has as many samples of any
kind (`RearrangedHasAsMany`), which carries the counts of `IsPercentile` back to the series.

*SysInfo.* `PortsScanned` is met like the pass of `StreamStats` (below), with `HandedOn`: if one position of a
list did not have what each hands to the next, there would be a first one. What is handed on is that
`wifi` speaks of the last port named. The walk over a USB tree goes down as well as along, so that its
argument is about sets of nodes. The subtree of a node is the least set that holds it and
is closed under "hangs below" (`SubtreeIsLeast`); below its root every node of it hangs on another of it
(`SubtreeHangsTogether`), and two items of one list have no node in common (`SiblingsApart`). A list
from one item on is thus that item, the lists below it, and the rest, which are disjoint
(`SubtreeIsRootAndList`, `ListIsItemAndRest`). `Appends` says that a sequence has the devices of such a set,
each once, a hub before what hangs on it, and `ThreeParts` that the three parts in their order have it
too. Since a walk only calls on higher numbers, `AllWalksAreRight` goes down from the
last node, again by a first exception; the list of the bus has all nodes (`BusHasAll`).
`USBLostOnlyByTimeout` gives the set `WrongUSB` itself: it is not empty, and holds exactly the pairs
of answers with a first query that timed out and a second that has devices.

*Ladder.* The pass of `StreamStats` is a recursive function over arrivals of any length, so its
meaning needs an induction over their number. The library's rules for that take an operator as parameter, which
the provers cannot instantiate. `UpTo` avoids them: a set that contains 0 and passes from
n - 1 to n has no least number missing, because `<` is well-founded on the naturals.
`PassUnfolds` uses it to show that the function is defined, and `PassKnows` that after n
arrivals it holds the distinct packets, the highest of them, and the number of those overtaken
(`Known`). `StatsMean` turns that into the four counts; "lost" is a difference of
cardinalities, and never negative because all that was heard lies below what was sent. `LadderInv`
then says what each step is, that only the last can be a bad one (`OnlyLastIsBad`) and which rate is
clean. `CleanIsLastGoodRate` is what the comment of `RunLadder` promises ("the rate of the last
step at or under the limit"), on every ladder. That it is the *highest* one, as the release
note 0.1.16 has it of the built-in ladder, needs rates that climb: nothing checks the order of a
`ladder_mbps` from the registry, so that `Ascending` is a hypothesis of the theorem and not an
assumption of the module.

*HttpTests.* `CallOK` follows a transfer: its flight is the time since its start while it is on its
way, what a busy POP asked for is over when it is idle again, and only the test it belongs to
has touched it, which gives `OneTransfer`. `PingOK` says that a pending tick is later than the
dial it waits for, and that a dial is given up within half a second of its own start, which is what
keeps the end of the window from cutting it short; `ProbeOK` bounds the skew by the flight of its request. `InTime` holds
because `Tick` waits for what is due, the end of a test included.

*Launch.* `CfgOrigin` says what `cfg` is at each point of `NewApp`, so that the property becomes one
of the operators of `Config`, proved there for all documents: what is decoded has the POPs of
the document (`DecodedPOPs`), `WithDefaults` leaves nothing empty. `FileWasSaved` and
`PrefillWasSaved` survive a process that ends between truncation and write.

Only model-checked: liveness (`Relaunches`, `RunCompletes`, `RetryAnswered`,
`Terminates`, `RunAllReturns`, `AllReturn`), which the prover does not treat.
The violated properties have counterexamples and no theorem without the assumption named above.

## 5. Not modelled, and simplifications

- The report document and its local file, the remaining screens, the mock servers,
  build files: data types, one write, rendering, packaging; no state that outlives a
  call. (The name of the local file has a resolution of one second; runs are longer.)
- System information beyond `SysInfo`: CPU, memory, disk, battery, the displays of macOS,
  the USB devices of Windows, VPN and security products are read off one answer each. The
  commands of Windows and Linux have no timeout of their own and are assumed to end.
- A TCP connect, a UDP echo, a DNS lookup, Whoami and the geolocation are one outcome
  each in `Runner`.
- `Download`'s hash and size checks are one outcome; its private temporary
  directory is not state, nobody else uses it.
- `Wizard`: the result screen of an earlier run is not revisited; the number of
  runs is bounded by `Runs`.
- `Runner`: the DNS entry of `QuickPOP` and the quotient of `Loss.Pct` are left out.
  The test of `nettest/runner.go:501` for a repeated latency error is never true: a POP
  with a latency error in its quick check is not selected.
- `HttpTests`: bytes and rates are left out; the body of `/preflight/mtu` is judged by its
  length whatever the status, as in the code. The tests run for one POP.
- `Launch`: a build whose fallback list does not parse is left out (section 6); two
  processes that save an identity at once are as well. A sidecar with a value of the wrong type is
  a malformed one.
- `Ladder`: whether the interarrival jitter is set, not its value. `Aggregate`: mean and
  standard deviation are left out.

## 6. Known disagreements between the code and its words

Two have a run, and an entry under "findings" in `PROJECT.json`:

| Run | What the code does |
|---|---|
| `UpdaterSweepRace` | a sweep whose stat came before another helper's move aside removes the last copies (`updater/target.go:61`) |
| `WizardPartialSent` | Retry during a run uploads its unfinished report, and the complete one is a duplicate (`wizard/app.go:317`) |

The models show the following as well; each is found by TLC with the constants given.

| Property (module) | Constants | What the code does |
|---|---|---|
| `NoPartialInstalled` (`Updater`) | macOS or Windows, 2 processes, `Overlap`, no faults | two running copies share one staged path (`updater/stage.go:21`): the helper of one installs what the other left half extracted; release note 0.1.11 says "concurrent downloads are guarded", which is a flag of one process |
| `Relaunches` (`Updater`) | macOS or Windows, 2 processes, `Overlap`, no faults | a second copy of the app sweeps the payload away or, on Windows, holds the executable open (`updater/swap_windows.go:18`); the swap fails and `RunApplyUpdate` returns without relaunch (`updater/swap.go:35`); release note 0.1.11 says the helper swaps and relaunches |
| `CancelReachesRun` (`Wizard`) | 2 runs, `"overlap"` | the second `StartRun` overwrites the cancel function of the first (`wizard/app.go:289`); `wizard/app.go:303` says "Cancel aborts an in-progress run" |
| `NoSwapDuringRun` (`Wizard`) | 1 run, `"apply"` | a run started between the check of `ApplyUpdate` and the end of its spawn is killed by the quit (`wizard/app.go:198`); `wizard/app.go:195` says "Refused while a tech check is running" |
| `NoSwapDuringRun` (`Wizard`) | 2 runs, `"overlap"` | the first run to end clears `running` for the other (`wizard/app.go:362`) |
| `LocalPathIsLatest` (`Wizard`) | 2 runs, no habits | after a failed local write the path of an earlier run is named; `wizard/app.go:352` says "on the most recent run" |
| `USBFromEither` (`MCWizard`) | those of `Wizard` | the two USB queries share five seconds, so that the second cannot answer after a first that timed out (`sysinfo/peripherals_darwin.go:117`); lines 120-121 say "try both and take whichever returns a non-empty tree" |
| `BusyMeansNoStream` (`UdpStream`) | 1 attempt, 2 hellos, `Delay`, no loss | a busy answer to a resent hello is read after `S` and taken for the answer to it (`nettest/udpstream.go:308`); lines 262-263 say a `B` means that no stream was started |
| `SamplesAreOwn` (`Latency`) | 2 POPs, 1 sample, `Shared` | the source address of a reply is not compared, so that on a kernel that shows replies to every socket one POP answers for another (`nettest/icmp.go:71`); lines 59-60 say that the comparison keeps out unrelated traffic |
| `OneStream` (`UdpStream`) | 1 attempt, 1 hello, `Delay`, no loss | an `S` that is under way for longer than `streamEndGrace` starts its stream beside that of the second try; `nettest/udpstream.go:57-58` says "by then any stream from the first S has ended" |
| `JitterIsMeasured` (`Runner`) | 1 POP, `{"jitter"}` breakable | with every ping failed the jitter field is 0; `nettest/runner.go:159` says a field is set only when its measurement worked |
| `BlackHoleHasCause` (`Runner`) | 1 POP, `{"mtu"}` breakable | a transport error is a black hole with no errors entry; `nettest/mtu.go:14` says the error captures the cause |
| `AttemptsAreReal` (`Latency`) | 1 POP, 3 samples, `Expires` | on an expired context the samples taken are not among the attempts (`nettest/latency.go:61`) |
| `LoadCoversPings` (`HttpTests`) | those of the run | one download is the load, and nothing follows when it is over or fails; `nettest/jitter.go:36-37` says the link is saturated for the whole ping phase |
| `InterceptedHasCause` (`HttpTests`) | those of the run | a cancel or a timeout during the handshake is reported as an interception; `nettest/tlscheck.go:38-39` says something on the path broke the handshake |
| `POPsAsWritten` (`Launch`) | those of the run | the list of a sidecar is decoded over the built-in one, so a POP that leaves out `udp_echo` takes it from the POP in its place (`config/config.go:167`) |
| `EventsReachWindow` (`Launch`) | those of the run | with an `ingest_url` that does not parse the app emits to nobody (`wizard/app.go:69-73`, meant for tests), and the running screen stays empty |

Seen while modelling, and outside the models: `config.Load("")` fails as well when the
injected fallback list does not parse, and `NewApp` then uses a nil configuration
(`wizard/app.go:57-59`; the comment says "never fails to launch"). `Whoami` has no timeout
(`nettest/runner.go:424`), which `RunAllReturns` has to except.

## 7. Plan

Done, in this order: `Updater` with `AtomicInstall` and its proofs; `Wizard`
and its proofs; `UdpStream` and its proofs; `Runner`; `Latency`; `Ladder`; `HttpTests`;
`Config` and `Launch`; `Aggregate`; `SysInfo`.

Then the proofs of `Runner`, `Latency`, `Ladder`, `HttpTests` and `Launch`, the loss books of
`UdpStream`, and the operators of `Aggregate` and `SysInfo`.

Next:

1. `Ladder` and `UdpStream` composed: a step of the ladder as the stream that `UdpStream` ends with.
2. `RunScreen`: `Wizard` composed with `Runner` and the running screen, so that the
   events of an overlapping run meet the rows of another.
