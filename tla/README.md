# certdiag: models, checks and proofs

TLA+ modules that model certdiag (`src/certdiag_app`, Go), the TLC configurations
that check them on small instances, and TLAPS proofs about some of them for all
instances. `PROJECT.json` lists the components, the runs with the properties each
one checks, the source lines behind every definition (`map`), the hazards of the
code and the theorems; this file says what they mean. Paths below are relative to
`src/certdiag_app` unless they start with `docs/` (`src/docs`).

To check a module: `tlc -config X.cfg Module`. To check proofs: `tlapm
ModuleProofs.tla` (`InputProofs.tla` for `Scan`, `LiveCapture`, `RemoteDial` and
`Reassembly`).

## 1. The system

certdiag inspects, creates and converts certificates and keys, from the command
line or a terminal interface. It is layered: `cmd` (flags, prompts, exit codes)
calls `internal/certops` (one function per operation, Options to Result), which
calls `internal/certlib` (certificates, stores, remote connections), which uses
`pkg` (packet analysis, file picker, tables). `internal/tui` is a second client of
`certops`. Nothing runs as a service; state that outlives a process is in files.

| Part | State it keeps | Operations | What makes it hard |
|---|---|---|---|
| TLS proxy (`pkg/packet_anal/proxy`) | a capture per direction, connections reported, counters | accept, copy both ways, report once, stop | two copy goroutines and a handler per connection race to report; stop overlaps them |
| TCP reassembly, session tracker (`pkg/packet_anal/tcp`, `session`, `tls`) | bytes by role, role guess, FIN marks; derived session | file a chunk, swap roles, flush; parse both sides | directions arrive interleaved; the capture starts and ends anywhere; TLS 1.3 hides record types |
| Live capture (`pcapint/live.go`, `cmd/pcap.go`) | one handle, packet count, watcher, signal | read until stopped, close once | signal, duration, count and read error race |
| TUI root model (`internal/tui/model*.go`) | view, root view, rows, store, open form, popup, pending questions, scan context | one handler per key and per command result | results of commands land in whatever the model has become; one set of fields is shared by four root views |
| TUI browser (`internal/tui/tree.go`, `model_nav.go`, `multiselect.go`) | rows, folding, filter, cursor, offset, detail, history, selection | keys | rows change under cursor, history and selection |
| TUI packet analyzer (`internal/tui/packet_analyzer.go`, `model_packet.go`) | session lists, filter, proxy, session channel, stop channel | open capture, start and stop proxy, filter, clear | event loop, waiters, start commands and connection handlers share lists and channels |
| Forms (`internal/tui/form*.go`) | values, what is shown, focus, pending request | keys, pick, submit, overwrite | rules hide fields that others depend on; consent belongs to one request |
| File picker (`pkg/filepicker`) | directory, listing, filter, selection, dialogs | keys | listing is a copy; several ways to a path |
| Root bundles (`certlib/truststore/bundle.go`, `certops/bundle_update.go`) | three files per bundle | load, validate, install | crashes and overlapping processes between three renames |
| AIA chase and cache (`certlib/aia.go`, `certops/aia_cache.go`) | frontier, URLs and certificates seen; index and certificate files | chase level by level, get, put, clear | cache shared by processes without locks; answers reused for other requesters |
| Scanner, reader, passwords | containers of items, locked files | scan, unlock, retry | guesses of format, order of attempts |
| Relations, chains | graph over a store | build, walk | cross-signing, copies, a cap on paths |
| Trust stores, verdicts (`certlib/truststore`, `certops/store*`, `trust`) | contents of every store of the machine | load all, synthesise, judge | partial failure, cancelling, precedence of distrust |
| Checker | none | conditions on an item in its store | boundaries of dates, classes of one issue |
| Remote fetch, check, verify, probe, STARTTLS | pool of goroutines, one connection each | resolve, dial, talk, probe | timeouts, several addresses, per-target failure |
| Revocation | responses | staple, OCSP, CRL | fallback, unknown answers |
| Create, renew, sign, convert, bundle | files | one or two writes | the second write may fail; what cannot be opened is not rewritten |
| Configuration (`internal/config`, `cmd/config_*`, `cmd/password_change_master_key.go`) | one file with passwords | resolve, migrate, rewrite | crashes, two writers |
| Extensions, differ, output, tables | none | pure functions | formats |

How they interact: the proxy calls `OnConnection` of its owner (the proxy command
or the packet analyzer) from a connection's goroutine; the owner turns the
connection into sessions with the tracker; the analyzer sends them through a
bounded channel to a waiter command, which the event loop re-arms. The root model
starts every long operation as a command and merges its result message. A remote
check hands a fetched chain to the AIA chase, the revocation lookup, the checks of
a scan and the trust stores. Processes meet in the bundle directory, the AIA
cache, the config file and the files they write results to.

`PROJECT.json` "components" has the full list with the source files of each, what
is modelled of it, and why a part is not.

## 2. Modules

| Module | Models | Builds on |
|---|---|---|
| `Proxy`, `ProxyProofs` | `proxy.go`: accept loop, handler, copies, capture by chunks, report, Stop | |
| `PacketAnalyzer`, `PacketAnalyzerProofs` | the analyzer view, its proxies, channels and waiters | a proxy as an environment that may call back after Stop |
| `OrderedStreams` | the promise of reassembly: each side's bytes, in order, whoever the client is | |
| `Reassembly`, `InputProofs` | `tcp/reassembly.go`: roles and filing of chunks; refines `OrderedStreams` | |
| `SessionTracker` | `session/tracker.go` as operators over two record streams | |
| `CapturedSession` | `pcapint/analyze.go` for one connection, with the peers | `Reassembly`, `SessionTracker` |
| `LiveCapture`, `InputProofs` | `pcap live`: reader, watcher and signaller around one handle | |
| `RootModel`, `RootModelProofs` | `internal/tui` event loop: views, commands and results | |
| `Browser` | the list, its detail pane, history and multi-select | |
| `FilePicker`, `RootModelProofs` | the file dialog | |
| `FormKinds`, `Form`, `FormProofs` | the forms: fields and rules of each kind; one form from opening to result | |
| `BundleInstall`, `BundleInstallProofs` | loading and installing a root bundle | |
| `AIAChase`, `AIAChaseProofs` | chase of missing issuers through the cache | |
| `Reader` | what a file holds once it was read with a list of passwords | |
| `Scan`, `InputProofs` | the walk, the prompts, what is kept and what is skipped | `Reader` |
| `Certificates` | relations and chains over a store | |
| `Trust` | trust index, verdicts, views over stores | `Certificates` |
| `Revocation` | staple, OCSP, CRL | `Certificates` |
| `Checks` | the checks of a scan, name constraints among them | `Trust`, `Revocation` |
| `Analysis` | `Analyze`: load stores, fetch, judge, relate, check | `Checks` |
| `Files` | what a path holds; a command as turns of looking and writing | |
| `AtomicFiles` | what is promised of result files | |
| `FileWrites`, `FileWritesProofs` | `WriteToFile` and the in-place writers with faults and crashes; refines `AtomicFiles` | `Files` |
| `ConfigFile` | the commands that write the config, and what keeps their passwords; proved in `FileWritesProofs` | `FileWrites` |
| `Operations` | keys, requests, certificates, renew, sign, convert, extract, reencrypt, bundle, export, save | `Files`, `Certificates` |
| `Starttls` | each protocol's dialogue before TLS | |
| `RemoteDial`, `InputProofs` | pool, resolution, addresses, proxies, dialogues, handshakes, probe attempts | `Starttls` |
| `RemoteChecks` | the checks of a served chain and its connection | `Checks` |
| `RemoteCheck` | `remote` and `verify` as a whole, to the exit code | `RemoteDial`, `RemoteChecks` |

`MC*` modules define the constants of an instance (`PacketAnalyzer`, `RootModel` and
`CapturedSession` need none: a config of their name suffices); three of them compose: `MCFiles`
runs the commands of `ConfigFile` and `Operations` through `FileWrites`, `MCRemote`
sets `RemoteCheck` beside `LiveCapture`, and `MCWidgets` sets `Browser`,
`FilePicker` and `Form` side by side. In the last two only one part of the
composition is at work in a behaviour: a file dialog or an open form takes every
key, and a command line runs one command. Some operators stand beside the one they
are a variant of (`EnterAlways` beside `EnterOnce`): each is a plausible slip in
that piece of code, and the "mutants" of `PROJECT.json` say which property notices
it.

### Proxy

One action is one critical section or one blocking call of one goroutine. A
direction is a number of handshake chunks followed by application chunks; a
chunk is what one `io.Copy` read returns. `Forward` is the write to the peer and
`Record` the `captureWriter.Write` after it, two steps of the `MultiWriter`. When
`Record` sees the first application data it calls `onAppData` (`BothSeen`), which
reads both captures under their locks and may call `emit`. `emit` is
`sync.Once`: `EnterOnce` runs the body, `SkipOnce` waits for it. The body reads
the two captures at two moments, counts, appends to `p.conns` under `mu`, and
calls back. `Stop` closes the listener (`StopClose`), sleeps, and collects
(`StopCollect`); connections that are open go on, as in the code.

### PacketAnalyzer

`ui` is the part of the model that decides which key does what. `OnConnection`
appends to both lists under `mu`; the send on `sessionChan` is a step of its own.
`waiters[g]` are the `waitForSession` commands that captured stop channel `g`.
Handlers of the event loop are atomic except where they overlap others in a way
that matters: a form submission resets the lists in two assignments
(`PcapReset`, `ProxyReset`), and `startProxy` drains the channel by looking at
its length and then receiving (`DrainLook`, `DrainReceive`).

### Reassembly, SessionTracker, CapturedSession

The assembler library delivers each direction in order, so `Streams` is what each
endpoint sends and `pending` what is still to be delivered; a chunk is a sequence
of records and a mark for FIN or RST. `Reassembled` is the whole callback for one
chunk: role, swap, filing, and FIN mark. `FiledAsSent` is the refinement of
`OrderedStreams`: what was received from an endpoint is what is filed under the role
it has now, so a swap must be invisible there. `SessionTracker` needs no state: the code
parses the client's stream, then the server's, and the state after each depends on
the set of records up to the first non-record. `CapturedSession` adds the peers
(`Exchanges`: orderly and rejected TLS 1.2 and 1.3 handshakes, cut anywhere, after
a dialogue in the clear or not) and relates what is reported to what happened.

### LiveCapture

`main` is the goroutine that opens the handle, reads, analyses and prints;
`watcher` waits for the duration, for `stop` or for the end of the reading;
`signaller` waits for the first Ctrl-C and closes `stop`. `once` is the
`sync.Once` around the close: `Enters` and `Leaves` are its two ends, because the
loser of the race waits for the winner. The library's promise is external to the
code: a read that blocks on the handle returns when the handle is closed
(`live.go:48` relies on it), while `Close` releases the descriptor the read uses.

### RootModel

`m` holds the fields of `RootModel` that decide what a key or result does. `rows`
names what is on the screen by where it came from (owner, the command that brought
the data, whose issuers and verdicts are in it). A command is a record in
`pending` and ends in `Result(kind)`, with success, failure or cancellation as the
command allows. `Features` switches groups of keys on so that instances stay
small; `Starts` is how the program was started.

### Browser, FilePicker, Form

`Browser` names a row by what it shows (a file's header, one of its items, a
skipped file, the header of the skipped ones); `open`, `filter`, `cursor` and `top`
are the folding, the search, and the two indices that the code keeps apart from
the rows. Every key ends in the clamping the code does after it, so each action
contains it. `back` and `forward` are the history, `Restore` the way it finds its
row again, `chosen` the marks of multi-select. A rescan is two steps: the rows of
the old store stay until the result arrives, on a disk that other processes change
(`Vanish`).

`FilePicker` keeps `files` (what is on the disk) apart from `all` and `rows` (the
listing that was read and what the filters leave of it). `here` says that the
directory's name is relative: three callers start in ".", above which `NavigateUp`
and ctrl+w cannot go. `ActivateEntry` is Enter on the list, `Accept` Enter
elsewhere, `CommitPath` Enter in the path dialog; a save goes through `DoSave`, whose
questions (`AsksToOverwrite` among them) are the caller's options. `Others` are
entries that other processes create and remove. `Only` is the one filter behind
listings, searches and completions, a recursive function so that it can be reasoned
about. A row keeps what reading the directory made of it (`passes`); `RowsFit` says
that this is still the filter in force.

`FormKinds` is the table of the fourteen forms: for each kind all its fields, its
rules and what it asks for. `Form` runs one of them; every key ends in `EvaluateVisibility`, which
applies rules, defaults, extension rewriting and focus in the order of the code.
`Submit` validates and sends; the operation's answer (`FormResult`) is any the
options allow, including that the target exists, which leads to the question of
`AnswerOverwrite`.

### BundleInstall

A snapshot stands for the vendor's list of a day, and each file holds a part of
one snapshot. `Load` reads the three files one by one; `WriteTrusted`,
`WriteDistrusted` and `WriteManifest` are the renames of `WriteBundleFiles`.
Each may fail, and a process may crash between any two. `BundleInstallProofs` adds
two history variables (`HistorySpec`, which the run checks): `disturbed` are the
processes during whose invocation another one renamed a file, `mixed` says that two
updates met and none finished since.

### AIAChase

Each invocation is a process with its frontier (`todo`), the URLs and
certificates it has seen and what it found. The index is read at the first use
and kept; `Put` is four steps (truncate and write the certificate's file, truncate
and write the index). A truncated index reads as an empty one, which is what the
YAML parser makes of it. The order within a level is left open.

### Reader, Scan

A file is its real format, the lock of its store and its items, each with a lock
of its own; a lock is a password. `ReadFileCore` and `ReadNamedFile` take the readers in
the order of the code (by extension, then by the bytes, `ReadBySignature`) with the
candidates of the password manager in their order. `Scan` walks a tree of entries (files, links, directories, what
cannot be read, what is too big or too deep), and the prompt of a locked file is
three steps (`Ask`, `Type`, `Keep` or `Retry`) because the user may end it
anywhere.

### Certificates, Trust, Revocation, Checks, Analysis

A certificate is a record of the fields the code compares: id for its bytes, names,
keys, the key that signed it, identifiers, dates, constraints, and marks for the
properties a check looks at. The code's functions on them are `CheckSignatureFrom`,
`MatchesIssuer` and `AssembleChainAlternatives` in `Certificates`, `IssuerMatches` in
`Revocation` and `CheckNameConstraints` in `Checks`. Dates are days; each check reads the clock itself
in the code, so `Tick` may strike between any two of them. A store is a list of
anchors with what it denies. `Analysis` is one run of `Analyze`: `Read` takes one
kind of store after the other, each of which may fail or meet a cancelled context;
`Complete` is what AIA brings; `Judge`, `Relate`, `Revoke`, `CheckExpiry` and
`CheckRest` follow.

### Files, FileWrites, ConfigFile, Operations

A command is a function of turns: given the disk it sees, it answers with writes
to make, an error, or that it is done (`Turn`); so an operation is written once, as
a pure operator, and `FileWrites` runs any of them with other commands between its
turns. A write is staged into a temporary file and renamed (`Stage`, `Publish`), or
made in place (`Truncate`, `Fill`); either may fail or be cut by a crash.
`AtomicFiles` is the abstract view: a map from paths to whole contents that changes
one path at a time; `ResultsAtomic` is the refinement, with the result files of the
disk as the map.

### Starttls, RemoteDial, RemoteChecks, RemoteCheck

A dialogue is a list of exchanges, a server's answer a list of lines with the three
facts the code reads off each. `RemoteDial` runs a goroutine per target through
`queued`, `resolve`, `next`, and for each attempt `proxy`, `starttls`, `handshake`,
`relay` to `done`; `NextAttempt` is the plan of the command (addresses in turn, the
versions and ciphers of a probe, redirects). What goes wrong is chosen from
`troubles` at each phase, at most `faults` times; a read without an answer ends only
by `Expire`, and only if the code bounds it. `RemoteCheck` continues with what the
chain meets (`job.world`): AIA, revocation, checks, verdicts of the selected stores,
and the exit code.

## 3. Runs

| Run | Instance | Shows |
|---|---|---|
| `proxy` | two connections: one sends more application data than the capture keeps, one closes without a word | `ReportsTrue`: one report per connection, an early one with the whole handshake of both sides although copies go on while it is built, a final one with all that was kept; `StopReturnsReported`: what was reported before Stop collects is in what Stop returns; live, `EveryConnReported`: a connection is reported once both directions carry data, even if the peers never act again, and at the latest when it closes |
| `analyzer` | two proxy starts, two connections, channel of one | `ProxyIsHeld`: no orphaned listener, list state and proxy agree, somebody receives, no stop channel closed twice; `FirstProxyListsAgree`: the two lists agree until a second proxy is started or a file loaded; live, `EverybodyGetsOn` |
| `session` | all exchanges, cuts, preambles and interleavings; capture may start one flight late | `FiledAsSent`: `Reassembly` implements `OrderedStreams`, no byte lost, reordered or filed under the wrong side while the roles are guessed and swapped; `ServerIsFound`: the certificate reported is the server's; `StatusIsTrue`: failures and completions are those that happened |
| `tui` | all keys but column editor and proxy, three commands | `OneLoadAtATime`, `ViewsFit` |
| `tui_live` | lister, trust stores, column editor, packet view and proxy, three commands | live, `LoadingEnds` |
| `widgets` | three browsers, twelve file dialogs, forms of every kind in 21 openings | `CursorShown`, `BackShowsWhatWasLeft`, `SelectionIsOne`, `PickIsSound`, `FormSettled`, `SubmitIsMeant` |
| `bundle` | two updaters, two faults, four snapshots | `Installed`, `InstallHeals`, `UndisturbedDropBounded` |
| `aia` | two invocations, seven certificates, three URLs, depth two, one fault | `FetchedIsTrue`, `AsFarAsItMay` |
| `scan` | trees of two entries out of 22, five settings, two tries | `Accounted`, `ContainersTrue`, `AskedOnce` |
| `analysis` | six stores to judge, six OS stores, four option sets, midnight | `VerdictsSound`, `ChainsComplete`, `IssuesTold`, `StoreViewsAgree`, `RevocationStands` |
| `files` | 49 commands alone, four races, config commands in pairs and triples, two faults | `WritesTidy`, `PasswordsKept`, `OutputsSound`, `ResultsAtomic` |
| `remote` | three targets on one or two slots; every dialogue direct, over SOCKS and over HTTP; probes; redirects; sixteen chains in five worlds; four captures | `PoolKept`, `OutcomesTrue`, `ReportTold`, `HandleKept`; live, `CommandsEnd` |

Why the bounds are enough:

- `proxy`: the actors of one connection meet only in that connection's `Once` and
  captures, and connections meet only in `p.conns` and the counters, so two
  connections show every pair of them. `AppLimit = 1` with two application chunks
  (`MCMaxChunks`) passes the capture limit. The proofs lift the safety part to any
  number.
- `analyzer`: a channel of one is full after one session and blocks the second;
  two starts give an old and a new generation of channels and waiters.
- `session`: the records of a stream matter as a set up to the first
  non-record, so one of each kind is enough; a capture that misses more than one
  flight has lost the hello in the same way.
- `tui`: the hazards need a load, what changed under it, and a second load; the
  first load of the program is the third (`MaxLoads`).
- `widgets`: windows of two to six lines over lists of three to nine rows, so that
  every key meets the first line, the last and the middle; a wrapped row higher
  than the window; a history of two (`MaxHistory`); a window of the dialog between
  its minimum and where its rows run out (`MinBox`, `MaxBox`), resized in one session
  while the cursor moves; three completions in a list of two; each form with the
  fields filled that its rules and checks mention, dynamic lists of two
  (`MaxRows`), aliases of two letters (`MaxLetters`).
- `bundle`: snapshots of 100, 115, 86 and 75 anchors lie on both sides of the
  floor (80) and the limit (15 percent) as seen from each other; a second fault can
  undo what the first left to be healed.
- `aia`: the certificates contain a shared URL whose two requesters have
  different issuers, a cross-signed pair, a root the scan holds already, and one
  level too many.
- `scan`: entries interact only through siblings, remembered passwords and Skip
  all, which two entries show; the catalogue has each format, lock and extension
  right and wrong.
- `analysis`: cross-signed and renewed authorities, a copy with the same name and
  another key, and a cap of three alternatives (`MaxChainAlternatives`, 8 in the
  code) that the cross-signs reach.
- `files`: two faults are a failed write and a crash after it; races are pairs
  whose inputs or outputs meet, and three commands (`Procs`) where one saves
  options while another rewrites the config.
- `remote`: of three targets (`MaxTargets`) two are at work and one waits; one
  fault per dialogue can strike in each phase, and two where two addresses are
  tried; packets stop at three, one more than the count asked for (`MaxPackets`),
  interrupts at two, one more than is listened for (`MaxInterrupts`).

`CHECK_DEADLOCK FALSE` is set where the system really stops: a proxy that was
stopped with no connections, an analyzer that handled all connections, a program
that quit, a chase, scan, analysis or command that finished, a capture that was
flushed. The bundle run checks deadlock, since an invocation can always follow.

### Fairness

- `Proxy!Fairness`: weak fairness of each goroutine's steps that do not wait for a
  peer, because the Go scheduler runs what is runnable. None on `Forward`,
  `EndCopy` and `Accept`: peers may be silent for ever. That is what makes the
  first half of `EveryConnReported` worth stating.
- `PacketAnalyzer!Fairness`: the same for handlers, starts, waiters and the event
  loop's messages. None for keys and connections: nobody must press or connect.
- `RootModel!Fairness`: every command returns. Network commands run under timeouts,
  and scans over finitely many files. It is stated per kind of command, and only
  the result is fair, never a key, so `LoadingEnds` does not rest on Esc.
- `RemoteCheck!RCFair`: weak fairness of each target's goroutine and of the
  conclusion. That a server answers is not assumed: once one has fallen silent the
  only step left is `Expire`, which exists only where a deadline bounds the read,
  and that is what `CommandsEnd` is about.
- `LiveCapture!LCFair`: weak fairness of the main goroutine, the watcher and the
  signaller, and of the duration's timer, which is set by the runtime. None on
  packets and Ctrl-C: `CaptureEnds` is stated for captures that have a reason to
  end.

`Patient` in `PacketAnalyzer` says that nobody presses a key between confirming
the proxy form and its answer; the answer is that of a local `net.Listen`.

## 4. Proofs

Eight modules prove safety for every value of the constants, each from the
assumptions of the module it extends, each by an inductive invariant: it holds
initially, a lemma per action keeps it, and PTL puts them together.

- **Proxy** (`ReportsAreTrue`, with `TypeCorrect`, `ReportUnique`,
  `EarlyReportWhole`, `ClosedReportFinal`; `StopReturnsAll`; `ProxyAssumption`). `IInv` adds to the
  type, per connection: a capture trails what was forwarded by at most the chunk in
  hand (`CaptureInv`); the handler is past `Wait` only when both copies have ended
  (`HandlerInv`); who runs the `Once` agrees with its progress, and a copy runs it
  only when both sides carry data (`OnceInv`); each half of the draft is the capture
  it was taken from, or, when taken early, one with the same handshake
  (`DraftInv`). The last is why reading the two captures at two moments is
  harmless: after application data no handshake chunk follows in that direction.
  `StopReturnsAll` is the action property: `OwedInv` adds that `p.conns` holds, until
  Stop takes it, exactly the connections whose emit is past the append, and that
  `connCount` is the number of those past the count, so that what is collected in
  one step holds whatever was reported before it.
- **PacketAnalyzer** (`ProxyStaysHeld`, `ListsStayFiltered`; `AnalyzerAssumption`;
  the first needs the hypothesis `Patient`, without which it is false, the second
  does not). `AnalyzerInv` adds that at most
  one start is under way and nothing else begins before it is answered
  (`OneStart`), that one stop channel is made per start (`Channels`: `stopCh` counts
  the starts begun, by the cardinality theorems), that the channel of a held proxy
  is open (`OpenChannel`), and that its generation has a waiter or a message on its
  way to the event loop (`Watched`). For the lists, `ListsInv` adds that one stop
  channel is made per start (`Made`), so that nothing is captured, and nothing can
  be appended, while the lists are reset for the first start, and that a capture file
  is marked before its reset is over (`OneSource`).
  `Filtered` is a recursive function; what it does when a packet is appended is shown
  by a least counterexample (`Least`, `FilteredAppend`).
- **Reassembly** (`FilesAsSent`, in `InputProofs`; `ReassemblyAssumption`: two endpoints). The
  refinement of `OrderedStreams` step by step: a first packet and the end of the
  capture stutter, a delivery is a `Receive` of its sender. The invariant says that
  a direction not seen yet has nothing filed under the role it would get
  (`UnseenIsEmpty`); `Filing` is the one argument about a swap, that both sides keep
  their bytes when the roles change under them.
- **BundleInstall** (`AlwaysInstalled`, `InstallsHeal`, `DropStaysBounded`;
  `BundleAssumption`). `IInv` adds that a
  process past validation wants a snapshot that meets the floor and that a process
  past the first rename leaves a trusted list on disk: files are only ever replaced
  by validated ones, and the trusted list is never removed, so neither overlaps nor
  crashes matter. The other two are theorems of `HistorySpec`, which adds the history
  variables and only watches (`HistoryWatches`: it implies `Spec`). `HistoryInv` says
  that an undisturbed process still finds what it wrote (`Undisturbed`), that a
  disturbance stays remembered in `mixed` (`Remembered`), that every process that
  loaded measured the drop against the manifest it would still find (`Measured`,
  `MeasuredFirst`), and that the manifest and the trusted list agree when nobody is
  between his renames (`Whole`).
- **AIAChase** (`AlwaysTrue`; `AIAAssumption`). Soundness is not inductive: it needs
  that a pending question belongs to a known certificate, that candidates in hand
  signed the requester and were published at its URL, and that every certificate an
  index names, on disk or in memory, was published at that URL. `Local` reduces a
  step to the invocation that takes it. `AlwaysAsFar` is the other half, that a fetch
  that ends has followed the chain as far as it may: `FarInv` says that each question
  a known certificate raises is put off to the next level, in hand, or about a URL
  already asked (`Covered`), and that what is known at level n lies within `Levels`
  of n + 1 (`InBounds`), a recursive function of the level whose climb is shown by a
  least counterexample again.
- **FileWrites** (`NoStray`, `WritesAreAtomic`, `PasswordsSurvive`). `NoStray` follows from which
  points of a command may hold a temporary file. `WritesAreAtomic` is the
  refinement of `AtomicFiles`, step by step: only `Publish`, `Delete` and the
  in-place steps touch the disk, and the last touch no result file. Its hypotheses,
  which TLC checks on the instance, are that the start holds whole files
  (`StartsWhole`), that a turn answers (`TurnsAnswer`), and that no command plans an
  in-place write of a result (`PlansKeep`, part of `WritesTidy`).
  `PasswordsSurvive` is about the commands of `ConfigFile` in any number and order, and
  proves `PasswordsKept` from `KeptInv`. The passwords are either at the preferred place,
  to stay (`Moved`), or still at the old one while the preferred one holds nothing that
  loads (`Unmoved`); a place that is truncated has its backup. Each command has a plan
  that goes with that: the TUI renames a config that holds the passwords, or writes an
  example to the old place once they moved (`SavePlan`); a change of the key writes a
  sound backup while its place is whole, and its place while the backup is (`KeyPlan`);
  a migration may copy an empty file, but removes the original only for a copy that
  holds them (`MovePlan`). Two facts were missing from the first attempts and are why
  the change of the key is safe in spite of reading twice: only a change of the key past
  its reads leaves its place truncated (`TornByKey`), and one that read such a place can
  use what it read only if somebody repairs the file before it loads it, which only a
  save can do. Hence the hypothesis on the scenarios (`ScenariosFit`, which TLC
  checks on the instance): one config and no backup at the start, no command sent to
  another file or told to overwrite, the commands that rewrite it run one after the
  other, and options saved beside at most one change of the key. The others say that
  the disk has the places of the config (`ConfigStarts`) and that the config commands
  answer as `ConfigTurn` does (`TurnsAreConfig`).
- **RootModel** (`OneLoadRuns`, `ViewsStayFit`; `RootAssumption`, and the hypothesis
  that the proxy's keys are not among `Features`). `RootInv` adds one thing, of which
  both follow (`Running`): every command under way fits the view that is shown, a
  load the loading view alone, an export, a submit or a fetch of issuers one of the
  views it can be waited for in (`Waits`); and it says what the fields must be for a
  view to be shown at all (`Fits`). A key is checked against the commands that may
  be under way, a result against the views it may arrive in. With the proxy both
  properties are false: its start may be left (`ProxyIsInView`, Known divergences)
  and its result lands in any view, the loading view included. The runs leave it
  out for the same reason.
- **FilePicker** (`PicksAreSound`, in `RootModelProofs`; `PickerAssumption`: sizes are
  numbers, a list of completions has two lines at least). `PickerInv` says that the
  rows are among those read and the cursor on one of them (`ListInv`), that the
  highlighted completion is in its window (`PathInv`), and that a question is about a
  path with a name and is asked over the one it followed (`AskInv`: between the two
  questions the filter stands still, so consent to the extension is not stale). A
  lemma per way of getting a listing (`LoadKeeps`, `UpKeeps`, `ReloadKeeps`) shows the
  cursor; `ClampShows` and `DropShows` are the arithmetic of the windows, which need
  nothing of where they were before. That the cursor's row is on the screen
  (`RowShown`) is no invariant, since a resize leaves the window where it was: what is
  proved is that each step either leaves rows, cursor and window alone or shows the
  row (`WindowFollows`, `StaysShown`), so that only a list that became lower hides it
  (`SameWindow`, `HeightNext`). The proof showed the property to be false as
  first stated: rows of a directory that vanished while the filter changed and came
  back are of the old filter (`RowsFit`; the run now has such a file).
- **Form** (`FormIsSettled`, `FormSubmitsWhatWasMeant`; `FormAssumption`: a form opens
  with values of its own fields, choices that are offered and rows that exist). For all
  fourteen kinds of forms, and any values. `evaluateVisibility` goes over the rules once,
  though showing a field may be what shows the next: `OnePass` says that once is enough when
  every rule that sets a field comes before the rules that depend on it (`Ordered`), by
  induction along the list. That the rules of each kind are so is proved group by
  group (`GroupsJoin`, `CreateCertAsks`, ...), as the code adds them in
  groups (`addCertSection`, the key source, the signer). `Settled` adds to the rules that
  fields without one are shown, and that the
  choices the operations read as either-or hold a value that is offered (`Chosen`): it
  survives a change of any value because no text, default or rewritten path is what a
  rule depends on (`Alike`), and the focus finds a field because the button always takes it
  (`TheButtonStops`). `CreateCertShows` and its like then say when a field is shown, in
  terms of the values alone; `CreateCertIgnores`, that its options read nothing else; and
  `CreateCertLacksNothing`, that the validation of what is shown leaves nothing out.
  `SentMeans` carries that from the key to the result: what was sent is what the form
  still holds, so the request that overwrites is the one that was refused.
- **Scan** (`NothingIsLost`, `NobodyIsAskedTwice`, `StoreShowsTheTruth`;
  `ScanAssumption`, `ProvidedAssumption`). `WalkInv` says
  that the walk stays on its tree and names each entry at most once (`OnTree`), that
  the store holds entries already reached and each for its own reason (`Kept`), that
  no entry is both kept and skipped (`Left`, `ShownOrSkipped`), and that only reached entries
  were asked about. Lemmas on `Append`, `Range` and cardinality carry it. `StoreInv`
  adds that every container shows what the passwords it was tried with open, no less
  and no more (`Shows`, `ShowsWhatOpens`), and that a prompt is open only for a file
  that reads; a lemma per reader (`AnswerPEM`, `AnswerJKS`, ...) says that what it gets
  of its own format is open exactly when the lock is among the passwords, and
  `AnswerHere` that it does not matter which one the extension, the signature or the
  retry chose, but for the files whose extension is that of a key store and whose
  content is not (`Misnamed`), which stay shut (`MisnamedStaysShut`). The assumption on
  the data is that a lock is where the format has one: on the store of JKS and PKCS#12
  always, be it the empty password, on the items of PEM and JKS perhaps.
- **LiveCapture** (`HandleIsKept`; `CaptureAssumption`). `CaptureInv` says that
  nobody but the watcher closes the handle before the main goroutine is done with
  it, and that the watcher goes to close it only once it was told to.
- **RemoteDial** (`PoolIsKept`; `JobsAssumption`). `PoolInv` says that `held`
  counts the goroutines at work, at most the slots, and that a socket is open
  exactly in the stages between connecting and ending. Slots are counted with the
  cardinality theorems, one goroutine leaving or joining the set at a time.

None of the invariants uses a bound of the instances: faults, packets, interrupts
and chunks are arbitrary.

Only model-checked:

- every liveness property: fairness and ENABLED are out of the prover's reach;
- what `Browser`, `Certificates`, `Checks`, `Operations`, `RemoteChecks` and `Trust`
  compute, and so the properties of the runs `analysis`, `files` (but for
  `ResultsAtomic`, `NoStrayTemp` and `PasswordsKept`) and `ReportTold`, and of `widgets`
  `CursorShown`, `BackShowsWhatWasLeft` and `SelectionIsOne`:
  they use RECURSIVE operators, which no module with a theorem may reach;
- `ServerIsFound` and `StatusIsTrue`, which rest on the whole history of a capture,
  and `OutcomesTrue`, which relates the phases of a dialogue to the
  script of its peer.

The prover cannot instantiate the library's induction theorems; where a proof needs
induction on a number, it takes the least counterexample instead (`Least` in
`PacketAnalyzerProofs`, `RootModelProofs`, `AIAChaseProofs` and `FormProofs`), and recursive
functions, unlike RECURSIVE operators, can be unfolded that way.
## 5. Known divergences

Places where the code does not do what the repository says of it, or loses what a
user would expect of it, found while modelling. Where a property is named it is
kept in its module, below a comment that says so, and TLC refutes it when it is
named in a copy of the run's cfg.

### Scan, chains, checks, trust

- `ExtensionIsAHint` (`scan`): a comment says the extension is only a hint
  (`reader.go:139-148`), but the PKCS#12 and JKS readers never return an error, so a
  readable file with one of their extensions is listed as locked. These files are the
  exception in `ContainersTrue` (`Misnamed`).
- `ViaAIATold` (`analysis`): the schema says trust_via_aia is "True when the chain
  completes only through a certificate fetched over AIA"
  (`internal/output/structured.go:87`), but callers append what was fetched to the
  store before `EvaluateTrust` (`certops/scan.go:165`): the flag is never true.
- Each expiry check reads the clock itself (`checker_checks.go:77-79`): a
  certificate that crosses a boundary between two of them is reported by none.
  `IssuesTold` is about one reading.
- `maxChainAlternatives` "caps the branching" (`relations.go:450-452`), but it is
  tested only before a recursion, so more alternatives come out, and with more
  paths than the cap the one to the trusted root may be among those left out.
- An expired root is `expired` in docs/trust.md:63 and `verdict.go:15`, but
  `trust.go:125-141` looks at dates for anchors only.
- "beats every other verdict" (docs/trust.md:65) is true of a scan; a remote check
  builds its pool with the denied certificates (`remote_trust.go:57-84`).
- Weak-key checks are registered for requests, but the accessors of the key never
  look at one. A JKS entry with a password of its own is locked without a parse
  error, so nobody is asked for its password.
- With `--check`, the SNI check (`checker_remote.go:182-188`) never fires, and a
  chain whose only root here has expired and which AIA completes gets no issue
  (excluded in `ReportTold`).
- `ExtraneousUnneeded` (`remote`): a certificate another path needs may be called
  extraneous (`checker_remote_chain.go:41-71`).

### Files and configuration

- `LoadsOneSnapshot` (`bundle`): "writes a rendered snapshot into dir atomically"
  (`bundle.go:384`), but a load that overlaps the three renames mixes snapshots, and
  two overlapping updates may leave a mixed bundle.
- The drop of a bundle is measured against the count in the manifest, which is
  written last (`bundle_update.go:132`): after a crash before it, an update may lower
  the anchors by more than the limit. `UndisturbedDropBounded` has the proviso. An
  obsolete distrusted list may stay behind (`bundle.go:398`).
- `seenURL` is shared by a whole chase (`aia.go:155`): of two certificates with one
  URL whose issuers differ, the second never gets its own; `NothingLeftOpen` has
  the proviso `Agree`. The cache has one entry per URL (`aia_cache.go:163`): a chase
  from the cache finds only the last of several candidates.
- Changing the master key reads the raw file before it loads the config
  (`password_change_master_key.go:37-43`). When an earlier change crashed and left
  the place truncated, and a save of options that was staged before is renamed over it
  between the two reads, the second change finds passwords, and writes the empty text
  it had read over the backup and then over the config: every copy is lost. TLC finds
  it for the commands `<<ChangeKey("k1", "k2"), Save(None), ChangeKey("k1", "k2")>>`;
  `SavesBesideOne` is the proviso that leaves it out. Writers of options
  overwrite each other's (`cmd/tui.go:57`). A migration that crashes between
  truncating and writing leaves an empty config, with the old one beside it.
- Existence is checked before the rename (`writer.go:546`): a file that appears in
  between is replaced unasked. A second write that fails leaves a renewed
  certificate beside the old key; two commands that write a pair may interleave.
- A JKS loses its chain certificates when only certificates are converted
  (`convert.go:43,59,121`); a bundle drops keys it cannot open; renew takes the
  first key it finds unchecked (`renew.go:111-113`) and ignores name constraints;
  create and sign accept a signer that is no authority; extracted names collide
  and replace each other.
- An encrypted key in DER is written in the clear by `certops` (the command refuses
  it, `password.go:76`, and the form hides the field).
- `pcap extract` and the proxy's dump make names unique by a suffix that another
  name may have (`cmd/pcap.go:238-300`): the later file replaces the earlier.

### Proxy view and captures

- `DrainEnds` (`analyzer`): the drain in `startProxy`
  (`packet_analyzer.go:461-464`) tests `len(sessionChan) > 0` and then receives. A
  waiter of the stopped proxy that has not seen its closed stop channel may take
  the message in between, and the event loop blocks.
- `ListsAgree` (`analyzer`): the form handlers reset the two lists without the mutex
  that `OnConnection` takes (`model_packet.go:411`); a surviving connection may be
  appended between the assignments and stays in one list only.
- `SendsComplete` (`analyzer`): after Stop nobody receives; a surviving connection's
  handler blocks in the send on a full channel, inside the goroutine that forwards
  one direction (`packet_analyzer.go:478`).
- An impatient user who confirms the form twice orphans a listener; `Patient` is
  the proviso.
- `HelloSettlesRoles` (`session`): "The ClientHello is the authority"
  (`reassembly.go:170-173`), but the swap requires that its sender has sent nothing
  yet; in a capture that starts inside a STARTTLS dialogue the client stays server.
- `OkCompleted` (`session`): "Handshake completed successfully" (`types.go:59`), but
  a rejected TLS 1.3 handshake is OK, since encrypted alerts look like application
  data.
- `AlertMeansFailed` (`session`): "Alert (if handshake failed)" (`types.go:120`), but
  the `close_notify` of an orderly TLS 1.2 close fails the session.
- `EndReported` (`session`): "TCP RST/FIN without completion" (`types.go:24`), but
  `Reassembled` skips a chunk without bytes before it looks at `End`
  (`reassembly.go:166`).
- `LastStateReached` (`session`): "returns the last state before failure/abort"
  (`tracker.go:327`), but the state is terminal by then, and the answer is always
  ServerCCS.
- `InterruptStops` (`remote`): `pcap live` stops at Ctrl-C (docs/pcap.md:43-52), but
  one pressed while the capture is analysed is swallowed, and the signal's default
  is no longer there to end the program.

### Remote

- The reader of an HTTP proxy's answer may have read the greeting as well
  (`remote.go:792`): STARTTLS then waits to the deadline.
- An explicit :443 is replaced for `https://` targets with STARTTLS; IPv4-only is
  ignored behind a proxy; `--proxy https://` is advertised (`cmd/remote.go:413-414`)
  and refused (`remote.go:625-632`); `remote probe` ignores `--proxy`.
- A greeting without a text never ends (`starttls.go:58,210`).
- `verify` drops the reason of a failed fetch (`verify.go:52-59`). An error while a
  cipher is probed counts as "not supported".
- The time a target may take is its lookup and twice the timeout per address.

### Interface

For `RootModel` with `Targets = {t1}`; the features, start, `TrustColumn` and
`MaxLoads` that show it:

| Property | Shown with | What happens |
|---|---|---|
| `ColumnsNeedNoStore` | trust, columns; store; 3 | switching a column when the load that would have brought a store failed dereferences a nil store (`model_options.go:38`) |
| `RemoteFormStays` | remote, refetch; lister; 4 | a failed re-fetch leads to the remote form with no form in it (`model_remote.go:87`) |
| `EscCancelsTheLoad` | remote, refetch; lister; 4 | re-fetch, unlock and submit do not run under the context Esc cancels (`keypolicy.go:15`) |
| `AIAIsChased` | aia; lister; 3 | after a cancelled load the chase starts under a cancelled context and finds nothing (`model_aia.go:30`) |
| `ListerListsFiles` | remote, trust; lister; 4 | Esc on a trust store load goes "back to the cert lister" over the rows of another view (`model_truststore.go:73`) |
| `LeavesFormForItsView` | packet, remote; pcap; 3 | the remote form opened over the packet analyzer returns to a tree (`model_remote.go:561`) |
| `DetailIsOfTheRows` | options; lister; 3 | a detail pane survives a rescan by an option (`model_options.go:193`) |
| `TrustColumnIsFilled` | lister; lister; TRUE; 3 | a rescan blanks the trust column for good (`model_truststore.go:611`) |
| `AIAIsOfTheResult` | remote, aia; lister; 4 | issuers fetched for one target stay for the next (`model_remote.go:289`) |
| `ConfirmDeletes` | remote, save, files, lister; lister; 5 | an error popup replaces a save question and leaves its action for the next deletion (`model.go:618`) |
| `CtrlCQuits` | lister; lister; 2 | search, password, forms and popups take Ctrl+C (`keypolicy.go:11`) |
| `ProxyIsInView` | packet, proxy, lister; pcap; 3 | a proxy start answered after leaving the view jumps back into it (`model_packet.go:36`) |

The list:

- `BackShowsAnyRow` (`widgets`): rows without an item carry the zero reference
  (`convert.go:138`), so the history shows the first item instead (docs/tui.md:39).
- Changing a display option from the split view closes the detail and stays in the
  split; switching a column unfolds everything (`model_options.go:36-47`).
- Toggling a header marks its locked items (`multiselect.go:45-53`), which cannot be
  marked one by one. The cursor's row can be off the screen under an error line or
  with wrapped columns in multi-select (`model_view.go:287-291`); `CursorShown`
  leaves the two out.
- A deletion stops at the first file that cannot be removed and keeps the rows of
  those that were (`model.go:1812`); the unlock command reads the store while a
  result appends to it (`model.go:1693`); saving from the interface overwrites
  without asking (`model_remote.go:177-213`, `model_truststore.go:232-259`).
- `docs/tui.md:59-60` says columns and options are written "when you save them; that
  is the only time the TUI writes the config", but changing the store grouping
  writes it as well (`model_truststore.go:204-212`).

The file dialog and the forms:

- `RowShown` (`widgets`): a resize changes the height of the list and moves nothing
  (`filepicker/model.go:153-156`), so in a smaller terminal the cursor may be below the
  last row shown, and Enter or Space then act on a row that is not on the screen.
  `PickIsSound` says that nothing else takes it off, and that whatever changes the
  rows or the cursor brings it back.
- A path typed in a directory that cannot be read takes the base name and keeps the
  old directory (`filepicker/model.go:306-307`); the OK button joins an absolute path
  to the current directory where Enter resolves it; marks survive a change of
  filter, and so does what every row lets through when the directory cannot be read
  again at that moment (`reloadDir`, `model.go:434-440`); the `.pcap.gz` filter matches nothing (`filelist.go:123`); an automatic
  extension is added after the dialog's questions.
- A picked path never makes a form dirty, nor do fields that are hidden, so Esc
  discards them unasked (docs/tui.md:51 says it asks; the remote form never does).
  Rules run a key late after a pick, so a format and an extension may disagree at
  once-pressed F2. A field hidden in error stays counted in the footer. Create
  Certificate opened on an authority offers a leaf's validity. The heights of list
  fields are estimated, and scrolling may leave the focus a line above the window.

## 6. Not modelled, and why

Byte formats, cryptography, rendering and tables are left out: PEM, DER, ASN.1,
PKCS#12, JKS, NSS and SQLite parsing, TLS field parsing and the key schedule, JA3,
certificate extensions, templates, output views. Their hazards are those of parsers
and are reached by tests. Platform stores and discovery are I/O. The differ compares
two certificates field by field; the catalogue, check and diff views scroll a text.
Within the modelled parts:

- `Proxy`: records split over reads (the framing of `captureWriter.Write`), and
  addresses. A chunk is handshake or application data as a whole.
- `PacketAnalyzer`: cursor, scrolling, dump file names.
- `CapturedSession`: timestamps, several connections, reuse of an address pair.
- `LiveCapture`: what is in a packet; the analysis is a step that may fail.
- `RootModel`: what `Browser`, `Form` and `FilePicker` hold; a question and its
  answer are one step.
- `Browser`: texts and colours; rows have widths and words to find.
- `Form`: fields that only carry text between others, cursors inside a field.
- `BundleInstall`: fetching and parsing of vendor formats (a choice of snapshot).
- `AIAChase`: the HTTP exchange, lifetimes of cache entries (a choice).
- `Scan`: the parsers, whose answer is the file's content; display filters.
- `Analysis`, `RemoteCheck`: the texts of issues (their identifiers), HTTP bodies.
- `Operations`: encoders, whose answer is the set of files they can make; flags.
- `RemoteDial`: timings, certificates as bytes, client certificates.

## 7. Plan

What would add most from here:

1. Proof of `ServerIsFound` of `CapturedSession`.
2. `CaptureWriter`, under `Proxy`: framing of records over arbitrary reads, refining
   the two-counter capture of `Proxy`; `PacketAnalyzer` composed with `Proxy`.
3. Recursive functions in place of the RECURSIVE operators of `Certificates`, so
   that what holds of relations and verdicts can be proved.
4. Several connections in one capture, and the reuse of an address pair.
5. `RootModel` with the check, catalogue and diff views and the in-place questions.
