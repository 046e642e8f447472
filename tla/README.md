# omni-sag: TLA+ models, checks and proofs

omni-sag is an SSH access gateway: clients log in to it, it authorizes what they
ask for against a policy, opens the connection to the target for them, and keeps
signed evidence of everything it decided. This directory models the parts of it
whose behaviour depends on interleaving, failure and time; TLC checks the models
on small instances and TLAPS proves the most important results for all instances.

    tlc -workers 2 -config Gateway.cfg MCGateway      # a run, see "Runs"
    tlapm ApprovalStoreProofs.tla                     # proofs

`PROJECT.json` lists runs, mutants, theorems, hazards and, for every definition
that models code, the source lines it stands for.

## The system

| Part (source) | State it keeps | Operations | What is hard about it |
|---|---|---|---|
| Evidence bus (`internal/evidence`) | epoch file, segment and checkpoint files, chain head, sequence numbers, submission channel | `NewBus`, `Emit`, the writer goroutine, `sealSegment`, `Close`, WORM upload | crashes and power losses between any two file operations; failing writes and uploads; `Emit` racing `Close` |
| Verifier (`internal/evidence/verify.go`, `merkle.go`, `cmd/omni-verify`) | none | bundle verification, Merkle root | truncation, loss of whole epochs, odd tree levels |
| Approval store (`internal/approval`) | map of requests, decision channels, JSON file | `Create`, `Approve`/`Deny`, `Wait`, pruning, reload | the mutex is dropped for a directory lookup; expiry races decisions; failing writes; restarts |
| Policy and its source (`internal/policy`, `internal/policysource`) | the compiled policy in force, hash of the file last seen | `Decide`, `DecideHost`, `ResolveTargetUser`, `Watch` | reloads under running requests, two decision functions that must agree |
| Dialer and tunnels (`internal/dialer`, `session.handleDirectTCPIP`, `tunnelinspect.go`) | a request's decision, the socket | `DialTarget`, approval gate, credential, guarded dial, protocol hold | the policy and the DNS change between decision, gate, connect and inspection |
| Second SSH leg (`session/target.go`, the peeks in `session.go`, `interactive.go`) | prompted password, cached client | login peek, channel peek, `dialTarget` | the same, over three looks at the policy |
| Session server (`session.go`, `target.go`, `cmd/omni-sag`) | handshake slots, connections, handlers, stashed passwords, drain state | `Serve`, `handleConn`, `getOrDial`, `Drain`, `Terminate` | goroutines that are not joined; a drain racing accepts; slots held by stalled clients |
| Brute-force limiter (`internal/ratelimit`) | bounded map of sources | `Allow`, `RecordFailure`, `RecordSuccess` | logins in flight across a lockout, eviction at the bound |
| Credential breaker (`internal/credential`) | failure count, open-until, half-open | `Allow`, `Success`, `Fail` | late reports from calls admitted in an earlier state |
| File transfers (`session/sftp.go`, `scp.go`, `internal/inspectgate`, `internal/release`) | reassembly buffer, the gate's goroutine, quarantine, release map and file | `WriteAt`, `Close`, `Inspect`, release request, `Create`/`ListFor`/`Get`, the download tap | chunks in any order from several workers; five stores failing in turn; a close that waits for a human; crashes between approval and release |
| Session channels (`session/interactive.go`, `tunnelkeeper.go`, `internal/recording`) | request loop, shell goroutine, pipes, resize channel, recorder, announcer | `handleSession`, `runRecordedShell`, `runTunnelKeeper`, `Recorder.event`/`Close` | five goroutines that wait for one another's closes; a recording that fails in mid-session; nine ways to end |
| Session registry (`internal/sessions`, `api/approvals.go`) | entries, subscriptions with bounded buffers | `Register`, `Publish`, `Subscribe`, `Terminate`, `streamSession` | an end that is published once, without waiting |
| Event export (`internal/eventexport`) | buffer, run goroutine, drainer | `offer`, `process`, `drainAndFlush`, `shutdown` | a transport that hangs while the drain times out |

They interact by calls: a channel handler calls the dialer, which reads the
policy, emits evidence, waits in the approval store and resolves a credential
through the breaker; the password callback asks the limiter and stashes a
password that the second leg takes; `main` cancels one context and drains.
Evidence goes to the bus and, through a fan-out, to the exporters. No component
writes the state of another, which is why each has a module of its own, and the
composed modules are those where two meet over shared state: `EvidenceAudit`
(bus and verifier over the same files), `TargetAccess` (policy source, DNS,
dialer, inspection and second leg over one policy), `Transfer` (reassembly, gate,
approvals and release store over one upload) and `SessionChannel` (channels,
recorder, keeper and registry over one connection).

`PROJECT.json` "components" also names what is not modelled, with the reason.

## Modules

| Module | Models | State and actions |
|---|---|---|
| `EvidenceFormat` | records, checkpoints, chain hashes, `VerifyBundle` | operators only; a hash is the term it was computed from |
| `EvidenceBus` | `bus.go` | one action per step another goroutine or a crash can observe; the writer's handler is one action, and `CrashWriting`/`CrashSealing` leave the files a half-done handler leaves; `Faults` selects the failures |
| `EvidenceAudit` | bus + `omni-verify` | a cleanly closed bundle is damaged once and verified again |
| `MerkleTree` | `merkle.go` | operators only; the levels of the tree are a recursive function |
| `FourEyes` | what an approval promises | abstract: absent, pending, approved, denied, expired, gone |
| `ApprovalStore` | `filestore.go`, `approval.go` | the two critical sections of `decide` with the lookup between them, `Wait` with its timer, pruning, persistence with roll back, crash after or before the rename |
| `Breaker` | `breaker.go` + `credential.go` | a call is admitted, fetches, reports; time is relative |
| `BruteForce` | `bruteforce.go` + the password callback and target leg | attempts in flight; time is relative |
| `EventExport` | `exporter.go` | run goroutine, drainer, shutdown; a transport call may fail or never return |
| `Gateway` | `session.go`, `target.go`, `registry.go`, the end of `main.go` | accept, slot, handshake, handlers, shared leg, clean-up, drain |
| `Policy` | `policy.go`, `targetuser.go` | operators: `Decide`, `DecideHost`, `ResolveTargetUser`; a rule is found by its place <<role, rule>>, and the first place that permits decides |
| `TargetAccess` | `dialer.go`, `guard.go`, `policysource/file.go`, tunnel and leg code of `session` | one request, step by step, against the watcher, edits of the file and the DNS |
| `Reassembly` | the buffers of `inspectUpload` and `downloadTap` | operators: a chunk is counted, stored, handed on |
| `InspectGate` | `gate.go` | the goroutine of one upload: head, small or large, scanned, stored; every store and the inspector may fail |
| `ReleaseStore` | `release/filestore.go` | map and file; a failed `persist` has already pruned |
| `Transfer` | `sftp.go`, `scp.go` over the three above | one file after the other: writes in any order, `doClose` step by step, reads past the tap, `/releases`; approver, clock, client and crash beside it |
| `SessionRegistry` | `registry.go`, `streamSession` | subscriptions with their buffers; `Get` and `Subscribe` are two steps |
| `SessionChannel` | `interactive.go`, `tunnelkeeper.go`, `recording.go`, the brackets of `runSFTP` and `runSCP`, the end of `handleConn` | loop, serving goroutine, two pipes and forwarder of each channel, the shared leg, clean-up |
| `EvidenceBusProofs` | - | the theorems about `EvidenceBus`, `EvidenceAudit` and `MerkleTree` |
| `ThrottleProofs` | - | the theorems about `Breaker` and `BruteForce` |
| `ApprovalStoreProofs`, `EventExportProofs`, `GatewayProofs`, `TargetAccessProofs`, `TransferProofs`, `SessionChannelProofs` | - | the theorems about the module of that name |

`MC*` modules give constants that a configuration file cannot write, and
symmetry where no liveness is checked. Names of hosts, groups and roles stand for
their case-folded form, as the code compares all three without case; approvers
keep their spellings (`Canon` folds them), because there the code folds
explicitly and a mistake would matter.

## Runs

Every run is listed with its properties in `PROJECT.json`; the definitions carry
the statement in words. Each property has a mutant of the code that TLC shows to
violate it. `MemoryMatchesFile` and `DecisionsStick` of the approval store,
`OpenAdmitsNoFetch` of the breaker and every `TypeOK` but the limiter's are not in
a run: they are proved, for every instance.

- **bus_crash** - two callers, two emitters, two process starts, every failure
  but fsync, with WORM upload. Segments only grow; checkpoints are one linked list
  and whatever is fully sealed verifies; a clean Close is sealed on disk and in
  WORM; nothing is acknowledged after a failure. Segments of two records and three
  events give full, partial and empty segments and a seal in mid-run; two starts
  give a restart over any leftovers.
- **bundle_audit** - the same pipeline under power losses (only synced data
  survives) and failing fsyncs, to the audit of what it left. Every acknowledged
  event survives, exactly once; under fairness `Emit` and `Close` return; after
  clean runs any one loss, truncation, swap or alteration is refused by
  `omni-verify` with the logged head; all pairs of segments of up to five records
  have different Merkle roots, which covers odd levels at two heights.
- **bus_fsync** (violation) - see Findings.
- **approval** - one request, three approvers (one the requester under another
  spelling) and an anonymous one, racing each other, the lookup, the clock,
  failing writes, cancellation and crashes; refinement of `FourEyes`; a waiting
  session is answered. One request is enough because the theorems below hold for
  any number of them, pruning of one beside the other included.
- **breaker** - four calls, threshold and cooldown two: two late reporters beside
  a trial and a caller that is refused.
- **bruteforce** - three sources for a map of two, two logins in flight, backoff
  1, 2, 3 (capped); both limits are part of `LimiterTypeOK`.
- **export** - four events, a buffer of two (so it overflows), close at any time.
- **gateway** - two listeners (SSH, and SSH over TLS) with a connection each, one
  slot, two handlers on one connection: contention for the slot and for the leg, a
  drain against both, an `Accept` that fails, and a target that may accept the TCP
  connection and then stall the SSH handshake.
- **target_access** - twenty-two policies whose rules differ in kind of host,
  ports, recording, mode, approval, account and protocols; five requests (tunnels
  by name and by literal address, with and without a selector held or not, legs
  with and without port and account); a file that may have been edited before the
  watcher first reads it and once more afterwards, and one change of the DNS,
  which gives an old, a new and a broken policy and a rebinding at every point.
  Requests only read what they share, so one at a time is enough.
- **tunnel_reload** (violation) - see Findings.
- **transfer** - one file of up to three bytes of two values in up to four writes
  of up to two bytes, empty ones included, a reorder window of three and a gate threshold of one: gaps,
  duplicates, rewinds, a waiting chunk (an empty one too) that is replaced by a
  longer one, overflow of the window, small and large content. Three
  deployments (everything; no holding and no release store; no gate), sftp and
  scp, an approval and a release that expire, a release of another user left by
  an earlier run, a vanishing client and one crash. A download makes three reads
  in any order of a file that may change once. An accepted upload was scanned
  whole, unless a waiting chunk was replaced by one of another length; `/releases`
  serves only what was cleared, approved and evidenced, to its uploader; a release
  told of is listed and, up to `maxReleaseReadBytes`, can be read; a manifest covers
  bytes `ReadAt` returned; an upload that is closed is decided.
- **session** - one channel with all its goroutines, one chunk in each direction,
  one place in the resize, notice buffers and two in the supervisor's. Four
  deployments: recorded shell or files, keeper with the API, shell with the API and
  without a recording, shell without a target. Window changes never meet a closed
  channel; the evidence brackets each session, or is a start alone when the target
  refuses the set-up, and its manifest covers what was piped until the recorder was
  closed; when the connection is gone nothing stays behind, and the stream of a
  supervisor who was attached and keeps up ends, except where the target holds the
  handler (next section). Two chunks in each direction give the same result in four
  times the time. Channels of a connection meet only over the shared leg, which
  `gateway` checks.

`CHECK_DEADLOCK FALSE` stands where the system may stop: a closed gateway, bus or
exporter, a settled request, or a bounded clock at its bound.

### Fairness

Weak fairness only, and only for what the runtime does by itself: a goroutine
that can proceed (writer, run goroutine, drainer, handler clean-up, `Serve`),
timers and tickers (approval expiry, drain timeout, TCP connect timeout, classification
deadline, policy poll, the clock of limiter and breaker), the calls the gateway makes to
its own stores and inspector in `Transfer` and `SessionChannel` (they fail or
return; their clients carry the context or a timeout), that `pkg/sftp` closes the
handles of a client that is gone, and, in `Breaker`, that
sessions keep asking and fetches end, which CCP's HTTP timeout ensures. Nothing is
assumed of people, peers or the network: nobody need approve, no client need
speak or leave, no transport call need return. Where a property needs one of
those it says so in its premise (`ConnectionEnds`: the client is gone).

In particular nothing is assumed of the SSH handshake with the target. The timeout
of the dial covers the TCP connect only (`target.go:276`); `ssh.NewClientConn`
(`target.go:280`) has neither deadline nor context. `ConnectionEnds`, `ChannelsEnd`
and `StreamsEnd` therefore name the target that never finishes it, as the one thing
besides a leg dialed after the clean-up, or a supervisor whose buffer is full when
the session ends, that can keep them from what they promise.

## Findings

- **bus_fsync**: `bus.go:266` rolls the sequence number back on every error "so
  ordering stays contiguous". When fsync fails the line is already in the file:
  the next record repeats the number.
- **tunnel_reload**: `policy.go:167-169` says the admitting decision carries the
  expected protocols so that enforcement need not match the policy again.
  `session.go:803` matches it again after the dial; if the policy was reloaded or
  a CIDR rule's name now resolves elsewhere, a tunnel whose rule names its
  protocols is spliced and merely observed.

Met while modelling, and kept in the models as the code has them, without a run
of their own:

- `breaker.go:45-47` promises exactly one trial; a late report of a call admitted
  before the breaker opened resolves the trial in flight, and a second one starts.
- `target.go:276-280`: a target that accepts the TCP connection and stalls the SSH
  handshake holds the mutex of the cache for ever. `tch.close` waits for it
  (`target.go:335-340`), and with it the rest of `handleConn`: the password's
  destruction, `deregister`, the wait group.
- `target.go:169-296`: the approval gate is the dialer's, and a shell, sftp or scp
  leg does not pass it: `RequireApproval` of the rule that admits it is never looked
  at. `policy.go:99-101`, `tui/explain.go:69` and `docs/audit/fail-closed-matrix.md:31`
  make no such difference. `ConnectionAuthorized` demands the approval of a tunnel
  and says that a leg has none.
- `main.go:386-388` says that with two listeners "Drain still accounts for every
  session". Nobody waits for the `Serve` of the TLS listener: a connection can be
  between its `Accept` and `wg.Add` when the wait group is seen at zero and the
  drain ends clean. `DrainAccountsForEverySession` claims it of the listener `main`
  serves; asked of both, TLC refutes it in the same run's instance.
- `session.go:556-560`, `main.go:408-410`: an `Accept` error that no shutdown caused
  makes `main` exit without draining anything.
- `session.go:329-332` says a stashed password is either taken or destroyed. When the
  handshake fails after the prompt (`session.go:635` returns before the clean-up is
  deferred) it stays in the table.
- `session.go:458-459`: the account named in the prompt and the account of the
  leg come from two looks at the policy; a reload between them can make them differ.
- `dialer.go:325-328`: when the approval request cannot be stored, no refusal is
  evidenced. `target.go:198-206`: nor is a leg refused for want of host keys,
  against the "every attempt" of the comment above `dialTarget`.
- `sftp.go:794-800`: a chunk that waits may be replaced by one of another length,
  and `pendingBytes` keeps the first length, as the test is whether the offset has an
  entry. An empty write and then data at the same offset behind a gap leave the
  count at zero: `Close` then grades and accepts the prefix, which the comment at
  `sftp.go:827-830` ("Fail closed on a non-contiguous upload") excludes. What is
  quarantined and released is the prefix that was scanned. `AcceptedIsWhole` says
  `~ resized` for this; without that it is violated in the run's instance.
- `sftp.go:260-286`: a release longer than `maxReleaseReadBytes` is granted, told to
  its uploader and listed, and every read of it is refused.
- `sftp.go:366-371`: a read dropped for exceeding the window stays counted, and
  from then on every later read may be left out of the manifest, contiguous ones
  too; the type's comment speaks of gaps only.
- `gate.go:48` says a quarantine key is set for every verdict; large content
  without a holding store, and content whose holding upload failed, has none.
- An upload without a gate leaves no record at all (`sftp.go:571-579`), though
  `sftp.go:492-496` says `Filewrite` records like `Filecmd` does.
- `interactive.go:282-297`: a shell whose pty, pipes or shell the target refuses
  has a session_start and no session_end, and that is what `EvidenceCoversSession`
  says of it. After one pipe has ended the recorder is
  closed while the other may still forward (`interactive.go:389-391`). A recording
  that fails in mid-session leaves the shell running unrecorded; its end says so.
- `registry.go:118-119` says attached streams end. session_end is dropped for a
  supervisor whose buffer is full, and comes too early for one between `Get` and
  `Subscribe`: its stream stays open until the supervisor leaves.
- `Emit` can panic on a channel `Close` has just closed; the open segment of a
  crashed run never gets a checkpoint; after a failed upload the logged head lags
  the local checkpoint; a cancelled `Wait` may carry an approved status (its
  caller looks at the error first); the limiter's window is not sliding; an
  abandoned drainer does not close its transport; a leg may be dialed after the cache was
  closed, and nobody closes it (`target.go:335`); handlers may outlive a clean drain.

## Proofs

Every safety property a passing run checks is also a theorem, for every value of
the constants; two of them need an assumption, given with them below. A proof
has one inductive invariant, mostly called `IInv`, checked by TLC on an instance before it was
proved; a lemma for each action; and for what several actions do, a lemma about
that step alone (a write, a reply, an end of the process), so that an action's
own lemma only shows which steps it is made of.

`EvidenceBusProofs` proves, for any callers, emitters, segment size, channel
capacity and set of faults: `TypeCorrect`; `EventsAreDurable` (an event whose
`Emit` returned nil is in the bundle exactly once, failing fsyncs and power losses
included); `SegmentFilesOnlyGrow` and `FailsClosed` (action properties); and, if
no fsync fails, `CleanCloses` (when `Close` returns nil every acknowledged event
is under a matching signed checkpoint, locally and in WORM, and the logged head is
the verifier's). `AckedIsDurable` says nothing of events that are on their way, but
one that is written twice breaks it: `FreshEvents` keeps the events in the channel
apart from each other and from every line of every file, `WrittenOnce` the lines
from each other, and `AckedSynced` puts the acknowledged ones on synced lines,
which is all a power loss leaves (`SyncedLines`). That nothing is overwritten
rests on `FilesPresent`: no file has the name of a segment still to come, because
epochs are not reused. `CleanCloses` adds `SealInv`: the open segment's lines are
the records in memory, or what follows them was never acknowledged
(`OpenSegment`); all earlier segments of the run are sealed (`SegmentsSealed`);
the chain in memory ends in the last checkpoint on disk until a seal has failed
(`HeadLinked`, `CheckpointsPresent`); and a failed seal leaves its records, so the
final one meets them (`SealFailed`). The assumption is needed: a failed fsync
leaves a line that the checkpoint does not count (see Findings).

If moreover no power is lost, `NoFalseAlarm` proves `SealedBundleVerifies`: the
checkpoints are one linked list over all epochs, and `omni-verify` accepts whatever
is fully sealed. `BundleInv` adds to `SealInv` that the lines of an epoch, over
its segments, are one chain of records numbered from one that memory is the end of
while no write has failed (`RecordInv`), and that a checkpoint that parses is over
its segment and links to the one before it in the order of names (`CkptInv`). Both
assumptions are needed: a failed fsync leaves a record whose number is given out
again, and a power loss may take a checkpoint that the next one links to, as
checkpoints are not synced.

`DamageIsDetected` and `AckedSurvives` are about `EvidenceAudit`, under every fault.
`AuditInv` is the invariant of the bus with `LinkInv` (a checkpoint names its own
file, and the head a clean `Close` logged is the hash of the last one) and
`EventsNumbered` (no record is an altered one) until the bundle is damaged, and the
refusal afterwards. Each kind of damage has a lemma. The hard one is the
loss of whole segment and checkpoint pairs, where what is left is consistent: the
first checkpoint after a gap links to a hash that is no longer there, and if there
is none the head is not the pinned one. An altered record or a changed order
breaks the chain at that line, a cut segment no longer has the root and count its
checkpoint signs.

`MerkleInjective` proves that two segments, of whatever lengths, have the same root
only if they are the same; `RootsTellLeaves` is the run's property. `LevelsAre`
shows that the recursive function exists (its finite approximations agree). The
leftmost path of a hash tells its height (`Spine`): every node of a level but the
last has the level's height (`LevelsHeights`), so equal roots have equally many
levels, a promoted odd node is not taken for a pair (`BelowLength`), and equal levels
come from equal ones (`BelowSame`), down to the leaves. The inductions are on the number of the level, by least
counterexample (`LeastNatural`).

`ApprovalStoreProofs` proves for any requests, approvers, spellings, TTL,
retention and set of faults:

- `TypeCorrect`; `FourEyesHolds` (a decision in the file was taken in time by
  someone other than the requester under every spelling, and accepted by the
  lookup where the groups bind); `MemoryAgrees` (memory and file differ only by an
  unwritten expiry and outlived entries); `DecisionsAreFinal` (action property);
  `OutcomesAreDurable` (an approval a session went ahead on and a decision the API
  confirmed stay in the file as given; of racing approvers at most one is told it
  decided); `Refinement` (`ApprovalStore` implements `FourEyes`).

The inductive invariant is `TypeOK /\ DownIsEmpty /\ KnownIsUsed /\
MemoryMatchesFile /\ FourEyesEnforced /\ UndecidedInFile /\ CallsChecked`.
`FourEyesEnforced` speaks of the file; a decision is taken in memory and written
out, and may be rolled back, so the two must be tied (`MemoryMatchesFile`); a
decider between its critical sections must still satisfy what the first one
checked (`CallsChecked`), for an id that has not been reused (`KnownIsUsed`,
`UndecidedInFile`); and a process that is down must hold nothing (`DownIsEmpty`).
Steps are grouped by what they do to the store: persisted, unpersisted, quiet,
tick, crash; each group has one lemma and each action one line.

`ThrottleProofs` proves of the breaker, for any calls, threshold and cooldown, `TypeCorrect`,
`NeverJams`, `FailuresOpen` and `OpenIsShut` from `TypeOK /\ HalfOpenHasTrial /\
ClosedCounts`: that a half-open breaker has a trial in flight needs the failure
counter to be below the threshold whenever the breaker is closed.

Of the limiter it proves, for any sources, attempts and configuration,
`LimiterTypeCorrect` (its map never exceeds `MaxEntries`, no lockout `MaxBackoff`)
and `FairLockouts` (the action property). Neither is inductive: a count in an entry
says nothing of when its failures were. `Explains` ties an entry to the failures
recorded for its source: while its window is open those it counts are the last ones
and no older than the window, fewer than `MaxFailures` older ones are left, all of
those are gone when the window is over, and a source idle for a window has
none, so that reclaiming an entry forgets nothing. `BackoffIs` and `BackoffInRange`
are the equation of the doubling backoff and its cap, by least counterexample.

`EventExportProofs` proves, for any buffer and number of events, `TypeCorrect`,
`NothingLost` and `TransportSafe` from `TypeOK /\ Apart /\ Everything /\ Turns /\
Countdown`: an event is in one place only, the places together hold as many as
were offered, the goroutines take turns (the drainer runs only after run has
stopped selecting, and closes), and the drainer's count covers what was buffered
when run was cancelled.

`GatewayProofs` proves, for any listeners, connections, handlers and limits,
`TypeCorrect`, `PasswordsAreAccounted`, `LegDialedOnce` and `DrainIsComplete`. A
connection a `Serve` holds is nobody else's (`OneAdmission`); one that has not
finished its handshake has neither leg nor handlers, and a handler that dials or
shakes hands holds the mutex (`ConnOK`), so the clean-up, which needs it, cannot find
a password in use; and `main` drains only after its own `Serve` has returned
(`DrainAfterServe`), which is why a clean drain says something of the connections of
that listener, however many others there are.

`TargetAccessProofs` proves, for any hosts, addresses, ranges, policies and
requests, `TypeCorrect`, `ConnectionsAreAuthorized`, `TrailsAreComplete` and
`HostDecisionsAgree`. The invariant says what a tunnel and a leg have behind them
at each step (`TunnelGates` with the approval, `LegGates` without, as the code has
it), in terms of the decision, and that the
decision is a copy of one rule of a policy in force since the request began
(`Backs`, `Current`); a socket passed the guard under that same decision
(`Guarded`). That a decision is backed by one rule, and that the host-only one is
the decision for its port, are lemmas about `Decide`: the first place that permits
exists (`LeastNatural`) and the two searches look through the same places.

`TransferProofs` proves, for any file, lengths of writes, reorder window,
threshold, users, retention and faults, `TypeCorrect`, `ReleasesAreEarned`,
`ReleasesAreReadable`, `ManifestsAreObserved` and `AcceptedAreWhole`. Its invariant
has four parts beside the types: `ShelfOK` (map and file of the releases agree on
what was promised, and every entry was earned), `CloseOK` (what each
step of `doClose` has behind it), `TapOK` (what the tap hashed or keeps, the target
returned at that offset) and `WholeOK` (what went into the pipe followed by what
waits is what the client wrote, chunk by chunk, as long as waiting chunks do not
overlap; where they do, one of them waits for ever and `Close` finds the gap).
Writes of no bytes are included: the bytes counted are those at the offsets that have
an entry, and an offset without one holds nothing (`Vacant`). That what was accepted
is in the quarantine (`InStore`) makes a release readable, up to the read limit.

`SessionChannelProofs` proves, for any channels, supervisors, buffers and chunks,
`ResizesAreSafe` (no window change meets a closed channel) and
`SessionsAreCovered` (a session that has returned has a start and, last, an end in
the evidence, or the start alone if the target refused its set-up; and a recorded
shell has a manifest of everything handed on before the recorder was closed, or a
failure). The invariant has four parts per channel: `ResizeOK` (resizeCh is closed
only by the loop that sends on it), `TrailOK` (what is recorded at each step of the
handler), `PipesOK` (the pipes start last; the recorder is closed only after one of
them has ended) and `RecordingOK` (an open
recording without an error holds every chunk read, and what is sent was read).
Each action has a lemma, which builds the channel's next value, shows the four
parts of it and carries it over to all channels (`Update`).

Assumptions: those named `...Assumption` in the modules, which every run
evaluates; they give constants their types and keep marks such as `NoFile`, `Torn`
and `None` apart from the values they stand beside; beyond them, no failing fsync
for `CleanCloses`, nor power loss for `NoFalseAlarm`.

Only model-checked is all liveness (`CallsReturn`, `WaitEnds`, `EventuallyAdmits`,
`LockoutEnds`, `ShutdownReturns`, `ShutdownEnds`, `ConnectionEnds`,
`EditsTakeEffect`, `TunnelSettles`, `UploadSettles`, `ChannelsEnd`, `StreamsEnd`):
this prover has no rules for fairness. The two findings are violations, which TLC
shows.

## What is taken as given

Hashes and signatures are ideal. Syncing a new segment file keeps its directory
entry, and a completed rename survives: below that the file system is not
modelled. Wire protocols (SSH, LDAP, RADIUS, ICAP, CCP, S3, syslog) are calls
that succeed, fail or, where the code has no timeout of its own, hang. Bytes,
formats and log texts are left out; which bytes identify a protocol is a choice.
Configuration is static and valid.

## Not modelled

The wire protocols and their clients (authentication, ICAP, CCP, S3, exporters'
formats and transports), configuration parsing, FIPS checks, metrics, the
operator console and the stubs: they keep no state that two actors share, or are
calls the models let succeed or fail. Of the control API, routing, tokens and
views; of the session server, the wiring in `main` and the public-key and
certificate callbacks.

## Plan

- An abstract specification of an upload (held, then released or refused) that
  `Transfer` implements.
