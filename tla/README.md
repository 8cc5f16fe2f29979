# A TLA+ model of parallax-kv

parallax-kv is a replicated key-value store: a Raft core without I/O, drivers
that run it (a real server and a deterministic simulator), a log storage on disk,
a state machine with client sessions, a peer transport, and a client that looks for
the leader. This directory models those parts, checks them with TLC on small
instances, and proves the election part of the core with TLAPS for every instance.

    tlc -workers 2 -config Election.cfg MCRaft      # one run
    tlapm RaftElection.tla                          # the proofs of a module

## The system and its parts

| part | source | module | state of the model |
|---|---|---|---|
| elections, PreVote | `raft/raft.go`, `step.go`, `handlers.go` | `Raft` | complete |
| replication, commitment | `raft/replication.go`, `progress.go` | `Raft`, `Progress` | complete |
| ReadIndex | `raft/readonly.go`, `step.go` | `Raft`, `Progress` | complete |
| snapshots in the core | `raft/replication.go`, `handlers.go`, `sim/loop.go` | `Raft`, `Progress` | complete |
| the log, its unstable tail | `raft/log.go` | `RaftLog`, `PlainLog` | complete |
| Ready, Advance, the drain | `raft/node.go`, `server/drive.go`, `sim/loop.go` | `RaftLog` | step by step, with crashes |
| log storage on disk | `storage/disk` | `Disk`, `LogStorage` | complete but for noSync and bit rot |
| log storage in memory | `storage/mem` | `LogState` | all but Compact, which nothing calls |
| state machine, sessions | `kv` | `KV` | complete, encodings abstracted |
| server | `server` | `Service`, `Transport`, `RaftLog` | complete but for metrics |
| client | `client` | `Service` | complete |
| peer transport | `transport` | `Transport` | complete, gRPC external |
| simulator: nodes, storage wrapper | `sim/loop.go`, `node.go`, `sim.go` | `Raft`, `Checker` | clock and random choices are nondeterminism |
| simulator: invariant checker | `sim/invariants.go` | `Checker` | complete |
| simulator: history and its check | `sim/workload.go`, `sim/lin` | `Lin` | recording and check; search external |
| scenarios, commands, scripts, wire formats | `sim/gen.go`, `cmd`, `scripts`, `proto` | - | I/O and generated code |

A client sends an operation to the node it takes for the leader. The server's
drive loop hands it to the core, which appends, replicates and commits; the loop
persists, sends and applies what the core hands back, and answers the waiter. The
simulator runs the same core and state machine, and judges each step (`Checker`)
and the finished history (`Lin`). `PROJECT.json` maps every definition to its lines
and lists what is hard to test in each part (its hazards), with the properties that
would notice.

How the modules lean on each other:

    Service   assumes   StateMachineSafety and ReadsAreFresh          of  Raft
    Raft      assumes   one plain log, drained and durable at inputs  of  RaftLog
    RaftLog   assumes   the promise LogStorage, kept by               Disk
    Progress  assumes   that nothing is delivered for ever again      of  Transport

## The modules

**Raft** is the core with its driver on every node. One action is one input of the
drive loop (a timer, a message, a proposal, a read) *with the drain that follows*:
both drivers drain completely before they take the next input, so only a crash can
come between. `Restart` is a crash between inputs, `CrashInDrain` and
`CrashCampaignAlone` one after part of a batch is persisted and before anything of
it is sent. `Drain` carries `MustSync`: a commit index that changes alone is not
synced, and a restart may find the older one. The network is the set of all
messages sent; any of them may be delivered at any time, again, or never. This is what
`transport/grpc` (drops) and `sim/network.go` (drops, delays, duplicates) allow.
Timers are nondeterministic; `lease` says whether the node heard of a leader within
`ElectionTicks`, which leader stickiness tests. `log` keeps the entries a snapshot
covers and `offset` says where the available part begins, so that a snapshot is the
prefix it stands for. Every read of a log goes through `TermOf`, which knows no
entry below `offset`. History variables: `leaderByTerm`, `chosen` (the longest
prefix ever committed), `served` (released reads).

**RaftLog** is what `Raft` folds into one sequence and one step: `raftLog` with its
unstable entries and snapshot over a storage, `Ready`, the eight steps of a pass of
the drain in their order (`DrainSteps`), `Advance` and compaction. The process may
be killed before each step and inside `ApplySnapshot`. An input is what the core
does to the log: it accepts entries or a snapshot of a leader, appends as a leader,
moves the commit index, or changes term and vote. The leaders' logs are arbitrary
sequences that contain what this node was told is committed (`settled`, the
environment's record) and match its own log, which is what `LeaderCompleteness` and
`LogMatching` of `Raft` guarantee. `promised` records what messages already sent
have promised. **PlainLog** is the abstract specification: one sequence above a
snapshot and a commit index that never exceeds it.

**LogState** holds the value of a storage and what each call makes of it
(`storage/mem`). **LogStorage** is the promise of `raft.LogStorage` under crashes: a
value and the set `durable` of values a crash may leave. `RaftLog` uses it, `Disk`
implements it.

**Disk** is one node's `storage/disk`: the mirror, the buffer, the segments and the
snapshot files. `Crash`, `CrashInSync`, `CrashInApplySnapshot` and `CrashInOpen`
kill the process between and inside calls; `Open` replays. A torn frame is a
record of its own type. `durable` is a history variable, the set of states a
recovery may legitimately return: that of the last sync and of each later call. The
guards of the calls (`Unstable`, `Legal`) are what the core and the drivers ask for.

**KV** holds the state machine as pure operators: commands, `Apply` with the session
table, `Snapshot` and `Restore` as sorted lists and back.

**Service** composes clients, drive loops and waiters with one `KV` per node.
Consensus is reduced to what `Raft` guarantees: a growing sequence of committed entries
that all nodes apply in order; accepted proposals commit late or never; several nodes
may believe they lead; a confirmed read has an index that covers what was committed
when it was asked for. A call is one *attempt* of an operation. `overtaken` is a
history variable (see Observations).

**Transport** holds the goroutines and channels of the server processes: `Send` and
the per-peer queues, one sender goroutine per peer with its RPC and its deadline, the
handler `Step` that fills `recvCh` message by message, `submit` with `reqCh` and the
one-place answer channels, the waiters' answers, and `shutdown` with `Close` in its
steps. gRPC is external: a call may be lost, and its handler may start or go on after
the caller gave up. `Stop` may leave handlers running (`leftBehind`).

**Progress** adds fairness to `Raft` for a leader that stays. **Checker** is the
simulator's checker with the storage wrapper it watches; the core it judges may do
anything, since it is there to find faults. **Lin** records histories with arbitrary
answers and checks them as `sim/lin` does. **MCRaft**, **MCService**, **MCTransport**,
**MCSim** hold the instances, **RaftClaims** a statement of the documents that does not
hold. **RaftHelpers**, **RaftHandlers**, **RaftTypes**, **RaftVotes**,
**RaftElection**, **RaftArchive** and **RaftMatching** hold the proofs.

## Runs

Deadlock is not checked: the bounds make every instance stop.

| run | instance | shows |
|---|---|---|
| Election | 3 nodes, PreVote, two contenders in term 1, one crash | one leader per term, one vote per node and term, a quorum of pre-votes behind each candidate, terms never go back |
| Replication | 3 nodes, one entry per append; from Figure 8(b) of the Raft paper (terms 2 to 4), from a leader with a read that a successor deposes (5, 6), from a leader whose successor has a read (7, 8), from a leader with heartbeats and a successor (9, 10) | leaders hold all that was committed, the committed prefix only grows, logs match, `Match` is stored, released reads are fresh |
| Snapshot | compaction after 2 entries, a command, one crash, two terms | the same with compacted logs, InstallSnapshot and restarts |
| Single | one node, 2 commands, 3 terms, 2 crashes, compaction | a cluster of one loses nothing |
| Progress | a leader; a follower that diverges, one that is empty; compaction after every entry; a read | followers catch up for good, reads end |
| ClaimTerm | PreVote, any node | *violated*: see Findings |
| RaftLog | indexes to 3, 2 terms, batches of 2, a vote, 2 crashes | promises survive a kill at any instant, the state machine is never ahead of the log, no panic, nothing left over, one plain log |
| Disk | indexes to 3, 2 terms, 5 records, segments of 2, 2 crashes | what was synced survives; what ApplySnapshot removed stays removed; the storage promise is kept |
| DiskReplay | the same | *violated*: see Findings |
| Clients | 2 clients and 2 nodes: two CAS against a delete; two puts with 3 attempts, 2 snapshots and a restart; a put against a get with a change of leader, a restart or an empty entry | exactly once, linearizable, nobody waits for nothing |
| Transport | 2 processes, queues of 1, batches of 1 and 2 messages, 2 client calls, both may stop | at most once, who may be overtaken, Close after the handlers, no blocked loop; stopping, calls and backlog come to an end |
| Sim | checker: 3 peers, 2 terms, 2 digests, five scenarios of 4 or 5 events; history: 3 clients, 2 keys, four scripts, times to 4 | the verdicts are exact |

### Bounds

`MaxTerm` bounds campaigns, `Campaigners` says who may campaign in which term,
`HeartbeatTerms` and `MaxReads` limit timers and reads per term, `MaxIndex` limits
proposals, `MaxRestarts` crashes. A conflict needs two terms and a majority of
three; two contenders make a split vote; Figure 8 needs four terms, which is why
that part starts later. Snapshots after two entries leave a follower behind a
compacted log with the no-op and one command. For `Disk`, a conflicting overwrite, a
snapshot and a crash need three records, rotation needs a third one in segments of
two, and a crash in recovery a second crash. For `RaftLog`, a truncation inside the
unstable tail, and one that reaches into the storage below it, need three indexes and
two terms; a second crash hits the log that the first one left. For `Service`, two
nodes are enough for two simultaneous leaders and a stale one; a third attempt lets
an old one arrive after a newer one. For `Transport`, one place makes every queue
full, and two batches overtake each other. In `Checker`, a memo goes stale within
four events (write, commit, lead, commit again); in `Lin`, three operations on one
key, one of them lost, tell the treatments of lost answers apart. The mutants in
`PROJECT.json` show that each bound is large enough for each property to fail when
the code is changed.

### Fairness

`Transport` assumes that each goroutine that can go on does (weak fairness of each
sender, each drive loop, each shutdown and each call's `submit`). The deadline of an
RPC and the context of a call are timers, so the step that ends the wait is always
enabled; nothing is assumed about the network or about gRPC.

`Progress` assumes that a leader keeps ticking (weak fairness), and that a message
sent again and again arrives now and then (strong fairness, per pair of nodes, for
the heartbeat, its answer, the append or snapshot that answer sends, and the answer
to that). Nothing else is assumed to arrive. In `Raft` a message can be delivered
again without end, so a rejection of long ago could lower `Next` for ever. The
transport hands over no message twice (`AtMostOnce`), hence `MaxLate` allows only so
many. The leader is given: no one else campaigns and no one restarts in that
instance, since that an election ends depends on randomized timeouts, which fairness
does not express.

### Later initial states, view and symmetry

`Figure8Init`, `LedInit`, `CatchUpInit` and `ReadInit` are states the program
reaches when all earlier messages are lost. They carry no such messages, so a run
from them does not see a straggler of the elections before; the Election and Single
runs start at `Init`. `PeersInit` and `ClientsInit` of `MCTransport` keep the two
halves of a process apart. The scenarios of `MCSim` and `MCService` are constants
that limit what may happen to whom, and `MCSim` runs one judge at a time.

`LiveView` leaves out of the fingerprint the messages that can change nothing any
more (`Dead`), and the contents of requests that are answered by term alone
(`Essence`). Terms never decrease, a node is candidate or leader of a term at most
once, and nobody campaigns above `MaxTerm`. A dead message therefore stays dead,
and states with the same view have the same successors up to dead messages. What the
vote invariants read (granted votes) stays in the view. `ClaimTerm` needs no such
argument: its counterexample is a behaviour. `Progress` uses no view.
`Contenders` permutes n1 and n2, which play the same part when terms end at 1; the
property checked under it besides invariants is an action property.

## Refinements

`Disk` implements `LogStorage` (`ImplementsLogStorage`): `open` is `up`, the mirror
is the value, and the history `durable` is the set a crash may leave. Every call,
crash and recovery is a step of the promise or none, with the one exception of a
recovery that meets the entries of the DiskReplay finding. A snapshot that is
durable may or may not make the writes before it durable, which the promise
leaves open.

`RaftLog` implements `PlainLog` (`ImplementsPlainLog`): what the core reads through
unstable tail and storage (`View`) changes with inputs as a plain sequence would, and
with no step of a drain but the compaction. Crash and recovery steps are excepted
here; `PromisesSurvive`, `AppliedIsSafe` and `DrainedIsStored` speak of those.

## What is proved

From `NodeAssumption` (a finite, non-empty cluster without `None`),
`ConfigAssumption` and `BoundAssumption` (types of the parameters), for every value of
the constants:

- `RaftTypes!TypeCorrect`: `Spec => []TypeOK`. `TypeOK` is not inductive; `TypeInv`
  adds `CampaignTerms`, that a candidate or leader is in a term above 0, without
  which a leader could append an entry of term 0. There is one lemma per handler
  (`RaftHandlers`), and lemmas on the operators (`RaftHelpers`: `TermOf`,
  `CommitIndex`, `Spliced`, message constructors).
- `RaftElection!AtMostOneLeader`: `Spec => []ElectionSafety`.
- `RaftElection!VotesOnce`: `Spec => []OneVotePerTerm`.
- `RaftElection!TermsGrow`: `Spec => TermNeverDecreases`, restarts included.
- `RaftMatching!LogsMatch`: `Spec => []LogMatching`.

The inductive invariant of elections is `VoteInv`. Votes leave a record: the granted
answers in `msgs`, and a candidate's vote for itself. `Durable` says that the term
and vote on disk are those in memory, which is what `MustSync` is for.
`VotesRemembered` says that a vote on record is covered by the voter's term and
vote, so that a restart forgets none. `VotesUnique` says that no voter has two votes
on record in a term. `BallotsCast` says that what a candidate counted is on record,
and `LeadersElected` that a quorum on record stands behind each leader. Two
quorums share a node (`QuorumsIntersect`), whose votes are unique, so the leaders are
one. Most actions leave votes alone; `QuietActions` and `BystanderActions`
(`RaftVotes`) dispose of them together.

The inductive invariant of Log Matching is `MatchInv` (`RaftArchive`). Logs alone are
not enough: a batch in flight may come from a log that no node holds any more.
`MatchInv` therefore says that some set `P` of logs, closed under prefixes and
matching pairwise, contains every log and every snapshot in flight, and for every
batch in flight a log it is a slice of (`Carried`, term of the entry before it
included). `Authored` and `Owned` say that the entries of `P` have the terms of elected
leaders and that no member of `P` reaches beyond a leader's own log with an entry of its
term; `Incumbents` ties roles to `leaderByTerm`. With at most one leader per term, `P`
grows by one entry of a leader at a time and stays matching (`Grown`). What
`maybeAppend` leaves behind is a prefix of the log the batch was cut from, for the whole
batch and for any part of it that a crash left on disk (`SplicedIn`). The invariant is
stated for clusters of two and more. A lone node that crashes while it campaigns stores
an entry of a term it has not led, so `Authored` does not hold for it, and it has no
second log to match.

Only model-checked: leader completeness, state machine safety, reads,
snapshots, the two refinements, and everything in `RaftLog`, `Disk`, `KV`, `Service`,
`Transport`, `Checker` and `Lin`. Liveness and `ENABLED`, induction over data and
RECURSIVE operators (`Lin!Search`) are beyond the prover and stay with TLC.

## Findings

1. **ClaimTerm.** A rejected pre-vote echoes the campaign term of the probe
   (`raft/step.go:29-30`, `133-136`), and only a *granted* one is exempt from the rule
   that a higher term is adopted (`step.go:48`). The node that asked therefore moves to
   a term nobody campaigned in. `docs/DESIGN_NOTES.md:62-63` says "the probe does not
   change any node's term". The consequence is for availability, not safety: a node
   refused by followers of a healthy leader is then ahead of that leader's term, and its
   answer to the next heartbeat makes the leader step down.
2. **DiskReplay.** `applyEntryRecord` skips a record the snapshot covers together with
   the truncation it implied (`storage/disk/wal.go:173`), and `ApplySnapshot` writes a
   truncation record only if the mirror has entries above the snapshot
   (`snapshot.go:104`). Append 1 and 2 of term 1, sync; append 1 of term 2, sync;
   `ApplySnapshot(1, term 2)`: recovery returns entry 2 of term 1, behind a snapshot of a
   later term. `disk.go:8-11` says replay "reconstructs the durable state".
   `NothingElseReturns` and `ImplementsLogStorage` hold with exactly this exception
   (`Shadowed`). The server itself installs snapshots and does not take them; only the
   simulator compacts.

## Observations

Met while modelling; no run states them.

- `step.go:53-58` sets `lead` to the sender of any message of a higher term but
  `MsgVote`, a response included, so `Leader()` may name a node that leads nothing.
- A granted pre-vote of an earlier campaign for the same term is counted in a later
  one (`handlers.go:38`); `CandidacyIsBacked` is stated for grants, not campaigns.
- A repeated rejection can lower `Next` to `Match` or below (`progress.go:30-39`). The
  cost is a repeated append.
- `docs/DESIGN_NOTES.md:119-120` says that a read is not deferred before the first
  commit of a term; `step.go:161-164` defers it.
- Waiters are filed by client and seq (`drive.go:63`). When the handlers of two
  attempts reach the loop in the other order, the older one takes the newer one's
  place and the client waits until its context ends. `NoCallIsForgotten` exempts
  exactly those calls (`overtaken`).
- `drive.go:146` says that the proposals of a deposed leader "will never commit here".
  They may; the session table makes the retry harmless.
- `Advance` clears `msgs` (`node.go:146`), so a message of an input between `Ready`
  and `Advance` would be lost. Both drivers take no input there.
- `Close` closes `recvCh` after `srv.Stop()` (`grpc.go:218-219`). A handler that Stop
  does not wait for would then panic; `ClosedAfterHandlers` says that no other can.
- The checker's log matching compares with the mark of the highest term met so far
  at an index (`invariants.go:337-354`). Two peers that differ in one term pass
  when a peer before the second has a later term there. `Sound` excepts exactly this
  (`Shadowed` of `Checker`).
- A record made for a snapshot keeps no term of commitment when the hard state of the
  same batch commits further than the snapshot (`sim/node.go:118-134`); leaders of
  every term answer for it then.
- `stepKV` does not look at the value a CAS mismatch returns for an absent key
  (`lin.go:270-272`). `CheckIsExact` is stated up to that (`Gives`).
- In a history, a return and a call at the same virtual time are concurrent.

## Not modelled

`noSync`; damaged segments other than the last; failing system calls; byte formats (a
nil and an empty value are one, as the store compares them) and the field by field
conversion of messages; `mem.Compact`; metrics; the simulator's clock, event queue,
generators, scenarios and trace output; which node its workload asks, and its
retries, which follow the client; Porcupine's time limit; commands and scripts. That
elections end is not checked: it rests on randomized timeouts. The composition of all
processes with the real storage in one state space is out of TLC's reach; the
assumptions listed above take its place.
