# A TLA+ model of aerovoice

aerovoice is a voice communication system (VCS) for air traffic control: a
controller keys radio channels, listens to their downlink and makes telephone
calls. The VCS reaches a ground radio station (GRS) with SIP for the calls and
RTP with the ED-137 header extension for voice, push-to-talk (PTT) and squelch
(SQU). The repository holds the VCS, an emulator of the GRS, and the libraries
both use. This directory models the parts whose correctness depends on the order
of events, checks them with TLC on small instances, and proves the core for
every size with TLAPS.

## 1. Inventory

| Component | State | Operations | What is hard | What makes it correct |
|---|---|---|---|---|
| Channel state machine `internal/channel/fsm.go` | state, PTT flag, SQU flag | Connect/Disconnect/Fault transitions, PTTDown/Up, SquelchOn/Off | the flags outlive the state that set them; methods accept calls in any state | a state is only shown when what it says is so |
| Radio channel `internal/vcs/service.go` | per channel: machine, SIP call, RTP session, recording ids, squelch lamp, `ch.mu` | ConnectChannel, DisconnectChannel, StartPTT, SendVoiceTransmission, StopPTT, handleRadioRx, checkSquelchTimeouts, ChannelSnapshots, Close | INVITE under a lock, clean-up after the unlock, timers that nobody cancels, packets of a session being closed | one fact kept in four places stays one fact; nothing is leaked |
| Recorder `internal/media/recorder.go` | table of open recordings, catalogue, WAV files | Start/Append/StopRecording, retention, load at start | file and catalogue change one after the other; a restart rebuilds one from the other | what was recorded is found again, bounded, newest first |
| RTP session `internal/media/rtp_session.go` | socket, transmit flag, send and receive goroutines | StartTx, StopTx, Close, the loops | every StartTx starts a goroutine and StopTx ends none | one stream per session; Close leaves nothing running |
| Telephone call `internal/vcs/service.go` | call, RTP session, recording, echo and microphone buffers, `phone.mu` | DialURI, HangupPhone, handler and audio source | the old call's media runs while a new call is dialled | calls do not see each other |
| Communication log and console push `internal/vcs/service.go`, `web.go` | ring of entries, subscriber channels, WebSocket clients | LogEvent, SubscribeLogs, unsubscribe, ClearLogs, RecentLogs, handleWebSocket, BroadcastEvent, BroadcastAudio, Close | entries are delivered after the unlock; a browser gets entries on two ways, replay and live | bounded; delivered once to a subscriber and completely to a browser |
| Service locks `internal/vcs/service.go` | `s.mu`, `ch.mu`, `phone.mu`, `logsMu` | every API call and loop | nested acquisition, writers that block readers, locks held over the network | nobody waits forever |
| Supervision `internal/vcs/service.go`, `sip/dialog.go` | status per target | supervisionLoop, runSupervisionChecks, Ping, handleOptions, SetSilentDrop | answers that outlive their ping, shutdown in the middle of a round, panics while a lock is held | "online" comes from an answer to the last ping; the status follows the station |
| GRS service `internal/grs/service.go` | radio and telephone side, squelch, PTT lamp, packet time | handleSIPInvite/Bye/Options, handleRTPPacket, CallVCS, EndPhoneCall | one RTP session for two kinds of call, delayed auto-answer | a lamp or a call is what the peer did |
| SIP node `internal/sip/dialog.go` | dialog cache | Call, Hangup, Ping, handleInvite/Bye/Options | lost BYE, a dialog ended by the peer | both ends agree in the end |
| Jitter buffer, stream statistics `internal/media/` | heap of packets, highest sequence, counters | Push, PopReady, RecordRxPacket | sequence wrap-around, reordering, late packets | order, loss counted once |
| G.711 `media/codec/g711.go`, header extension `ed137/header_ext.go` | none | encode, decode | boundaries of sixteen-bit integers, segments | what is heard is near what was said |
| SDP `sip/sdp.go`, packet times in `config/config.go`, `media/rtp_session.go` | packet time of each end | BuildRadioSDP, ParseRadioSDP, SetPtime | corrected in four places, one session for two peers | both ends use the same |
| PCAP analyzer `pcap/analyzer.go` | one pass over a capture | AnalyzePCAP | losses, reordering, streams that end anywhere | losses, spans and audio are those of the sender |
| Prompts, tone, other configuration, HTML of the consoles | mostly none | parsing, files, HTTP | | |

Interaction: the web server calls the service's operations; the service calls
the state machine, the recorder and the SIP node and owns RTP sessions; an RTP
session calls back into the service (handler, audio source) from its own
goroutines; the service pushes log entries and audio to the web server.

## 2. Modules

| Module | Models | Composition |
|---|---|---|
| `ChannelFSM` | `channel/fsm.go`, as operators on a record: every operation, without listeners and reason strings | used by `RadioChannel` |
| `RadioChannel` | one channel of the VCS with everyone who touches it | state machine + channel + RTP session + recorder + the callers |
| `VoiceLink` | abstract: what a channel promises its controller | refined by `RadioChannel` |
| `RadioChannelProofs`, `SupervisionProofs`, `PhoneCallProofs`, `MediaProofs`, `VoiceCircuitProofs`, `ConsoleHubProofs`, `RecorderProofs`, `ServiceLocksProofs` | theorems about the module each is named after (`ConsoleHubProofs`: about `LogHub` too; `MediaProofs`: about `RtpSession`, `JitterBuffer` and `Capture`) | each extends its module |
| `Recorder` (`MCRecorder`) | `media/recorder.go`: table, catalogue, files, crash and restart | |
| `LogHub` (`MCLogHub`) | the log ring and its subscribers in `vcs/service.go` | used by `ConsoleHub` |
| `ConsoleHub` (`MCConsoleHub`) | `vcs/web.go`: the WebSocket clients, the replay of the log, broadcasts | extends `LogHub` |
| `Supervision` (`MCSupervision`) | the OPTIONS pings of `vcs/service.go` and `sip/dialog.go`, the stations that answer them or fall silent (`grs/service.go`), the network | |
| `RtpSession` | `media/rtp_session.go`: send and receive loops, Close | |
| `PhoneCall` | the telephone of the VCS | |
| `JitterBuffer` (`MCJitterBuffer`) | `media/jitter_buffer.go` with sender, network and receive loop | |
| `RadioSDP` | `sip/sdp.go` and every place that corrects a packet time, as operators | used by `GrsService` |
| `GrsService` | `grs/service.go`: the ground station and its SIP handlers | used by `VoiceCircuit` |
| `VoiceCircuit` | channel, telephone, station and the network between them | extends `GrsService` |
| `ServiceLocks` (`MCServiceLocks`) | who waits for whom in the VCS: mutexes, network, loops, browsers, the end of the program | |
| `G711` | `media/codec/g711.go`, as operators on single samples, and how near a sample must come back | used by `Capture` |
| `Capture` (`MCCapture`) | `media/stats.go`, `pcap/analyzer.go`, `ed137/header_ext.go`: what is counted, drawn and heard of packets that are lost and reordered | extends `G711` |

Definitions named `Mut_...` are deliberately broken variants of the definition
that follows them; no specification uses them. They show that each checked
property can fail: put in the place of the original, the run finds a violation.

### RadioChannel and the code

A body that runs under `ch.mu` is one step. Two are not. `ConnectChannel` keeps
`ch.mu` for the whole INVITE, so `conn` says how far it is and every other
holder of the mutex waits. `DisconnectChannel` empties the channel under `ch.mu`
and closes what it took out after the unlock; each call in that tail is a record
of `cleanups` with a program counter, so packets of the old session, a new
connection and other disconnects run in between. When the 200 OK has come but the ACK
cannot be sent, `SIPNode.Call` returns an error and drops the dialog it has: the step
`AckFailed` leaves a dialog that is in nobody's hands (`DialUnacked` in `PhoneCall`).

| Variable | Code |
|---|---|
| `phase` | `VCSService.Close`: workers running, stopped, channel disconnected |
| `fsm` | `ch.fsm` |
| `conn` | a `ConnectChannel` that holds `ch.mu` |
| `rtpSession` | `ch.rtpSession` and `ch.activeCall`, set and cleared together |
| `rxRecID`, `txRecID`, `lastSQU` | the fields of that name |
| `fresh` | `time.Since(ch.lastRxTime) <= 80ms` |
| `dialogs`, `live`, `tx` | SIP dialogs nobody has hung up yet, RTP sessions not closed, `isTransmitting` |
| `unacked` | history: dialogs whose ACK could not be sent |
| `openTx`, `openRx` | the recorder's `activeRecord` |
| `cleanups`, `timers` | `DisconnectChannel` calls past the unlock; goroutines of `SendVoiceTransmission` asleep |

The channel's state machine accepts its methods in any state and keeps its flags
through disconnects; the module does the same. The bodies of `DisconnectChannel`
and `Close` that take the handles out are one operator, `TakeHandles`.

### Recorder and the code

| Variable | Code |
|---|---|
| `activeRecord`, `recordings`, `maxRecordings` | the fields of that name; a recording is its id and the blocks of samples it holds |
| `files` | the directory |
| `unread` | history: the files that could not be read at the last start |
| `clock` | `time.Now()` at the resolution of file names |

Every method holds `r.mu`: one step. `StopRecording` has three outcomes: written,
failed (the session is gone, a partial file may stay), and a crash half way.
`Restart` is `NewRecorder` after a crash or an orderly exit, possibly with another
limit, with `loadExistingRecordings` and its sort and purge. It skips each file whose
`Info` fails, and lists nothing when the directory cannot be read; which files these are
is any choice. Retention ignores the errors of `os.Remove`, so of the files it purges
any may stay.

### LogHub and the code

| Variable | Code |
|---|---|
| `logs`, `listeners` | `s.logs`, `s.logListeners` |
| `last` | the number of the newest entry |
| `state`, `queue` | subscriber channels: open, taken off the list, closed; what waits in them |
| `entry`, `todo` | a `LogEvent` past its unlock: its entry and the channels still to serve |
| `notice` | a `ClearLogs` that has not logged its own notice yet |

A `select` with `default` on a channel is `Offer`; on a closed one it panics and
`crashed` says the process ended, unless the goroutine recovers.

### ConsoleHub and the code

| Variable | Code |
|---|---|
| `wsClients` | `w.wsClients` |
| `conn`, `replay` | each browser's handler: how far it is, and the entries of `RecentLogs` it still has to write |
| `held` | the entry the forwarding goroutine of `NewWebServer` is about to broadcast |
| `shown`, `since`, `dropped` | history: what a browser got, from which entry on it is owed them, what a full channel dropped |

A broadcast holds `wsMu` and is one step; the replay does not, so the two may write to
one connection at once (`Collision`), in which the library panics.

### Supervision and the code

| Variable | Code |
|---|---|
| `status` | `SupervisionStatus.Status` of each URI |
| `todo`, `pinging`, `verdict`, `ended` | the targets copied at a tick, the `Ping` under way, its result between its return and `s.mu.Lock`, the loop |
| `cancelled`, `consoleClosed`, `stuck` | `s.ctx`, the web server's closed log channel, `s.mu` locked by a check that panicked |
| `net` | OPTIONS and answers; a message whose ping has ended is stale |
| `silent` | `silentDrop` of each station |
| `replied`, `mute` | history: the station answered the last ping; it was silent all along |

### RtpSession and the code

| Variable | Code |
|---|---|
| `isTransmitting`, `current`, `remote`, `ptime`, `seq` | fields of the session; signalling is one value |
| `loop` | `txLoop` goroutines, each with a program counter |
| `rx` | `rxLoop` |
| `ctx`, `socket`, `closing` | the context, the UDP socket, and how far `Close` is |

The lock `s.mu` is released between a loop's copy of the state, its call of the
audio source, the sequence number and the write: four steps.

### PhoneCall and the code

| Variable | Code |
|---|---|
| `active`, `mode`, `call` | `phone.active`, `phone.mode`, the call with its session and recording |
| `dial`, `dialMode` | a `DialURI` that holds `phone.mu` |
| `tails` | `HangupPhone` calls past the unlock |
| `dialogs`, `live`, `open` | dialogs nobody has hung up yet, sockets, recordings in progress |
| `unacked` | history: dialogs whose ACK could not be sent |
| `echo`, `mic` | `echoBuffer`, `micBuffer`, as the calls their frames come from |

### JitterBuffer and the code

| Variable | Code |
|---|---|
| `pq`, `target`, `first` | the heap, `targetDelay`, and `started` with the first packet's number and play time |
| `count`, `next`, `flight`, `now` | the sender's numbering, packets on the network, the clock in packet times |
| `dropped`, `handed`, `played` | what Push refused, what the handler got, what PopReady returned |

Numbers are compared as the heap does, as a signed difference modulo `SeqMod`.

### GrsService, VoiceCircuit and the code

| Variable | Code |
|---|---|
| `isSessionConnected`, `rxPTTActive`, `txSQUActive`, `activePhoneCall` | fields of the GRS service |
| `isTransmitting`, `currentSQU`, `remote`, `sendPtime` | its one RTP session |
| `loops` | the send loops of that session, as the packet times they were started with |
| `ptime` | `s.ptime`: shown and offered |
| `answers`, `asleep`, `out` | auto-answer goroutines, goroutines of `CallVCS`, the station's calls without BYE |
| `link`, `asked` | the channel and a `ConnectChannel` waiting for its INVITE |
| `key`, `lastSQU`, `tail` | the channel's transmit flag, squelch lamp, unfinished disconnect |
| `phone`, `down` | the telephone; packets on their way to the channel |

The VCS end of `VoiceCircuit` is a projection of `RadioChannel` on what a station
can notice. BYEs are lost, answers of INVITEs are lost or too late, packets of the
station are lost and reordered; packets of the VCS arrive at once or are lost. A
new session of the channel has a port of its own (`allocateRTPPort`), so the
station's packets to the old one are dropped once the station knows the new one. The 80 ms
of the watchdog are no state here: a stream may pause that long at any time, and that
it does once nothing is sent is a matter of fairness.

A send loop reads the packet time of its session once, when it starts, and keeps that ticker;
an INVITE changes it for later loops only. So a loop is identified with the packet time it
has, and loops with the same one count as one: they end under the same condition.
`PtimeAgreed` is about the loops the station starts; `SendsAsAgreed` (section 5), about
those that run, is not so.

### Capture and the code

| Variable | Code |
|---|---|
| `start`, `said`, `underway` | the numbering of each sender, the header extensions it sent, packets on the network |
| `stats` | `StreamStats` of each receiver: packets received, lost, last number |
| `tape` | the packets of the capture file, each with one encoded sample for its payload; `AnalyzePCAP` is the analyzer's pass over them |

A turn of a sender's `txLoop` is `Transmit`, one of a receiver's `rxLoop` is `Arrive`. The
variables of the analyzer's loop are the record `NewReport`, its body is `Dissect`, and
`Reports` gives what they are after each packet. A span is its first and its last
packet. On the page it goes on for 50 ms after the last one, so a bar that is drawn may
reach into the next one; `SpansFaithful` is about the packets, of a capture of one stream.

### ServiceLocks and the code

| Variable | Code |
|---|---|
| `rest` | per goroutine, what is left of its operation: its waiting steps, in the order of the code |
| `owner`, `readers`, `waiting` | who has each mutex; for `s.mu` also its readers and the writers in `Lock` that keep new readers out |
| `closing`, `stalled` | sessions in `RTPSession.Close`; a browser that no longer reads, so that a write under `wsMu` does not return |
| `feed`, `copied`, `cancelled` | the console's log subscription while the web server is closed, a `LogEvent` that has copied it, `s.ctx` |

## 3. Runs

Every run below ends without an error on one complete state space, and every
property has a broken variant of the code that the run refutes. The safety properties of
all runs, invariants and action properties, are also proved for every bound (section
4); for them a run is the check that formula and bounds make sense, not the evidence.

| Run | States | Question | Bounds and why they are enough |
|---|---|---|---|
| `channel` | 73 000 | do state machine, session, recorder and disconnects agree under every overlap; does the channel implement `VoiceLink`; do transmissions, lost carriers and Close end | 2 connections, 2 recordings: an old and a new one side by side is every overlap the code can produce pairwise |
| `recorder` | 44 000 | is the catalogue backed by files through failures, crashes and restarts, also when some or all files cannot be read | 2 callers, limits configured 0, 1, 5 (in force 2, 1, 3), recordings of up to 2 blocks: below, at and above the limit |
| `log` | 229 000 | is nothing delivered twice; does a browser miss an entry between replay and live feed; is every entry shown in the end | ring 2, channel 1, 3 entries: both overflow; two loggers, one whose panics are recovered and one whose are not; one browser: browsers share only the list |
| `session` | 162 000 | are numbers unique with several send loops; does Close return | 2 send loops at once, 3 packets |
| `phone` | 108 000 | has every socket and every dialog, but one whose ACK failed, an owner who ends it; is what is received recorded in its own call; does a hung-up call lose socket, dialog and recording (the recording of a call that was never established is section 5's `MediaFailed`) | 2 calls: an old one's tail beside a new one |
| `jitter` | 172 000 | is a steady stream played complete, in order and evenly within the promised jitter | modulus 16 and starts 0 and 14, so numbers wrap; 7 packets, network delay up to 2, depth changed to below, within and above its limits; `Full` = 5 is tight, with 4 `PlayoutSteady` fails |
| `circuit` | 343 000 | does the station's squelch stay the operator's; does each send loop the station starts have the packet time of its peer; is a carrier heard and its end noticed | a packet time not configured at the station and an odd one (30) at the channel; 1 call of the station, 1 auto-answer asleep, 1 disconnect at a time, one telephone call |
| `locks` | 570 000 | can operations wait for each other in a circle | 1 channel and the telephone: all mutexes and all kinds of waiting; operations that wait like another one of the run are left out |
| `capture` | 208 000 | is every loss counted; does the timeline of one stream have the spans of its packets; is the audio what was said | 4 packets, loud and quiet ones under either law, 2 under way; starts 0 and 14 of 16, so one stream wraps; a gap of 2 is already huge; keyed, carrying, both or without an extension |
| `supervision` | 17 000 | does "online" come from an answer to the last ping; does the status follow the station | two URIs of one station, 2 messages under way: an answer to the last ping of one URI beside a stale one of either |

`MCCapture` also states, as assumptions that TLC evaluates before the run, what the
pure parts do for *every* input: all 65 536 samples come back near enough under both
laws but for one (the mu-law turns -32768 into silence), all 256 bytes stay what they
are when decoded and encoded again, and all samples survive their packing into bytes.

Deadlock is checked except in `log`, `jitter` and `capture`, which stop at the bound of
their counters (entries, clock, packets), as the code does not, and in `locks`, which
stops when the program has ended or a browser has stopped reading; there
`NoCircularWait` asks more than the absence of deadlock.

### Fairness

- `RadioChannel`: an INVITE ends with its answer, a failed ACK or its five-second context; a
  disconnect past its unlock goes on; Close goes on. The watchdog, release timers and
  the disconnects of Close wait for `ch.mu`, which Go hands over to a waiter that
  starves: strong fairness. Users, packets and voice transmissions have none.
- `RtpSession`: tickers tick, callbacks return, a read has a deadline, Close goes
  on; when the context is cancelled and a tick is there too, a select chooses either,
  and in the long run the context (strong fairness of `LoopCancelled`).
- `PhoneCall`: INVITEs end, the tail of a hang-up and the set-up of a call go on.
- `ServiceLocks` (used for `CloseTerminates` only): every goroutine goes on when it
  can, and a mutex is not withheld from one waiter for ever (strong fairness).
- `ConsoleHub`: a goroutine that is sending or forwarding goes on. Nothing is assumed
  of browsers: none has to connect, finish its replay or stay.
- `Supervision`: the ticker ticks, a ping has its 800 ms, the loop goes on. The round
  comes to every target (strong fairness of `Ping`: a round pings each of its targets),
  and of the pings that go on for ever the network carries one in time, and its answer
  (strong fairness: it loses messages but not all). Late messages go in the end.
- `VoiceCircuit`: the send loop of a session that transmits sends; an INVITE ends;
  the watchdog gets the mutex; of a stream that goes on a packet arrives in the end
  (strong fairness of the receiving action: the network loses packets but not all);
  80 ms pass without a packet only assuredly when none is sent and none is under way
  any more.
  Each conjunct was dropped in turn; without it a liveness property fails.

## 4. What is proved

Each `...Proofs` module extends the module it is about and adds nothing to its
constants: what is assumed is the module's own named `ASSUME` (bounds are naturals,
delays and limits are numbers, "no call" is not a call), and besides for two theorems of
the recorder `~SameMs`, for two of the jitter buffer `SteadyStream`, and for three of the
capture `OneStream` or `Speakable`. Every proof has the same shape: an inductive
invariant `Inv`, the property asked for with what it leans on; one lemma per
action, or group of actions that touch the same state; and a last temporal step. Each
`Inv` was checked by TLC on the instance of its run before it was proved.

| Module, for every | Theorems | Besides types, the inductive invariant holds |
|---|---|---|
| `RadioChannelProofs`: number of connections and recordings | `TypeCorrect`, `KeyIsCoherent`, `CarrierIsOwned`, `ConnectionsAreOwned`, `RecordingsAreOpen`, `TransmissionHasPriority`, `Implementation` | handles unique, squelch has its tape |
| `SupervisionProofs`: set of targets and stations, messages under way | `TypeCorrect`, `OnlineWasAnswered` | `OnePing`, `AnswerGiven`, `MuteIsSilent` |
| `PhoneCallProofs`: number of calls | `TypeCorrect`, `EveryCallOwned`, `EveryCallTapedApart` | `CallsApart`, `DialAlone` |
| `MediaProofs`: number of send loops and packets | `TypeCorrect`, `EachNumberOnce` | `NumbersLeft`, `Signalled`, `Numbered` |
| `MediaProofs`: modulus, starts, depths, network delay, packets, time | `JitterTypeCorrect`; with `SteadyStream` `StreamAbsorbed`, `StreamPlayedEvenly` | `Sender`, `Playout`, `InTime` |
| `MediaProofs`: streams, modulus, starts, headers, voice, packets, SIP messages | `CaptureTypeCorrect`, `ReceiversCount`; with `OneStream` `LossIsCounted`, `SpansAreFaithful`; with `Speakable` `AudioIsKept`; `HeaderBack`, `VoiceBack` | `FromSenders`, `Counting`, `Restored`; `Analyzed` |
| `VoiceCircuitProofs`: packet times, calls, auto-answers | `TypeCorrect`, `SquelchOfOperator`, `PacketTimesAgree` | the station's `GrsInv`, and both ends' |
| `ConsoleHubProofs`: loggers, subscribers, entries, browsers | `LogTypeCorrect`, `LogDeliversOnce`; `HubTypeCorrect`, `HubDeliversOnce`, `NoBrowserMisses` | `NotYet`, `OwnEntries`, `Queued`, `Newest`; `OneSubscriber`, `Listed` |
| `RecorderProofs`: callers, limits, samples, clock | `TypeCorrect`; with `~SameMs` `CatalogueHasFiles`, `LossIsRetention` | `FiniteDir`, `OpenApart`, `Faithful` |
| `ServiceLocksProofs`: number of channels, with any of their activities | `TypeCorrect`, `NoDeadlock` | `RestSound`, `OwnersUnlock`, `ReadersUnlock`, `WritersWait` |

**RadioChannel.** `IInv` is the conjunction of `TypeOK` and six named parts, proved
together because they lean on each other: `KeyedCoherent` needs `SessionsOwned` (a keyed
state implies a session) and `HandlesUnique` (a disconnect that closes its own session
must not close the current one). A dialog whose ACK failed (`unacked`) is open and in
nobody's hands: `HandlesUnique` keeps it apart from every handle, so that `SessionsOwned`
can say that the others have exactly one. `NoStrayCarrier` needs `KeyedCoherent`. `TapesRun`
needs `SquelchHasTape`, since releasing the key enters "receiving" on the machine's own
squelch flag, and `HandlesUnique` again. `Implementation` shows that `RadioChannel`
implements `VoiceLink` under the mapping given by `Link`, `OnAir` and the open transmit
recording: under `IInv` carrier and recording coincide (`Mapped`), so each step maps to a
step or a stutter. `TransmissionHasPriority` is the action property `PTTPriority`.

**Supervision.** That a target shown online had its last ping answered is not inductive:
the verdict comes from a message. `OnePing` says that a message that is not stale
belongs to the ping under way, `AnswerGiven` that such an answer, and a verdict "online",
means that the station replied while it was not mute, and `MuteIsSilent` that a station mute
all along is silent now. `AgedMessages` states what the end of a transaction does to
the network.

**PhoneCall.** The call numbers carry the argument: `CallsApart` (the phone's call and
every hang-up past the unlock have different calls, all answered already) and
`DialAlone` (while `DialURI` keeps `phone.mu` no call is active, and the call it was given
is the newest and nobody's). Without the first, a tail might close the new call's socket.
Both keep clear of the dialogs in `unacked`.

**RtpSession.** Numbers are unique because the increment is atomic, but the bound
on `seq` is checked when a packet is taken up: `NumbersLeft` counts the loops that will still
ask for a number, `Numbered` keeps the wire below the counter, and a loop about
to send has a number given out to it alone. The proof counts with the cardinality of a
set of loops.

**JitterBuffer.** While the sender keeps pace, a packet's play time is its sending time
and a constant (`Playout`: what the first packet took, and the target delay when it came). As
long as the network is within that promise, `InTime` holds: what is in the heap is not
past its time, what was played is, and everything handed in is in one of the two. So the
heap spans few numbers, and there the signed 16-bit difference it is ordered by is the
order of the numbers, also across the wrap (`LessIs`, `TopIsLeast`): as a whole it is
not transitive, so that in a wider heap the top need not be the least packet. A heap that
is too full spans more numbers than can still be early, so its top is due anyway (`FullIsDue`,
by an injection into an interval), and the limit of 30 never plays a packet before its time.
`SteadyStream` is what the theorems assume of the constants: the sender does not pause and
somebody polls (as in the package's test; the program itself never does, section 5), and
the longest network delay and target delay together stay below `Full` and half the modulus. In
the code that is 580 ms at 20 ms a packet, of which the target delay takes 200 at most
when it is set from the console. In the run the bound on `Full` is tight.

**Capture.** `FromSenders` says that a packet, on the network or captured, is what its
sender said in its turn. The rest of the invariant follows the loops that read packets.

- `Counting` is about a receiver: it knows the number of the packet that came last, and
  what it counted covers what is missing. When a packet arrives, the only numbers that can
  become missing lie between that one and the new one (`ArrivalCounted`), and there are as
  many as `Gap` finds, since a steady stream neither wraps nor skips too much between the two
  (`SteadyGap`). When packets arrive in order the numbers between were not missing before,
  so the sum is exact; when one comes late, the set only shrinks while the count stays.
- `Analyzed` is about the analyzer: its counters are the receiver's, and for the key and the
  carrier `Tracks` relates the open span and the timeline to the runs of packets: either the
  timeline has all the runs and each is over, or all but the last, which is the open span.
  `RunsSkip`, `RunsStart` and `RunsGrow` say what one more packet does to the set of runs.
  What closes the other kind of span, or a SIP message, goes to the same timeline and
  leaves the spans of this kind in order (`OtherShown`).
- `Restored`: the audio of a packet is at the position that its place among the RTP
  packets gives it, counted by a cardinality.

The report of a capture is a recursive function over its positions. `ReportsFollow` shows
that there is one that satisfies its definition, and `OneMore` that one more packet only adds
a value to it, by induction over a set of positions. `OneStream` is needed because the
analyzer keeps one number and one span for all streams (section 5 has what happens
with two); a receiver has a stream of its own, so `ReceiversCount` holds of any number,
and so does `AudioIsKept`. `Speakable` excludes the one sample that the mu-law encoder
turns into silence, -32768. That everything else is near enough is `VoiceBack`: by segments,
in each of which the distance of two places is a power of two (`ALawPlaces`, `ULawPlaces`),
with the inversion of the A-law's bits undone by itself (`TurnedBack`).

**VoiceCircuit.** `OfferTakenOver` is the lemma the agreement rests on: whatever is
configured, `ParseRadioSDP(BuildRadioSDP(...))` is one of the two packet times and
`SetPtime` takes it over as it is, although the four places that correct a packet
time are written separately. `SquelchIsOperators` needs the station's types only, but of
every handler: an INVITE, a delayed auto-answer and a BYE all write the one session's flags.
`PacketTimesAgree` is an action property: `SendPtimeAgreed` says that the session's packet time
is that of its peer, and `LoopsStarted` that a step which starts a loop takes it from there.

**LogHub and ConsoleHub.** `DeliveredOnce` needs that loggers past their unlock have
entries of their own (`OwnEntries`), and that what waits in a channel was logged and is
owed to it by nobody (`Queued`). `NothingMissed` joins the two ways an entry reaches a
browser. A browser registers before it copies the log, so what is logged later is
owed to it by the live feed: this holds because the console's channel is the only one of the web
server and in the list while it is open (`OneSubscriber`), because a browser is in
the web server's list from its registration to its end (`Listed`), and because the newest
entries of the ring are the last ones logged (`Newest`).

**Recorder.** The catalogue after a restart is a sort of the directory, defined as a
CHOOSE over all sorted enumerations: `SortedEnumeration` shows that there is one (the
position of a file is the number of files that go before it). `Faithful` (files say
what the catalogue says) is kept by a stop because a recording in progress has no
file yet (`OpenApart`). That needs `~SameMs`, no caller opens two recordings within a
millisecond: otherwise they share a file, which is one of the disagreements of section
5. `RetainFacts` says what retention does whichever files it fails to remove, and
`ReadableFacts` what the files that could be read leave of the directory. With them,
`LossIsRetention` holds of every step, a restart with another limit included: an entry goes
when the catalogue is full, or because its file, which is still there as it was, was among
the unread ones. That the catalogue keeps to its limit is part of `TypeOK`.

**ServiceLocks.** The argument is a rank. Whoever has locked a mutex unlocks it before
it waits for another or for a goroutine, so those who wait for a mutex other than `s.mu`
wait for somebody who does not (rank 0); readers of `s.mu` may wait for such mutexes, but for nothing
else, so its writers have rank 1, and those who want to read it rank 2; a `Close` or the shutdown waits for goroutines that
never wait for another (rank 3). Everybody waits for a lower rank only, so a set of waiting
goroutines has one of least rank, and what it waits for is not in the set. That the code
is so is a matter of the sequences of steps each operation is made of (`Sound`, `Free`),
carried through a run as a property of what every goroutine still has to do. The theorem
covers any set of channels; of each kind of activity there is one per channel, as in the
module.

Operations there are built by flattening a sequence of sequences over all channels.
The library's induction theorems take an operator and cannot be used here; the
induction is done instead over a set of numbers, from the least element of its complement
(`Least`, `Induction`, from `WFMin`).

**Only model-checked**: all liveness properties (the prover has no rule for
fairness here), and of `G711` that bytes survive decoding and encoding and samples their
packing into bytes, which TLC evaluates for every byte and every sample, so that a
proof would add nothing.

## 5. Disagreements between the code and what it says

Two of them, the ones that lose a recording and end the process, have a run that shows a
shortest trace.

| Run | What happens |
|---|---|
| `orphan_recording` | packets between the unlock of a disconnect and the close of its session open recordings whose id is overwritten: never saved (`vcs/service.go:584`) |
| `send_after_unsubscribe` | `LogEvent` sends on a channel that unsubscribe closed meanwhile: a panic, in a receive loop the end of the process (`vcs/service.go:242`) |

### Further disagreements

These have a definition that states the claim, at the end of its module, which TLC
refutes when it is put in the configuration named; they are not among the runs.

| Module, definition | What happens |
|---|---|
| `RadioChannel` `ReceivingHasCarrier` | `PTTUp` trusts a squelch flag that a lost carrier did not clear during the transmission: "receiving" with no carrier, and a recording that runs until the next packet (`channel/fsm.go:146`, "PTT released, Squelch still active") |
| `RadioChannel` `TimerReleasesItsOwn` (action property) | the goroutine of a voice transmission calls StopPTT after 11 s whatever is on the air by then, also the next transmission (`vcs/service.go:499`) |
| `RadioChannel` `EverySquelchRecorded` | a carrier that starts during a transmission is not recorded before the key is released (`vcs/service.go:582`) |
| `RadioChannel` `EveryDialogHeld`, `PhoneCall` `EveryDialogHeld` | the 200 OK has come but the ACK cannot be sent: `Call` returns an error without a handle, the station is in a call nobody can hang up (`sip/dialog.go:161`, `vcs/service.go:327`, `667`; "establishes SIP dialog", "tears down the SIP call") |
| `Recorder` `StorageBounded` | a failed write leaves a file that is in no catalogue before the next start, and retention counts entries: more files than the limit ("FIFO retention, ~480MB max budget", `README.md:107`; `media/recorder.go:267`) |
| `Recorder` `OldestPurged` (action property) | the catalogue is ordered by the end of recordings, so retention may purge one that is newer by its start (`media/recorder.go:283`) |
| `Recorder` `CatalogueBacked` with `SameMs = TRUE` | two recordings of one caller within a millisecond share a file (`media/recorder.go:262`) |
| `RtpSession` `StopTxCeases` (action property) | StopTx and StartTx within a packet time leave the old loop sending beside the new one (`media/rtp_session.go:207`) |
| `RtpSession` `TransmittingHasLoop` | a loop that finds no remote address ends; the flag stays up and nothing restarts it (`media/rtp_session.go:274`) |
| `RtpSession` `PtimeInForce` with `Ptimes = {10, 20}` (action property) | a running loop keeps its ticker when the packet time changes (`media/rtp_session.go:164`) |
| `PhoneCall` `EchoGoesBack` | what was received in one call is echoed into the next (`vcs/service.go:696`) |
| `PhoneCall` `MicIsLive` | microphone frames of one call are sent into the next (`vcs/service.go:723`) |
| `PhoneCall`, the step `MediaFailed` | the recording of a call whose RTP set-up fails stays open (`vcs/service.go:681`) |
| `JitterBuffer` `HandedInOrder` with `Player = FALSE` | the jitter buffer is filled and never emptied: packets are played and recorded as they arrive (`media/rtp_session.go:409`; "Reorders out-of-sequence packets", `docs/architecture.md:90`) |
| `JitterBuffer` `JitterAbsorbed` with `Pauses = TRUE` | the playout base is set once; after a pause of the sender every packet is too late (`media/jitter_buffer.go:118`) |
| `JitterBuffer` `DepthFollows` (action property) | a changed depth does not move the playout base (`media/jitter_buffer.go:102`) |
| `JitterBuffer` `BufferBounded` with `Player = FALSE`, `Full = 2` | without a player the heap grows without a limit (`media/jitter_buffer.go:127`) |
| `VoiceCircuit` `SendsAsAgreed` | a telephone INVITE sets the packet time of the station's one session, and a send loop that is running keeps its ticker: the new peer gets the old packet time (`media/rtp_session.go:242-246`; "SetPtime updates packetization time (10ms or 20ms)") |
| `VoiceCircuit` `SquelchOnSends` | the console shows "SQUELCH: ON (Transmitting)" after a BYE, or before the first INVITE, while nothing is sent (`grs/service.go:424`) |
| `VoiceCircuit` `StandbyHasNoCall` | "STANDBY (No SIP Call)" while a call is up: the BYE of another call, or the timer of `CallVCS`, cleared the flag (`grs/service.go:243`) |
| `VoiceCircuit` `LampIsCurrent` | the station's PTT indicator stays on after the first key press: no packet says the key was released (`grs/service.go:340`; `docs/manual.ja.md:432`) |
| `ConsoleHub` `ConnectIsHarmless` | a browser that connects while something is logged or heard: its replay and a broadcast write to the connection at once, and the library panics, in the handler or in the broadcaster, whose panic ends the process (`vcs/web.go:243`) |
| `Supervision` `OfflineWhileRunning` (action property) | Close cancels the ping under way and those left in the round, and each target is logged as "went OFFLINE (Ping failed)" (`vcs/service.go:961`) |
| `Capture` `LossAcrossWrap` | packets lost where the 16-bit number wraps are not counted (`media/stats.go:87`) |
| `Capture` `LateIsNotLost` | a packet that only comes late was counted as lost, and its successor is counted again (`media/stats.go:88`) |
| `Capture` `LossCounted` and `SpansFaithful` with `Streams <- MCBothWays` | the analyzer keeps one number and one span for all streams of a capture: with both directions in it, it counts losses that are none, and packets of one direction end the spans of the other (`pcap/analyzer.go:182-249`) |
| `ServiceLocks` `CloseTerminates` under `FairSpec`, `Activities <- MCAtTheEnd`, `Stalls = FALSE` | a supervision check that panics in `LogEvent` while the web server is closed is recovered with `s.mu` locked and not deferred: the watchdog waits for ever, and so does Close (`vcs/service.go:957-989`); with `Stalls = TRUE` a browser that stops reading keeps `wsMu` and stops `WebServer.Close` (`vcs/web.go:175`) |

Noted without a definition: targets are pinged every three seconds, the manual says five
(`vcs/service.go:896`, `docs/manual.ja.md:297`); the OPTIONS counter of a station counts
requests it then drops (`sip/dialog.go:291`); `VCSConfig.AddChannel`, the only place that
gives a channel the default packet time, has no caller; a directory that cannot be read
at the start gives an empty catalogue without a word (`media/recorder.go:123-126`).

## 6. Not modelled

- Waveforms: prompts and tones are floating point; audio is only where it came from.
- HTTP and HTML of the consoles, file and environment parsing, the version.
- The SIP library: retransmissions and transactions are "answered, late or lost".
- Injected packet loss and jitter: they make a packet late or lost, which the network
  of the models does anyway.
- The microphone buffer of a channel: it keeps what was said in an earlier transmission,
  as the telephone's does, which `PhoneCall` models with the same `FeedMicAudio`.
- The station's loopback queue, its audio sources, event ring and audio push to its
  console: a list that is cut at its limit and read by one loop, without an effect on
  what the station promises the VCS.
- Channel updates in the configuration (`AddChannel`, `UpdateChannelURI`): no caller
  outside tests. The RTP port counter: it would take some 27 000 connects to overflow.
- Listeners of the state machine (a test registers the only one) and `Reset` of the
  jitter buffer (no caller).
- The `fresh` flag of `RadioChannel` stands for a time stamp; other clocks are left out where a step
  may take any time.

## 7. Plan

No safety property of a run is without a proof. What would come next is width: the
channel's microphone buffer and voice prompts as sources of `RadioChannel`'s
transmissions, the jitter estimate of the statistics, and `NoCircularWait` for a console
with several browsers.
