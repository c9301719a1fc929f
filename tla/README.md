# ARDOS Guardian in TLA+

Guardian carries mail between amateur-radio stations: a station announces a
message to the next hop, both agree on a working channel and a modem, the
payload crosses, the receiver files it and either shows it or passes it on, and
the destination's receipt travels back. Nothing is reliable: frames are lost,
overheard, delayed by a busy transmitter and repeated; operators cancel,
reconfigure and restart their stations at any moment.

This directory holds a model of that behaviour, the runs that check it with TLC
on small nets, and proofs, checked by TLAPS, that hold for every net. File names
below are relative to `src/guardian/`.

## 1. Inventory

| Component | State | Operations | What is hard | What makes it correct |
|---|---|---|---|---|
| Session orchestrator `session/orchestrator.py` | one `Message` per message id: direction, state, next and previous hop, failed hops, offers, transport, profile, counters | handlers of 20 frame types, 12 timers, `send_message`, `cancel`, payload completions | two ends advance by lossy frames; timers race answers; the same message comes back; relay leg replaces inbound session | no copy is orphaned; DELIVERED is true; the ends start the same modem; every session ends |
| Radio dial `operations.py`, `radio/scanner.py` | the channel a session found, the channel a sweep found, the scanner's home, pending tunings | working channels, route frequencies, sweep of an alert, scanner | three users on several threads, none asks for the others; any command may fail | the radio finds back to the calling channel; a payload keeps its channel |
| Station operations `operations.py` | mail workers in flight, delivery attempts, beacon and sweep clocks | `send_queued`, automatic sweep, session events filed into mail, settings | the sweep waits for idle sessions; a crash loses sessions but not mail | mail never says Sending without a session; waiting mail is sent once its hop is heard |
| Control transport `session/transport.py`, `modem/audio.py` | frames admitted, deferred and suspended; inbox | `send`, `discard_deferred_message`, `suspend`, `start`, `stop` | one thread per frame, completions on foreign threads, equal frames merged, held frames resumed while they are withdrawn | nothing of it is on the air while a payload has the sound card; each caller is told once |
| Route discovery `routing/discovery.py` | queries, breadcrumbs, learned and derived routes, approvals, airtime budget, link adverts | RREQ/RREP, rings, adverts, approve, configure, tick | better breadcrumb replaces older one while replies return; evidence of several stations ages; every rebuild meets approvals | the reply path has no loop; a settled route leads to the target; a derived route lives no longer than its evidence |
| Route tables `routing/*.py` | heard stations, configured routes, topology | lookups, CSV | evidence ages between two lookups | a wildcard is never used as a callsign |
| Message store `message/store.py` | index and bundles on disk, id counter | add, file, status, delete, recover | failed saves; dying between two writes; repeated requests; two sources of one message | nothing reported as stored is lost; two messages never share an id |
| Alert flooding `session/orchestrator.py`, `protocol/alerts.py` | seen set, queue of due frames, counter | raise, relay, tick, reopen | repeats, hop limit, no acknowledgement, ids from a volatile counter | whoever hears an alert shows it; the flood ends |
| VARA payload `payload/vara_p2p.py`, `vara/client.py` | transfer lock, readiness, retained continuation, RF state | send, receive, cancel, shut down, probe of the radio | the RF tail outlasts the transfer; restart of the channel meanwhile | one transfer at a time; control gets the radio back |
| OFDM and ARDOP payload `ofdm/link.py`, `payload/ofdm_vhf.py`, `payload/ardop.py` | window, burst ids, bitmaps, held blocks | windows, microbursts, POLL, linger | lost or late answers, a last ACK nobody hears | success is delivery; both ends come to an end |
| Multi-radio `multi_radio.py` | pending receipt, relay hand-off | accept, flush | one slot for a receipt | a receipt is not lost |
| Server path `ardos_cz/*` | worker, per-message server state | send, poll, reconcile, tick | accepted but the answer is lost; writes that fail; restarts | one of radio and server carries the message |
| Worker pool, events `services/*` | active names, closed flag | submit, finish, close | close against submit and completion | one name is in flight once |
| Station lab `operations.py`, `station_lab.py` | calibration session, two workers, turn | offer, accept, sweep, report, cancel | channel shut while the other speaks; stale workers | both ends mean the same by COMPLETE; no mutual wait |
| Warships `warships/*` | a game per station, history of answers | invite, place, fire, resign, pause, resume | repeated turns, answers overtaking reports | not both attack; WON is deserved |
| Guard mesh `guard_mesh*.py` | one request in flight | request, reply | | not a concurrent protocol |
| Signal processing, radio drivers, user interface, installation | | | | not state machines worth checking here |

`PROJECT.json` lists all of them with what is and is not modelled, and the
hazards with the line where each one bites.

The components meet in one process and, mostly, on one thread: `Operations.tick`
pumps the received frames into `Orchestrator._on_frame`, then calls
`Orchestrator.tick`; session events come back to `Operations._session_event`,
which files the mail. The exceptions, which the model keeps as separate steps,
are the transmitter (one thread per frame, `modem/audio.py:1029`), whose
completion callbacks write session fields, the payload threads, the workers of the server
path and of Auto Tune, and the operator.

## 2. Modules

| Module | What it is |
|---|---|
| `Orchestrator` | The mail session of every station, end to end: sessions, transmit queues, inboxes, mail folders, the channel. One action per frame handler, timer, operator command, payload completion and transmitter step. |
| `Custody` | What a net of such stations promises about one message: who holds it, who still tries, who reports it delivered. |
| `OrchestratorProofs` | Invariants of `Orchestrator`, the proof that it implements `Custody`, and what that implies. |
| `MCOrchestrator`, `MCDirected` | The nets TLC explores, for three configurations each; those of `MCDirected` meet the hypotheses under which the theorems about ownership, the hop limit and the hand-off hold. |
| `Discovery`, `DiscoveryProofs` | One multi-hop route query over a net of stations: rings, breadcrumbs, replies, learned routes; and its proofs for every net. |
| `LiveRoutes` | What one station knows of the ways to one destination: learned routes, routes derived from link adverts, approvals. |
| `Routing` | `Discovery` with an instance of `LiveRoutes`, and what is asked of both; its proofs are in `DiscoveryProofs`. |
| `MCDiscovery` | Two nets for a query, three for live routes; one configuration. |
| `MailStore`, `MailStoreProofs` | The mailbox of one station on disk and in memory, with those who rely on it; one configuration uses it directly. |
| `TunedRadio` | Who tunes the one radio of a station: sessions, the sweep of an alert, the scanner. |
| `SharedState` | `MailStore` with an instance of `TunedRadio`, what the threads of a station share, and what is asked of the radio; its proofs are in `MailStoreProofs`. |
| `MCStation` | Values for `SharedState`; two configurations use it. |
| `OfdmLink`, `OfdmLinkProofs` | The selective-repeat link of one payload. |
| `PayloadHandoff`, `PayloadHandoffProofs` | Who has the radio: the control channel or one of the payload threads, across stops of the channel. |
| `ServerPath`, `ServerPathProofs` | One message between the server and the radio. |
| `AlertFlood` | Alerts over a net of stations. |
| `StationLab` | Auto Tune of two stations. |
| `Warships`, `WarshipsProofs` | The game of two stations. |
| `AudioControl` | The transmit queue of one station, frame by frame. |
| `Services` | The seven components from `OfdmLink` to `AudioControl` as parts of one station, and what is asked of them. |
| `StationProofs` | Proofs about `Services`: of `AudioControl`, `StationLab` and `AlertFlood` directly, of `OfdmLink`, `ServerPath` and `Warships` by instantiating their proof modules. |
| `MCServices` | Values for `Services`; two configurations use it. |

`Discovery` is what the action of `Orchestrator` that receives a discovery result
abstracts: there the engine answers with any hop it may have found, or fails. `MailStore` is what
the folders of `Orchestrator` abstract: there a message that is filed is filed, and
survives a restart, which `NothingIsLost` justifies. `AudioControl` is what its
transmit queue abstracts: there any queued frame may go out in any order, be
withdrawn or stay. `OfdmLink` is what its payload abstracts (it completes at either
end, fails or stays: `SuccessIsDelivery` says that success at the sender means
delivery), and `PayloadHandoff` says that in between the control channel is silent
and comes back. `ServerPath` stands before the session: it decides whether there is
one. `TunedRadio` is beside it: whether the frames and the payload that `Orchestrator` lets
go out are on the channel the other station listens on.

### 2.1 How `Orchestrator` reads the code

One message, identified by its id, is followed through a net. `Station`, `Link`
(who can hear whom), `Evidence` (the next hops `_resolve_next_hop` may produce at
a station, which change from one look to the next), `Backup`, `Relay`,
`AutoRoute`, `Discovery`, `Busy` and `Profiles` (the G2 profile a station may be
configured with) describe it.

| Variable | Code |
|---|---|
| `sess[s]` | `Orchestrator.sessions[msg_id]`, or `NoSession` |
| `txq[s]` | unguarded frames handed to `AudioControlTransport.send` and not yet admitted to PTT (guarded requests are a field of the session, because their completion writes it) |
| `inbox[s]` | frames decoded but not yet pumped into `_on_frame` |
| `mail[s]` | folder, status, path and hop limit of the stored message |
| `learned[s]` | `learned_paths`: the hop that last confirmed to the station |
| `receiptSeen` | stations with the message in `_seen_delivery_receipts` |
| `profile[s]` | the configured payload profile |
| `late` | history: what receptions that were given up have reported into later sessions |
| `sends`, `configs`, `restarts` | counters that bound sends, changes of profile and restarts |

Handlers carry the name of the method: `RxHaveMsg`, `RxAck`, `RxWorkingOffer`,
`RxG2ProfileAck`, `RxReceived`, `RxDelivered` and so on; the timers of `tick` are
`StartTimeout`, `ReceiptTimeout`, `AckedTimeout` ... A handler is an operator from
the state before to the record of what it does (the new session, the frames it
sends, the mail it files), so that a whole call, `_send`, `_enter`, `_emit`, the
filing of the event and the relay it triggers included, is one step. `Receive`
and `Tick` dispatch to them as `_on_frame` and `tick` do.

The interleavings the model keeps:

- a frame leaves the transmit queue in any order, is withdrawn, is lost, or is
  heard by any subset of the stations in range;
- a guarded request (`START_VARA`, offers, announcements) completes in steps of
  its own, because the callback runs on the transmitter's thread;
- timers fire at any time at which the code lets them: the clock is left out, so
  a property never depends on a timer being long enough;
- a payload transfer may complete at either end, fail at either end, or stay;
- a reception outlives the session it began for (`left`): its backend goes on until it
  next looks at the cancellation, which the beginning of another reception clears
  (`ofdm_vhf.py:1152`), and what it reports is taken for the inbound session that
  then has the id (`orchestrator.py:803`): `LateFails`, `LateCompletes`;
- a station restarts between any two steps: sessions, queues and receipts seen are
  gone, mail is not;
- routes appear, age and disappear between two looks.

Left out of this module: alerts (`AlertFlood`), beacons and discovery frames (the
discovery engine answers nondeterministically), the multi-radio hand-off and the
server path (`ServerPath`),
the compression worker before an announcement, the suspension of control frames
during a payload (the model lets any queued frame go or stay, which includes it),
deletion of mail by the operator, and the bench entry points.

### 2.2 `Custody`

`holders` are the stations with the message in some folder, `owners` those whose
copy waits to be sent and the destination that shows it, `told` those that report
the delivery. A station accepts the message from another holder; a station that
tries releases its copy (files it under Sent) while another station holds one;
reports change, but a new one is only made once the destination has the message.
`OrchestratorProofs` shows that in it, and so in every behaviour of the stations, the
author's copy is never dropped, the author goes on trying
while nobody else has the message, and reports are and stay true.
`Orchestrator` implements it (`ImplementsCustody`): the mapping (`Owners`, `Told`)
reads the folders and statuses of the mail.

### 2.3 How `Discovery` reads the code

The module follows one query, identified by origin and query id, through the
engines (`routing/discovery.py`) of all stations.

| Variable | Code |
|---|---|
| `crumb[s]` | the `Breadcrumb` of the query in `breadcrumbs`, or `NoCrumb` |
| `sched[s]` | the frames of the query in `_scheduled` |
| `air` | frames that a station hears and has not yet passed to `receive` |
| `query` | the origin's `PendingQuery`, and how it ended |
| `routes[s][n]` | `metric` of the route to the target via `n` in the route store, 0 for none |
| `mode[s]` | the normalized discovery mode |
| `forgot` | history: stations that have lost a breadcrumb of this query |

`Start`, `Expand`, `GiveUp` and `Settle` are `start` and the cases of `tick`;
`Receive` is `receive`, with `ReceiveRreq` for a query and `Arrive` and the last
disjunct for a reply at the origin and at a relay; `Transmit` sends a frame whose
jitter has passed; `Expire` is `_prune`, `Reopen` the hand-over to a new engine
(`retain_observations`), `SwitchOff` and `SwitchOn` are `configure`.

The clock is left out, so a property never rests on a timeout: any frame may be
late by any time, and a ring may end while its replies are on their way.
Breadcrumbs may expire in the middle of a query: the query timeout is
stretched with the airtime of the modem (`operations.py:383`), to four rings of
two minutes and more, and the payload suspends it, while `DISCOVERY_MEMORY` stays
three minutes. A frame is heard by any subset of the stations in range, none of
them included; a frame refused by the airtime budget is heard by none.

Left out: replies on behalf of a second local radio (`bridge_reachable`), the
forwarding switch, and several queries that compete for the airtime budget. Allow
and deny lists are missing links.

`LiveRoutes` is the other half of the engine, at one station and for one
destination. `link` is `live_topology`, with the time each entry has left; `known` is
the route store, keyed by source and first hop; `asked` is the query, `setup` the
settings. `HearAdvert` is `_receive_link_advert`, `Advertise` is `advertise_neighbors`,
and both end in `_rebuild_live_routes` (`Rebuild`: `derive_routes` and
`replace_source`), which is also what `PruneLinks` does. `Learned` is `learn`, called
by a reply at the origin (`Reply`) and at a relay (`RelayReply`); `Approved`, `Synced`,
`Success` and `Failure` are `approve`, `_sync_auto_approvals`, `mark_success` and
`mark_failure`; `Configure` and `Reopen` are `configure` and `retain_observations`. A
route with no time left is kept for the eyes only, as in the code. Which of several
confirmed ways through one hop is the best is left open. Left out are the relaying
and pausing of adverts and the table of those seen.

### 2.4 How `MailStore` reads the code

One mailbox, `message/store.py`: `index` and `counter` are the attributes of
`MessageStore`, `disk` is `index.json`, `file` says which bundle each id has. Ids of
messages written here are numbers, the counter without the station's prefix; the
rest, `Foreign`, were written elsewhere. An entry keeps what later calls look at:
the folder, the token of the request that made it (`remote_request`), and whether
the server has a word in it (`server_path`). Bundles are compared by content, not
by bytes, as `inspect_bundle` does.

Every method holds the store's lock, so a call is one action, with one disjunct for
success and one for each way it can be cut short: a write fails, and the call takes
its change back or does not, as the code has it; or the program dies after the
bundle or before the index is written (`Load`). Only `queue_remote_text` saves
twice under one lock, and the compose window takes its id in one call and uses it
in another (`qt/mail_workspace.py:299`), so these are two actions each.

| Action | Code |
|---|---|
| `Compose`, `Add` | `next_id` and `add` as the compose window calls them |
| `Repeat`, `Request`, `Queue` | `queue_remote_text` for a known token, for a new one, and its second half |
| `StoreIncoming` | `store_incoming`, for copies from the radio in any content |
| `ImportKnown`, `ImportNew`, `ImportFails` | `import_server` and the acknowledgement after it (`ardos_cz/service.py:274`), whose answer may be lost |
| `SetStatus`, `ServerPath` | `set_status`, `mark_sent`, `mark_read`; `server_path` |
| `Delete`, `Clear`, `Restart` | the same; a restart is `load` |

The history variables are what others were told: `kept` (the caller heard that the
message is stored, and the operator has not deleted it), `acked` (what the server
heard), `answered` (what a request heard), `taken` (ids given out).

Assumed: the index can be read back. It is replaced atomically, so a crash cannot
spoil it; if it is spoilt otherwise, `load` starts with an empty index and counter
and none of the promises hold. The bound on ids is far below the 20 bits at which
the counter wraps.

### 2.5 How the other modules read the code

**`OfdmLink`** (`ofdm/link.py`, `ofdm/framing.py`). One message of `N` blocks, in one of
the three ways a link may work: batches of a window answered one by one, trains of
microbursts of which the last is answered, and block by block. `StartWindow` to
`SenderStops` are the stages of `send_message`, `HearData` to `ReceiverGivesUp` those
of `receive_message` and `_linger_bitmap`; `toR` and `toS` are the bursts on the air, in
their order, since either radio sends one at a time. Burst numbers are the blocks they begin
with, so that a late answer to an earlier part of the same window is one the sender
takes (`_await_bitmap`). A `patient` link is one whose time-outs outlast what they wait
for; on an impatient one they may fire at any time. The rate only shows as the size of
windows and batches, both free.

**`PayloadHandoff`** (`payload/vara_p2p.py`, `operations.py`, `vara/client.py`). Each
transfer is a thread (`pc`): it waits for its turn and the lock, suspends the control
channel, works, unwinds, waits for VARA's radio to fall silent, and gives the channel
back or, if the tail is too long, retains a continuation that a worker of the
operations layer runs later (`Probe`, `HandOver`, `Noticed`). `Stop`, `ShutDown`,
`Start`, `Restart` and `Close` are the operator's, each with a new backend where the code
makes one. One delay is relied on, `Drained`: the operations layer takes up what its
worker found within the half minute a disconnect may last.

**`ServerPath`** (`ardos_cz/service.py`, `multi_radio.py`, `operations.py`). One message, own or
relayed. `disk` is what `server_path`, the status and `pending_receipt` say, `run` what
the program knows and loses in a `Crash`, with the worker at its place (`at`) between
two writes; a write may fail. A tick is composed of its stages (`Drained`, `Receipts`,
`FellBack`, `Resent`, `Connected`) as functions of the state. The server is external:
it takes the message at most once and answers, or does not.

**`AlertFlood`** (`session/orchestrator.py`). `seen`, `queue` and `counter` of every station;
`SendAlert`, `Transmit` (with `_rx_alert` of those who hear it), `Forget`, `Reopen` (a new
`Orchestrator`). The clock is left out: anything may be forgotten at any time.

**`Warships`** (`warships/model.py`, `warships/service.py`). `game` is the `Game` of each
station with its pending events and remembered answers; `Receive` is `receive`, with one
operator for each kind of event; `Transmit`, `Sent`, `TxDone` and `Expire` are the queue of the
service: the report that a frame was sent may come after its answer.

**`StationLab`** (`operations.py`, Quick Tune). `lab` is the state of the calibration,
`tx` and `rx` the two workers by the place they are at, `net` the frames on their way. The
channel of a station is shut while it plays or listens, so that it misses what is sent
to it (`Miss`). A worker keeps the number of the calibration it was started for; its
end is taken for the current one only where the code compares them.

**`AudioControl`** (`modem/audio.py`). `place` says for each frame where it is, from the caller
over the held list or its own thread to the air and to its completion. `Send`, `Key`,
`GiveUp`, `EndAir`, `Complete` follow a frame; `Discard`, `Stop`, `Suspend`, `NotDrained`,
`Drained`, `Resume`, `SendAgain` and `Resumed` are the other callers, in the steps between
which the code holds no lock. The address of a frame that was dropped is taken not to be
reused.

**`TunedRadio`** (`operations.py`, `radio/scanner.py`, `payload/vara_p2p.py`). A channel is
a frequency with its mode. `previous` is `_qsy_previous`, `sweep` the worker `alert-sweep` with
the channel it read, `scanner` is `_scanner_home`, `tasks` the pending `scanner-tune` and
`scanner-home`; `thread` is the place of the payload thread of each session. `split` says
whether the station uses working channels: then both ends move after START (`Qsy`), else the
sender moves to the route's frequency before it announces (`Send`). `Retune` and `Forget` are
the two halves of `_qsy_restore`, since `_qsy_previous` is cleared after the lock was released, by
the thread of the user interface or by that of a payload. Every command may fail: before the
channel was read, before it was set, or after (`MoveFails`), and so may a return (`lost`).
`crossed` (`Crossing`) says that two of the three had the radio at once, that a session moved it
between the halves of another's return, or that one returned or moved it under another's
payload, none of which the code excludes.
The channel shown by the last poll is taken for the current one; the gap two stations
agree on for slow keying is left out.

## 3. What the runs check

| Run | Net and bounds | Properties |
|---|---|---|
| `chain` | a - r - d, one announcement per hop, one query for a lost confirmation, two sends, one restart | `CustodyTruth`, `SomeoneResponsible`, `HopBudget` |
| `pair` | two stations with profiles from {none, G1T1, G1T2, A500} and one change of profile, both may cancel (here only), receiver may be busy, a working channel that is offered, fails or is not supported, and is accepted, two announcements, two offers, two sends, assisted discovery at the origin | `ListenersHearTheirModem`, `NoOrphanSending`, `SettledHandoff` |
| `routes` | a - r - d with routes that come and go, evidence at every station that may be missing at any look, backup ANY and automatic discovery at the origin; one send, no restart | `DeliveryTruth`, `ImplementsCustody`, `OpenSessionIsKept`, `SessionsEnd` (liveness) |
| `transit_stuck` | a - r - d, the relay does not relay automatically | `WaitingMailIsSent`: violated |
| `payload_back` | `routes` with discovery at the relay too, assisted at the origin, and a relay that may be busy | `NoPayloadBack`: violated |
| `stale_ack` | `pair` with one change of profile | `HandoffAgrees`: violated |
| `flood` | a query on o - p - q - t with a short cut o - q, rings of 2 and 4, p may be switched off and on; or on o - q - t with an echo p that may lose its breadcrumb or be reopened, o, p and q switched off and on; or live routes on a line o - p - t with replies over p, on a triangle, and on a way with a bypass, evidence lasting two steps of the clock | `RepliesComeHome`, `RingBoundsRoutes`, `BreadcrumbsLeadBack`, `RoutesAreProven`, `EchoesEnd`, `QueriesEnd` (liveness), `LiveRoutesAreCurrent`, `ApprovalsStand` |
| `mailbox` | one message from elsewhere in two versions, two ids to give out, one token, outbox and inbox; or one radio, three channels, a message each way, one sweep or scan, one failed command, with and without working channels | `PromisesKept`, `AckedIsSafe`, `FailuresLeaveNoTrace`, `RequestsQueuedOnce`, `IdsAreNew`; `AloneItIsReturned` |
| `services` | seven parts, one per behaviour. Link: three blocks, windows of two, trains of single blocks, one retry, two losses. Hand-over: two transfers, one stop or restart. Server: two crashes, failed writes or changes of the connection. Game: two cells, one ship each, two attempts, one fault. Alerts: a chain of three whose ends send two alerts in two copies, hop limit two, one channel opened anew. Auto Tune: two calibrations, one station trusting, two attempts, one mishap. Transmit queue: two equal announcements, a shot and an identifier | `SuccessIsDelivery`, `FailureIsExplained`, `LinkEnds`; `OneTransferAtATime`, `RetainedStaysQuiet`, `RadioComesBack`; `OneWayAtATime`, `RelayMovesOn`, `ReceiptIsGiven`; `FairPlay`; `HeardIsShown`, `AlertsEnd`; `CompletionIsMutual`, `NoMutualWait`; `PayloadHasTheCard`, `EveryCallerIsTold` |
| `import_retried` | one message the server may hold | `ImportIsRetried` (liveness): violated |
| `payload_moved` | the radio of `mailbox`, where a message is heard and an alert is swept and nothing else | `PayloadKeepsItsChannel`: violated |
| `alert_lost` | the alerts of `services` | `NewAlertsComeThrough`: violated |

- `CustodyTruth`: whoever filed its copy under Sent as relayed left one with the
  hop it sent it to.
- `SomeoneResponsible`: as long as the message is not in the destination's inbox
  somebody holds it in a folder it is sent from, after a crash too.
- `HopBudget`: the units of the hop limit spent are at least the hops travelled.
- `DeliveryTruth`: whoever shows DELIVERED is right. These (but for `HopBudget`) and
  `OpenSessionIsKept` hold as long as `Prompt` does: until a reception that was given up
  confirms a session that has stored nothing (see below).
- `HandoffAgrees`: when one end transfers and the other receives, transport,
  profile and channel agree; `SettledHandoff`: so they do unless a profile was changed or
  a reception that was given up has reported.
- `ListenersHearTheirModem`: whoever listens for VARA is not played another modem, as long as
  at most one operator changed a profile and no reception that was given up has reported.
- `NoOrphanSending`: mail shown as Sending has a session at work, but for a restart (then
  `SomeoneResponsible` says that it is still where it will be sent from).
- `OpenSessionIsKept`: no announcement replaces a session at work.
- `SessionsEnd`: every session comes to an end or waits for the operator.
- `BreadcrumbsLeadBack`: every breadcrumb points to a station nearer to the origin,
  so that they form no loop.
- `RepliesComeHome`: a reply has hop limit left for the breadcrumbs before it,
  although these were replaced after the target had counted.
- `RoutesAreProven`: the first hop of a learned route was heard both ways, and that
  neighbour is the target or has a route to it.
- `RingBoundsRoutes`: a route found is not longer than the ring that found it.
- `EchoesEnd`, `QueriesEnd`: the flood dies out and the query ends.
- `LiveRoutesAreCurrent`: a derived route has no more time left than every link of some
  way through its hop, whatever is heard again, forgotten, cleared or switched off.
- `ApprovalsStand`: what the operator approved stays so through adverts, replies, settings
  and a new engine, with the exceptions it lists; automatic approvals do not outlast
  automatic use.
- `PromisesKept`: what was reported as stored is on disk, listed and with its bundle,
  until the operator deletes it.
- `AckedIsSafe`: the bundle the server was told is stored stays what it is.
- `FailuresLeaveNoTrace`: memory lists what the disk lists, but for changes of status
  and a clearing that could not be saved.
- `RequestsQueuedOnce`: while the message of a request is kept, its token is answered
  with that message.
- `IdsAreNew`: no id is given out twice.
- `SuccessIsDelivery`, `FailureIsExplained`, `LinkEnds`: a sender that reports success is
  right; one that fails on a patient link has lost more than its retries, or the answers to
  a message that arrived; both ends come to an end.
- `OneTransferAtATime`: no two transfers of one backend have the radio, the tail of the
  first included. `RetainedStaysQuiet`: nothing of a backend that was shut down is run.
  `RadioComesBack`: control resumes unless the operator stops the channel.
- `OneWayAtATime`: a message goes by radio only if the server does not have it or left
  the station in doubt for 90 seconds. `RelayMovesOn`, `ReceiptIsGiven`: relayed mail
  moves on by one of the ways, and a receipt owed is handed to a radio, across restarts.
- `FairPlay` (`TurnsAgree` and `VerdictsAreTrue`): never both have the attack; WON is deserved, and what
  is marked on the other's board is so.
- `HeardIsShown`, `AlertsEnd`: whoever hears an alert shows it while channels stay open, and
  the flood ends. `NewAlertsComeThrough`: the same across openings.
- `CompletionIsMutual`, `NoMutualWait`: COMPLETE means that both sweeps were reported on; the
  two do not wait for each other for ever, unless both meant to play at once.
- `PayloadHasTheCard`, `EveryCallerIsTold`: nothing of control is on the air while a payload
  has the card; each callback is called once, with the truth.
- `AloneItIsReturned`: whoever moved the radio knows the way back (`HomeIsRemembered`), and a
  payload is carried on the channel its session went to (`PayloadKeepsItsChannel`), through
  every failure but that of a return, as long as one has the radio at a time.
- `ImportIsRetried`: what the server holds is imported and acknowledged in the end.

**Bounds.** Three stations are the smallest net with a relay, and contain every
role a station can have; a second relay adds interleavings of the same
handlers (and is covered by the proofs). One announcement, offer and query per
hop keeps the counters small; `pair` uses two, so that the repeat and the last
attempt are different cases. Two sends make an attempt meet the remains of the
one before. In `routes` no message can come back to a station that sent it on, since a
next hop is always one further along the chain, and every station plays VARA, where a reception
that was cancelled only reports a failure; that loops, and any other net, implement `Custody` too
is what `Refinement` proves. An operator cancels in `pair` only: in `chain` timers, failed
payloads and CANCEL end the sessions of the relay, and the proofs cover the rest. `Backlog` is the number of received frames a station may leave
unpumped while it does something else; 0 says that the net thread pumps before it
ticks (`operations.py:3931`), as it does. `ReceiptTtl` 3 stands for the code's 15.
`WaitingMailIsSent` is excused once the bound on sends is reached, so that the
bound is no witness against it.

For `Discovery` two relays are the smallest net in which a better copy can replace
a worse one after the worse one was forwarded (`flood`: the copy over p reaches q
before the one from o), and in which a copy comes back to the station that
forwarded it (the net with the echo). `MaxTtl` 4 is the default of the engine and gives
two rings. One value of the penalty keeps it small, and so does letting only
the echo lose its breadcrumb; the proofs cover every penalty and every station.

For `MailStore` one message from elsewhere in two versions and one written here are
all that a promise about one id can depend on; two ids are the fewest for a request
to make a second message, and the compose window competes for them. The code tells
apart only whether a message is in the inbox, so two folders are enough. The numbers of restarts, failures and retries are not bounded.
The proofs cover any messages, contents, tokens, folders and number of ids.

For `TunedRadio` one session each way is the fewest that change direction and thread, and
three channels tell the calling channel from a route's and from a working channel. One sweep or
scan meets any number of moves of the sessions; a second would meet the same.

For `LiveRoutes` a line has routes of both kinds over one hop, the triangle two hops to
choose from, and the bypass two ways through one hop; two steps of the clock let links be
of different age. In `services` each part has the fewest actors that meet: a window after
another and a block left over after a window for the link, two transfers for the radio, both ends of a
chain for alerts, so that two floods cross. One or two mishaps are enough for the protocols to
go through every repetition they have at least once (two attempts stand for the code's
three); that more of them bring nothing new is not claimed, except for what is proved. The parts share no state in the code as far
as these models go, so that one run checks them one after the other.

**Fairness.** `FairSpec` asks that every station goes on ticking, pumping and
keying (`operations.py:3928`, `modem/audio.py:1029`) and that the discovery engine
meets its own deadlines. Nothing is asked of the channel, the payload or the
operator: frames may all be lost. `routes` has no station that is busy for
ever, because `WAITING_BUSY` retries without limit (a hazard in `PROJECT.json`).
`SweepSpec` adds that the automatic sweep goes on looking. In `Discovery`,
`FairSpec` asks that the stations go on pumping and ticking, so that frames heard
are handled, scheduled ones are sent (perhaps to nobody) and deadlines pass. In
`MailStore` it grants every import that could succeed time and again: more than the
station's polling promises, so that the violation is not for want of fairness.
`NetSpec` grants the fairness of `Discovery` in the net with the echo, where its liveness
is asked for. The liveness properties of `services` carry their fairness as a premise
(`part = "link" /\ Link!Fairness => ...`), because each part has its own: transfer threads
run and their waits time out (`OfdmLink`); threads run, the operations layer ticks and
VARA's radio falls silent or is connected again (`PayloadHandoff`); the worker and the
ticks run and time passes (`ServerPath`); stations go on ticking (`AlertFlood`); the main
loops and workers go on (`StationLab`). Nowhere is a frame promised to arrive or an
operator to act.

**Deadlock** is not checked: a net whose session has ended and whose bounds are
used up rightly stops, and so does a net whose query has ended, and a radio
that is used no more. In `MailStore` a restart is always possible, so there is nothing to check.

### What the violations say

1. `transit_stuck`. A station that does not relay automatically, or receives a
   message at the end of its hop limit, leaves the inbound session in
   `RECEIVED_OK` (`orchestrator.py:840`), which is not terminal and has no timer.
   `_net_idle` then never holds again and the automatic delivery of *all*
   waiting mail stops, although STATUS.md promises it.
2. `payload_back`. `_on_discovery_result` adopts the discovered hop without
   excluding the previous one (`orchestrator.py:680`), which every other choice of
   a hop excludes; a relay sends the payload back to where it came from.
3. `stale_ack`. `ACK_HAVE` and `G2_PROFILE_ACK` do not say which attempt they
   answer. After a cancelled attempt and a change of profile an old answer is taken
   for the new one and the ends start different modems. They also disagree when the
   outcome of the working-channel callbacks differs between the attempts. The direction
   the code excludes in words (a station that listens for VARA is played OFDM) needs a change
   of profile at each station; with at most one, `ListenersHearTheirModem` holds.
4. `import_retried`. `delete` and `clear` remove the bundle before they save the index.
   If that is interrupted, or the save fails, an entry without a bundle is left, and
   `import_server` fails on it (`message/store.py:323`) at every poll: the server keeps
   the message, and those behind it in the same reply wait too, until the operator
   deletes the entry once more.
5. `alert_lost`. The ids of alerts are made from a counter that starts at 0 with every
   opening of the control channel (`orchestrator.py:1221`), and other stations remember
   ids for an hour: the next alert is taken for one already shown.
6. `payload_moved`. The worker that sweeps an alert over the frequencies of the route table
   waits on the calling channel for the copies still queued there, hears nothing of the session that
   begins meanwhile, stops because a payload is active, and then tunes the radio back to
   the channel it had read (`operations.py:1412`): in the midst of the payload, away from the
   working channel on which the other station stays.

### What else was met

No run is spent on these; where a property has an exception for one, its comment says so.

- `orchestrator.py:1361` says of the negotiation that "a station can never be played OFDM while
  it is listening for VARA". With four attempts and a change of profile at each station it can: a
  `G2_PROFILE_ACK` that takes the profile waits in the receiver's queue, its reception fails (which does not withdraw
  queued answers), and it goes out as the answer to the offer of a later attempt, in which the
  receiver has fallen back to VARA. Two attempts do not get there, nor does one change of
  profile: `ListenersHearTheirModem` is stated for that, and proved for two stations.
- A reception that was given up may confirm the session that follows it. The receiver's
  operator cancels, or the sender's CANCEL arrives, while an OFDM reception runs; before the link looks
  at the flag (`ofdm_vhf.py:1105`), the sender tries again and the reception of the new session
  clears it (`ofdm_vhf.py:1152`). The old one takes the payload, stores it with
  the old `Message` and reports success under the id; `notify_payload_delivered` finds
  the new one (`orchestrator.py:803`), whose `payload_bytes` are `None`, and
  `_accept_incoming_payload` takes that for "protocol-only simulation / text control traffic"
  (`operations.py:4564`), although its first line says "Persist and check local identity before
  the RF engine emits an ACK." RECEIVED goes out and nothing is in the mailbox. Without
  `Prompt`, TLC refutes `DeliveryTruth` and `CustodyTruth` in the net of `pair` with a behaviour
  of twenty states, so that those properties except it; all that follows from a *failure*
  reported late is covered. `ardop.py:63` clears its flag in the same way, but refuses a
  second reception while the first is at work (`Occupied`). A payload that was complete when it was
  cancelled, with the radio still to be given back, is reported late by either.
- Settling a query in automatic use approves the best route *automatically*
  (`discovery.py:829`), also when the operator had approved it: switching automatic use
  off then takes that approval away, although STATUS.md:953 says that only automatic
  ones go. `ApprovalsStand` excepts that step. Clearing the routes also hides the derived ones until the
  next advert; a route that failed and is found again is approved by the settling and
  un-approved by the next synchronisation.
- Auto Tune "fails closed" only with the requests it repeats (`operations.py:1777`): a
  station that misses the CANCEL, or whose worker dies, waits for ever on its own.
  `NoMutualWait` therefore only says that not both do, and excepts two workers of which each
  listens while its own sweep is to be played, or gives it up because the request for it did
  not leave the radio in eight seconds (`operations.py:2596`). A late CANCEL turns COMPLETE into
  CANCELLED, and a new offer clears the cancellation of a worker still running.
- `service.py:225` permits radio only after a definitive rejection; between the
  publication of a delivery and its filing (`service.py:148`) a tick may still choose the
  radio (`torn`). A relayed message whose refusal was the last thing written before the
  program died waits for the automatic delivery.
- `stop_control_channel` shuts the payload backend down but leaves the continuation the
  operations layer retains (`operations.py:4633`). The continuation of a backend that is
  shut down never succeeds (`vara_p2p.py:657`), so every later start is refused with the
  promise that control "will restart after the VARA radio handoff is quiet"
  (`operations.py:3496`). `RadioComesBack` therefore excepts a channel the operator stops.
- The three users of the radio do not exclude each other, which is why `AloneItIsReturned` has its
  premise. Besides `payload_moved`: a sweep that begins while a session is away takes the working
  channel for the operator's (`operations.py:1327`); the end of one outgoing session returns the
  radio while the payload of another is on its way (`operations.py:4530`); `_qsy_previous` is
  cleared outside the radio's lock (`operations.py:5179`), so that a session that moves in between
  is not returned; a scanner that is stopped tunes home also during a payload, and one started again
  before that tuning ran takes a wrong home. At this commit nothing in the user interface starts
  the scanner. A message that the server took after the radio had moved for it
  (`operations.py:3711`) does not return the radio.
- A payload of `ofdm_vhf.py` that waits for the lock has already reset the cancellation of the
  running one (`ofdm_vhf.py:1153`).
- On a link the linger lasts two reply times: ACK and POLL lost together make the
  sender fail a message that arrived (`link.py:1583`).
- In the game, resignations that cross make both WON; a player who resigns from a game
  the other has ended is never acknowledged.
- A receipt handed to a transport is forgotten by the mailbox (`multi_radio.py:170`)
  although the transport may still hold it in memory only.
- A station that hears an alert first over a longer way does not relay it, though a
  later copy would have hops left.

## 4. What is proved

Eight modules are checked by TLAPS without gaps: `OrchestratorProofs`,
`DiscoveryProofs`, `MailStoreProofs`, `OfdmLinkProofs`, `PayloadHandoffProofs`,
`ServerPathProofs`, `StationProofs` and `WarshipsProofs`. Every safety property that a passing run checks is the conclusion of a
theorem, four of them for the nets their theorems name as a hypothesis, about the very definition the run names: the modules that put components together
(`Services`, `SharedState`, `Routing`) are extended by the proof modules as well as by the
`MC` modules. Those of `OrchestratorProofs` about mail
and reports hold as long as `Prompt` does, by their statements or by that of the property.
They assume only what the modules state about
their constants, which TLC evaluates in every run (`StationAssumption` and
`BoundAssumption` of `Orchestrator`, `NodeAssumption` and `MetricAssumption` of `Discovery`,
`ContentAssumption` and `IdAssumption` of `MailStore`, `LinkAssumption`,
`HandoffAssumption`, `AlertAssumption`, `RadioAssumption` of `TunedRadio`, `LiveAssumption` of
`LiveRoutes`, `LabAssumption` of `StationLab`, which says that there are two stations, and
`GameAssumption` of `Warships`, which says that there are two players whose fleets are on the
board; `ServerPath` has no constants and `AudioControl` needs nothing of its own): any set of
stations, any link relation, any evidence, any profiles, any bounds, any hop limit;
for discovery, any net, any callsigns, any relays and any TTL from 2 to 8; for the
mailbox, any messages, tokens and number of ids; for the link, any number of blocks, sizes
of windows and bursts, retries and losses; for the hand-over, any transfers and stops; for
alerts, any net, hop limit and repetitions; for one station, any frames to transmit, any
sessions, channels and ways, any life of the evidence; for Auto Tune, any numbers of
attempts, reports, calibrations and mishaps; for the game, any board, fleets, attempts and
faults.

| Theorem | Says |
|---|---|
| `TypeCorrect` (of `DiscoveryProofs`, `MailStoreProofs`) | `Spec => []TypeOK` |
| `TypeCorrect` (of `OrchestratorProofs`) | `Spec => [](Prompt => TypeOK)` |
| `DeliveriesAreTrue` | `Spec => []DeliveryTruth` |
| `CustodyIsReal` | `Spec => []CustodyTruth` |
| `Refinement` | `Spec /\ []Prompt => ImplementsCustody` |
| `SessionsStay` | `Spec => OpenSessionIsKept` |
| `SendingIsReal` | `Spec => [](Prompt => NoOrphanSending)` |
| `CopiesAreKept`, `AuthorKeepsTrying`, `ReportsStayTrue` | the promises of `Custody`, each `Spec => [](Prompt => ...)` |
| `MessageKeepsToWays` | `Spec => [](Prompt => WayInv)` |
| `MessageIsOwned` | `Spec => []SomeoneResponsible`, if every next hop is closer to the destination (`Approaches`) |
| `HopsArePaid` | `Spec => [](Prompt => HopBudget)`, if all ways to a station are equally long (`Levels`) |
| `HandoffIsSettled` | `Spec => []SettledHandoff`, in a net of one hop (`OneHopNet`) |
| `ListenersAreHeard` | `Spec => []ListenersHearTheirModem`, in a net of one hop (`OneHopNet`) |
| `WayBack` | `Spec => []BreadcrumbsLeadBack` |
| `RepliesReturn` | `Spec => []RepliesComeHome` |
| `ProvenRoutes` | `Spec => []RoutesAreProven` |
| `BoundedRoutes` | `Spec => []RingBoundsRoutes` |
| `NothingIsLost` | `Spec => []PromisesKept` |
| `ServerMayForget` | `Spec => []AckedIsSafe` |
| `FailuresAreUndone` | `Spec => []FailuresLeaveNoTrace` |
| `OneMessagePerRequest` | `Spec => RequestsQueuedOnce` |
| `IdsAreUsedOnce` | `Spec => IdsAreNew` |
| `KnowledgeIsTrue`, `SuccessMeansDelivery`, `FailuresAreExplained` | `[]LinkInv`, `[]SuccessIsDelivery`, `[]FailureIsExplained` of `OfdmLink`; the last two also of `Services` |
| `HandoffIsGuarded`, `TransfersAreApart`, `ShutDownSilences` | `[]HandoffInv`, `[]OneTransferAtATime`, `RetainedStaysQuiet` of `PayloadHandoff` |
| `IdsAreKept`, `AlertsAreShown` | `[]FloodInv`, `[]HeardIsShown` of `AlertFlood` |
| `ServerIsNotForgotten`, `OneWayOnly` | `[]PathInv`, `OneWayAtATime` of `ServerPath`; the last also of `Services` |
| `CallersAreTold`, `CardIsThePayloads` | `[]EveryCallerIsTold`, `[]PayloadHasTheCard` of `AudioControl` |
| `RadioComesHome` | `[]AloneItIsReturned` of `TunedRadio` |
| `CompletionsAreMutual` | `[]CompletionIsMutual` of `StationLab` |
| `GamesAreFair` | `[](TurnsAgree /\ VerdictsAreTrue)` of `Warships`, which is `FairPlay` of `Services` |
| `RoutesAreCurrent`, `ApprovalsOutlast` | `[]LiveRoutesAreCurrent`, `ApprovalsStand` of `LiveRoutes` |

`Orchestrator`: none of these is inductive. A station believes a confirmation
because of a frame, and the frame may have waited in a queue or an inbox since
long ago. `IInv` therefore says of *everything that speaks for a copy* that the
copy exists: a session that goes out holds the mail, or is inbound and its
source holds it (`SessInv`); a queued or received `HAVE_MSG` and `RECEIVED` comes
from a holder, a receipt means the destination has the message (`TxqInv`,
`InboxInv`); folders and statuses fit together (`MailInv`). A copy is never
dropped, so these facts survive any delay. They end with `Prompt`, since from then on a
session speaks for a copy it has not: every theorem therefore
shows its property of the states up to there (`late` only grows, `StaysPrompt`), and `HopBudget` and `NoOrphanSending`,
which do not mention `Prompt`, are checked beyond it by TLC alone. Each handler is shown to send only
such frames, file only such mail and enter only such sessions, assuming what
the frame it handles promises; each action is then `Good`: it keeps `IInv` and is
a step of `Custody` or none. That sessions are kept and that Sending is true is shown
beside it, action by action (`Orderly`): every handler changes one station, whose session
stays who it is with or makes room for its own relay leg, and whatever ends a session
files the mail in the same step.

Who keeps the message, and what a hop costs, depends on the net. `NextHops` are the stations a
station may ever announce a message to: the destination, whatever its routes offer at some
look, its backup hop, and any neighbour if it searches. `WayInv` says, of every net, that a session,
a queued frame and a learned hop name such a next hop (or one through which the frame came back),
that each hop costs one unit of the hop limit, and that a message filed under Sent as
relayed is held by a next hop of that station. From the last follows `MessageIsOwned`: of
all stations that hold the message take the one closest to the destination; it
cannot have filed it under Sent, as one closer still would hold it. From the prices follows
`HopsArePaid`: when all ways to a station are equally long, the hops a message remembers are as many
as that, and no fewer were paid. These two theorems name their hypotheses, which are properties of
the configured routes and not of the code: `Approaches` (some measure falls along every next
hop) and `Levels` (the stations can be put in levels, each next hop one level on). The nets of
`chain`, `pair` and `routes` meet both, which TLC evaluates (`MCDirected`); that of
`payload_back`, where a relay may send a message back, meets neither. The proofs need the hypotheses;
whether the properties do is not known: TLC found no violation of either in the net of
`payload_back`, nor in a ring of three relays as far as it was explored.

What the two ends of a hop settle hangs on answers that do not say what they answer. `Handshake`
is about two stations and says, of every delay, what may still be on its way. One frame at a time
is on the air (`OneInFlight`), mail of the origin came from nobody (`FromHere`), and a profile is
one of those the operator has (`Configured`). `Fits` keeps the sender behind the answers: while an
`ACK_HAVE` waits or is heard the sender has not engaged, while a `WORKING_ACK` waits it is not
past the working channel, and it announces only while it is not engaged; and where both are past
it, they are on the same channel. `Calm`, for as long as no profile was changed, computes from
the two profiles what the negotiation must come to (`AtFirst`, `AtLast`) and says that every session, queued answer and
frame on the air says that and nothing else, so that an answer to an earlier attempt does no harm.
`Suits`, with at most one change, says the part that survives it: a receiver that fell back to
VARA has no answer on its way that takes a profile. These three are first shown of eight plain
values (two sessions, two queues, two inboxes, the profiles) under each thing a station may do: rest, stay, end, send, move on.
Then each handler is shown to do one of those (`Follows`), and each action to keep `Handshake`.

`OneHopNet` names what the two theorems assume: two stations, one frame on the air at a time
(`Backlog` 0, as in `pair`), profiles that are not the names of channels, a sender that always or never has a working
channel to offer, and a receiver that takes every offer if it takes any. `pair` meets
it, which TLC evaluates (`MCDirected`, `PairIsOneHop`). With three stations, or
with a callback for the working channel that answers differently from one attempt to the next,
`SettledHandoff` is not to be expected: an `ACK_HAVE` that waits behind other frames after its
session was delivered may be taken for the answer to the announcement of another sender.

`Discovery`: again the frames on their way decide. `IInv` says that
a query has paid for its hops out of the TTL of the ring (`hops + ttl` never
exceeds it) and that its sender is on the way back at that many hops
(`GoodRreq`); that a reply comes over a link heard both ways from a station with a
way to the target, and that the station it names is on the way back within the
hop limit that is left (`GoodRrep`). `Advance` says what no step takes back: a
breadcrumb is only replaced by one with as few hops, or is lost and noted in
`forgot`; rings grow; routes stay. So frames keep their promises however late they
are (`FrameStays`), and each action only has to be shown to make good ones.

`MailStore`: what memory lists the disk lists too, with the same token
and the same word about the server (`Matches`); after a clearing that could not be
saved it may list less. So the invariant speaks of the disk, and a restart takes
nothing away. Whatever the disk lists has its bundle unless the operator withdrew
it (`Bundles`), also when a failed clearing is forgotten and old entries come back. Ids
given out stay below the counter on disk (`Range`) and an id that waits to be used is
known nowhere else (`Pending`), so that a failed request can be taken back without
taking another message with it; a token is at one message (`Keys`).

`OfdmLink`: the sender passes over blocks on the word of answers it can only partly
place. `LinkInv` says that nobody knows more than is true: each answer on its way reports
blocks the receiver holds (`AirInv`), the blocks before the window are held, and so are
those of the window no longer pending (`SenderInv`). The receiver never gives a block up,
so an answer that comes late is still true. In the mode that acknowledges block by block
the number of a burst is the number of its block, which keeps an old ACK from being
taken for the next block.

Why a sender fails is a matter of bookkeeping. `CalmInv` holds while the link is patient and
nobody has cancelled. Only one thing is on its way then: a batch, a train, or the answers to
it, of which the last is the awaited one (`FlightInv`). While a block is missing, each attempt
that was in vain has lost something, and so has the present one unless everything sent in it
is held or still on its way with an answer due (`AttemptInv`). A sender that repeats what the
receiver holds already has lost both an answer and a POLL, since the last burst of a train
brings a block of its own and a receiver that holds anything answers a POLL
(`LastIsNew`, `RescueInv`). That the last microburst is never empty is arithmetic about ranks
and rounded quotients (`TrainCarries`).

`PayloadHandoff`: the lock keeps transfers apart only while they run. `TailInv` is about a
transfer whose RF tail outlasts it: it has marked the backend as not ready, and no other
transfer of that backend is past that mark. `ResumeInv` says that the continuation the operations layer
retains is one that still waits.

`AlertFlood`: `FloodInv` says that, while no channel was opened anew, a counter is never behind
an id made from it (`IdsCount`), an id on its way stands for one alert (`OneAlert`) and a
station that has seen it has shown that alert (`SeenIsShown`). Without the premise the
invariant is false, which is what `alert_lost` shows.

`ServerPath`: `PathInv` says that if the server has the message then the mailbox says it may
have it, or the station waited 90 seconds in vain, or a delivery is just being filed; and
ties the place of the worker to what the disk says. A tick is a sequence of stages; each
is shown to keep the invariant and to open the second way only rightly (`Stage`), and the
stages compose.

`AudioControl`: where a frame is says who has to tell its caller. `CallersInv` says that a
callback is filed exactly while its frame is held back, passed along while a thread has it, and
gone once the caller was told; so it is told once, and `TRUE` only for what was aired. `CardInv`
says that from the moment a payload asks for the sound card nothing new is admitted, and that it
has the card only when nothing is pending.

`TunedRadio`: `RadioInv` says that, as long as nobody has crossed anybody, one at a time is
away from the calling channel (`Apart`), each remembers the calling channel or nothing, whoever
is away remembers it (`KnowHome`), and a payload that went to a channel is on it (`OnItsWay`).
`KnowHome` survives every failed command except a failed return, which is `lost`.

`LiveRoutes`: a route derived from adverts is compared with a way that may since have been
replaced by a better one. `EvidenceStands` says that some way through its first hop has links as
young as the route, at each of its ends; the least believed link of the best way is no older than
that of any other (`LastsIsLeast`). `OnlyInAutoUse` is the part about approvals.

`StationLab`: what a frame says of a calibration is true of some past, which no single state
shows: who offered it, who has begun to play in it and who to listen. `LabInv` says that there
is such a past, in which nobody is reported on whom the other has not heard, nobody is heard
who has not begun, and the answering station begins only when the offering one was reported
on (`PastOk`); that each frame on its way (`TokenOk`), each status (`StatusOk`) and each worker
(`JobsOk`) fits it; that no offer is behind what can only follow it (`InOrder`); and that
nobody has measured a sweep still to come (`StillToCome`), so that a repeated report is never taken
for that of a later sweep. A step adds to the past of one station, and what the frames say
stays true (`Grows`, `TokenStays`).

`Warships`: a frame of the game may be heard long after it was sent, and more than once, so
it must be true whenever that is. `Says` is what a frame promises: a result is among the
responses of its sender, which are never taken back; the acknowledgement of a result comes
from one who has counted that turn; who acknowledges the loss of a fleet has hit all of it; who
resigns has resigned. So the attacker counts a turn first and the attacked only on that word,
their counts are never more than one apart (`InStep`), and as the parity of the count says
whose turn it is (`OnTurn`, `Placed`), both attack at once only if both are wrong about a
turn one of them has answered. A game that the other has not joined is still empty (`Blank`), so
that an invitation that crosses another or comes late makes nothing false. What answering does
to one game is shown once (`Own`, `Keeps`), and that the frames on their way stay true
follows from what is kept.

Model-checked only, or not at all:
- `SettledHandoff` and `ListenersHearTheirModem` outside `OneHopNet`, where nothing is claimed: no
  run checks them there;
- `SomeoneResponsible` and `HopBudget` in nets that do not meet the hypotheses above. There only
  "another station holds a copy" is proved, which is what `Custody` says;
- every liveness property (`SessionsEnd`, `EchoesEnd`, `QueriesEnd`, `LinkEnds`,
  `RadioComesBack`, `RelayMovesOn`, `ReceiptIsGiven`, `AlertsEnd`, `NoMutualWait`):
  liveness under fairness is out of the prover's reach.

`TypeOK` is proved of `Orchestrator`, `Discovery` and `MailStore` and is part of the
invariants of the others, so no run spends a check on it.

## 5. What is not modelled, and what is left

**Not modelled.** Modulation, coding, synchronisation and the levels of Auto Tune are
numerical and are checked by measurement (`ofdm/phy.py` and its neighbours,
`waveforms/`, the laboratory and the benches). Radio drivers, serial ports and the modem
binaries are input and output. The user interface (`qt/`) with translation, configuration,
updates and installation keeps no state that takes part in a protocol, beyond the
operator's commands, which are actions here. Together these are more than half of the
implementation's lines, which is why the map covers a modest share of them all. Formatting and
compression of mail are pure functions the properties do not look into. The guard mesh shows
the station's status on a Bluetooth display and answers it one request at a time; its
requests to queue mail are the ones `MailStore` receives, with their tokens. Of
`services/workers.py` only what the workers of the other modules do is modelled: that
`close` may pass between its check and the submission, so that a name stays active, happens
when the program ends.

**Left out of what is modelled**, in the order it would be taken up:
1. `Discovery`: the bridge between two radios, the forwarding switch, queries that compete
   for airtime, and the rank of routes by measured quality. Not claimed: that the *best*
   routes of all stations form no loop. Without expiry TLC found none on four stations; once
   breadcrumbs expire, a simulation of five stations has one, and whether mail then
   circulates until its hop limit is a question for `Discovery` composed with `Custody`.
2. `OfdmLink`: the choice of the rate, and the lock and threads around the link
   (`payload/ofdm_vhf.py`, `payload/ardop.py`); what their late ends do to a session is in `Orchestrator`.
3. `AlertFlood`: retransmission by the operator, and the scanner that may hear only part of
   the repetitions.
4. `StationLab`: Full Auto Tune, which repeats the sweep over more settings.
5. `Warships`: the archive of finished games and the busy answer to a third station.
6. Proofs: whether `SomeoneResponsible` and `HopBudget` hold in nets whose routes lead round in
   circles, a form of
   `SettledHandoff` that is true of more than two stations, and `HopBudget`, `NoOrphanSending` and `TypeOK`
   without `Prompt`.
