# 9CarPlay in TLA+

9CarPlay (`src/pi`) makes a Raspberry Pi answer a Honda head unit as if it were
a phone: over USB gadgets and over Bluetooth, with iAP1, MirrorLink, Android
Open Accessory and hands-free, each in a script or a small program of its own.
This directory models the parts with state worth checking, checks them with TLC
on small instances and proves some of it with TLAPS for every instance.

## 1. The system

| Component (source under `src/pi`) | State | Operations | Talks to |
|---|---|---|---|
| iAP1 daemon, protocol (`iap1/iap1_daemon.py`: `State`, `process_rx`, `handle_ret_dev_authentication_info`) | `rx_buf`, `idps_done`, `cert_buf`, `auth_retry_counter`, `accessory_info_queue`, `auth_signature_due`, `auth_major_version` | one branch of `process_rx` per command | writes replies to the bulk-IN endpoint or the RFCOMM socket |
| iAP1 daemon, USB (`iap1_daemon.py`: `main`, `ep0_event_loop`, `open_bulk_eps`, `handle_setup`) | `ep_out_fd`, `ep_in_fd` | ep0 events, reopening, non-blocking read | FunctionFS; calls `process_rx` |
| iAP1 packets (`iap1_daemon.py`: `try_parse_packet`, `_split_lingo_cmd`, `build_packet`, FID tokens) | none | parse, build | used by all four iAP programs |
| iAP1 over RFCOMM (`iap1/btsdp_iap.py`) | a `State` per connection | D-Bus `NewConnection`, one thread per session | calls `process_rx` |
| Guided harness (`iap1/btsdp_iap_guided.py`) | `Harness`: hypothesis, window, phases, one-shots, timers; a lock | console thread, session threads, `threading.Timer`s, AV sessions | head unit over RFCOMM, operator |
| iAP1 over USB-HID (`iap-usb/iap_usb_bridge.py`, `hid_framing.py`) | reassembly buffer, one-shots, `got_rx` | read loop, opener thread, throwaway sender threads | `/dev/iap0`, iAP1 packets, DataParts |
| DataParts (`appmode/appmode_proto.py`, `appmode.py`) | none | framing with byte stuffing, check byte, key derivation, AES | used by harness and bridge |
| Sniffer (`appmode/sniff_capture.py`) | partial ACL packets by direction and handle | reassembly, L2CAP/RFCOMM decoding | captures |
| AOA gadgets (`aoa-gadget/aoa_gadget.c`, `aoa_gadget_twostage.c`) | the two ids, whether it is bound | SETUP requests, identity switch | FunctionFS, configfs |
| MirrorLink (`mirrorlink-ncm/ssdp_announce.py`, `mirrorlink_usb_cmd_listener.py`) | none shared but the configuration; one ep0 loop | announcements, M-SEARCH replies, HTTP, DAP, USB command | head unit over NCM |
| Hands-free gateway (`bluetooth-test/hfp_ag.py`) | line buffer per connection | AT commands | head unit over RFCOMM |
| Setup scripts, `markers.py`, `decode_capture.py`, `apps.py`, `set_apple_did.py`, `hdmi_testpattern.sh`, `msd-gadget` | files in configfs, captures | run once by hand | kernel, BlueZ |

What makes each component correct, and what is hard about it:

* **Protocol.** The order of authentication (certificate, accessory info,
  challenge) is spread over two flags, a buffer and a queue that different
  handlers set and consume; the head unit may identify itself repeatedly,
  cancel, reset or abandon at any time; a write may fail between two replies;
  the state outlives a USB enumeration. Wanted: nothing is asked twice, no
  challenge without its certificate, one request outstanding at a time, a
  handshake that finishes and starts afresh.
* **Bulk endpoints.** Descriptors go stale when the gadget is unbound, events
  come in batches and late, opens fail. Wanted: no leak, no mixed-up
  descriptors, recovery.
* **Harness.** Threads, timers and the operator share one object; locks are
  taken per access, not per decision. Wanted: one-shots are one-shots, a stall
  is reported, diagnoses are about the connection they name.
* **Bridge.** Sender threads interleave reports of different packets; a raw
  fallback sees fragments. Wanted: every packet handled once, reports of one
  packet contiguous.
* **Codecs.** Streams are cut anywhere. Wanted: the same packets come out
  however the bytes are chunked, garbage is skipped, nothing is read past a
  declared length.
* **AOA, MirrorLink, hands-free.** An identity switch of several steps that may
  stop half-way; the same request repeated; what is announced must be served and
  taken back; an HTTP client whose answer names no length must not wait for
  ever.

## 2. The modules

| Module | Models | Uses |
|---|---|---|
| `IapDaemon` | `process_rx`, `State`, the read loops, the link, the head unit | |
| `AuthOrder` | the abstract order of authentication (Table 2-5 as the comments quote it) | |
| `IapDaemonProofs` | theorems about `IapDaemon`: first those that its own state is enough for, then those that need the packets in flight, the refinement of `AuthOrder` among them | `IapDaemon`, `TLAPS` |
| `BulkEndpoints` | `main`'s loop, `open_bulk_eps`, the descriptor table | |
| `GuidedHarness` | `Harness`, `rfcomm_session`, `_drain`, the timers, the console's arming | |
| `IapPackets` | iAP1 packets as bytes: parser, FID-token walk, builders | |
| `DataParts` | DataParts frames: stuffing, the scanner, the app's messages | |
| `GuidedPolicy` | what the harness answers to each packet: hypotheses, `respond_to_packet`, the app session's one-shots as one thread sees them | `IapPackets`, `DataParts` |
| `HidFraming` | `hid_framing.py`: a packet cut into reports and put together again | |
| `IapUsbBridge` | `iap_usb_bridge.py`: read loop, opener loop and threads, the device | `GuidedPolicy`, `HidFraming` |
| `StreamReaders` | byte streams cut anywhere: iAP1 over RFCOMM, AT commands (`hfp_ag.py`) | `IapPackets` |
| `AclCapture` | `_reassemble_acl` of `sniff_capture.py` | |
| `Aes` | AES-128-CBC and padding of `appmode_proto.py` | |
| `AvChannel` | the harness's AppMode channels: dialled, accepted, driven | `DataParts` |
| `MirrorLink` | `ssdp_announce.py`: start-up, announcement, searches, HTTP, farewell | |
| `AoaTwoStage` | `aoa_gadget_twostage.c`: events and the switch of identity | |
| `ParsingLemmas` | what the recursive definitions of `IapPackets` and `DataParts` return; no theorem of its own | both, `TLAPS` |
| `BulkEndpointsProofs`, `GuidedHarnessProofs` | theorems about the module they are named after | that module, `TLAPS` |
| `IapUsbBridgeProofs`, `StreamReadersProofs` | theorems about the module they are named after | that module, `ParsingLemmas` |
| `AppModeProofs` | theorems about `AvChannel`, `AclCapture` and the frames of `DataParts` | all three, `ParsingLemmas` |
| `GadgetProofs` | theorems about `MirrorLink` and `AoaTwoStage` | both, `TLAPS` |
| `MC...` | values for TLC; `MCPrograms` puts the last six side by side | |

`PROJECT.json` gives, for every definition, the lines it models.

### IapDaemon

One instance is the USB daemon (`FreshState = FALSE`, one `State` per process),
another the RFCOMM one (`FreshState = TRUE`). The variables of the first group
are the fields of `State`, under their own names; `loop` says whether the
program is in its read loop or inside `process_rx`; `pipe` and `wire` are the
two directions of the link. `ReadChunk` takes any prefix of what was written, so
a chunk may hold several packets; every branch of `process_rx` is an action
`Handle...`, which first takes its packet off `rx_buf`. A handler's writes are
one list, of which it manages to send a prefix: `\E n` is the write that fails,
after which the rest of the handler is skipped, as the exception does, and the
packets behind it stay in `rx_buf`. The state changes of the code are placed
between those writes as the code places them (`idps_done` before
`GetDevAuthenticationInfo`, the EndIDPS reset after its reply).

Abstracted: packet bytes (a packet is a kind and a number), the challenge (its
retry counter, with its byte's limit `RetryMax`), the certificate (its section
numbers), the queries answered by one stateless packet (one kind, `Query`).
`log`, `cancelled` and `conn` are history variables. The head unit answers each
request once and in order, and begins dialogues from the set `Initiations`.

### BulkEndpoints

The descriptor table is explicit: a failed open leaves `ep_out_fd` and
`ep_in_fd` naming numbers that are free, and the next open takes the lowest
free number, which may be the other variable's. A descriptor serves one
enumeration (`gen`). `open_bulk_eps` is three actions (close both, open ep1,
open ep2) so that the gadget may go up or down between them. SETUP requests and
the end of the process when ep0 closes are left out.

### GuidedHarness

`harness` is a record of the fields that decisions depend on. An action is one
acquisition of `harness.lock` or one unlocked access, so `arm()` can come
between any two: between the hypothesis being read and used, between the
one-shot of the announcement and the session id, between `has_phase` and the
report at a teardown. Timers are counts: `ticking` (can be cancelled), `firing`
(callback waiting for the lock, beyond cancelling). The shipped hypotheses all
announce on `device_info` and dial outbound, and for the harness differ only in
`dataparts_session`; the `ei_mode` trigger and `host_only` paths, which none of
them enables, are left out. The `ei_mode` phase is marked by an
Extended-Interface packet (`ei`) and by General command 0x05 (`enter_ei`), but
only the former schedules the dial; the dial then looks for the head unit's
address, of which the model keeps whether the last session's is known. What a
packet is answered with is `GuidedPolicy`'s, and what follows the dial is
`AvChannel`'s.

### IapPackets, DataParts, GuidedPolicy

Pure functions on sequences of bytes. `try_parse_packet` has the outcomes of the
code (nothing yet, skip, a packet, `IndexError`), Python's slices that shorten
and indexes that raise included. `GuidedPolicy` maps a session's state and a
packet to the state after it and the packets sent; a challenge is its length,
MD5 and AES results are symbols.

### HidFraming, IapUsbBridge

The reports of a packet, padding and link-control bytes are those of the code.
Each of the bridge's threads has its own control point, and a *report* is the
unit in which they interleave: packets are written report by report
(`_write_report`) without a lock. The device's queue has `FifoSize` places; a
write to a full one is retried 60 times and then given up, which drops the rest
of that packet. The raw fallback, which parses the first or middle report of a
packet by itself, is part of the read loop's step, as it is in the code.
Reports that come by SET_REPORT carry no ReportID, those of the interrupt
endpoint do (`bearer`). `intended` is history: the session that the packets
sent would leave if each were answered whole and once.

### The programs side by side

`MCPrograms` composes six modules whose programs share neither a process nor a
connection: `program` names the one that runs, and the others stay as they
start. This is a disjoint union, not an interleaving: nothing of one could
affect another.

* `StreamReaders`. The peer sends items, each with its meaning, from the
  constant `Items`: a packet in the short or the long form, noise in which no
  0x55 stands, an AT line with its carriage return. `ItemsAssumption` says just
  that, and nothing of which items or how many. `recv` takes any prefix of what
  was sent. `CutAnywhere` compares what the program makes of it with the
  meaning. The code's loops, which shorten the buffer, are functions of the
  place up to which it has been taken.
* `AclCapture`. A first fragment always names its packet's length, so that the
  code's check for one too short is left out. Every record is captured or
  missed; `intact` remembers of which packets none was missed.
* `Aes`. One round per step, the key schedule included, both directions, with
  the code's table.
* `AvChannel`. A connection's thread parses each chunk by itself; a send fails
  once the peer has closed. What the app sends is any frame, an id and a
  payload; `av_ends` is history: where in what is on the wire a frame ends, so
  that a chunk that holds a StartAuth whole, or ends inside a frame, can be
  told. Both are said of the bytes and their places, not of what the scanner
  makes of them.
* `MirrorLink`. `main`'s start-up is taken step by step with the two threads it
  starts, which bind their sockets when they get to it; an HTTP connection has
  an answer pending, or waits for ever after one that named no length.
* `AoaTwoStage`. Each write of the switch (unbind, two ids, bind) is a step that
  may fail and return.

## 3. The runs

| Run | Expect | What it shows |
|---|---|---|
| `iap_usb` | pass | two enumerations sharing one `State`, a head unit that cancels, resets, abandons or falls silent, writes failing anywhere: `AuthOncePerGrant`, `ChallengePerCertificate`, `ChallengesWithinRequests` |
| `iap_rfcomm` | pass | a head unit that follows the protocol, on two connections: `OneRequestAtATime`, `CertificateWhole`, `FreshHandshake`, `Authenticates` (liveness) and `ImplementsAuthOrder` (refinement of `AuthOrder`) |
| `iap_cancel` | violation | `CancelKeptSeparate`: a cancellation while a signature is due is followed by the challenge it was meant to cancel |
| `iap_reenumerate` | violation | `FreshHandshake` over USB: `idps_done` survives the enumeration, the second handshake never asks for the certificate |
| `bulk_endpoints` | pass | `NoLeak`, `ReadableIsAnswerable`, `EnableRescues` (liveness) |
| `bulk_retry` | violation | `KeepsRetrying`: after a failed reopening the loop reads a closed number, `EBADF`, and never reopens |
| `guided` | pass | two sessions, console and timers in every order: `OneShots`, `NoOrphanTimer`, `DataAfterAnnouncement` |
| `guided_stall` | pass | liveness: `StallNamed`, a command on record is reported once the head unit is silent or gone, unless a session ended while another was open (`torn`); `DialledOnEi`, an Extended-Interface packet that is answered gets the head unit dialled, or its address was unknown |
| `guided_silence` | violation | `SilenceIsReported`: silence right after the signature is not noticed |
| `usb_bridge` | pass | `WholeFrames`: whatever packets were given up half sent, what the head unit puts together is the packet whose report completes it, unless reports of two packets were queued in turns; `OneStrayOpener`: at most one opener is started after the head unit's first packet; `HandledOnce`: over the interrupt endpoint a long packet, answered cut short and then whole, leaves the session that it leaves when answered once (of packets whose middle reports hold no 0x55); `AsBaseline`: the bridge's replies are `GuidedPolicy`'s; `ReaderComesBack` (liveness): the read loop returns to its packets, or has crashed |
| `bridge_fragment` | violation | `RobustToFraming`: a first fragment of SetFIDTokenValues parsed raw raises `IndexError`, and the bridge ends |
| `programs` | pass | `CutAnywhere`; `CapturedIsYielded`; `AesRoundTrip`, `AesKnownAnswer`; `AvOrder`, `ResponseIsAsked`, `WholeStartAuthAnswered`; `KnownIsServed`, `ByebyeCovers`, `AnswersEnd`; `TwoIdentities`, `StartSwitches` |

Every component's `TypeOK` is checked in one of its runs. The violations are
listed as findings in `PROJECT.json`, with the lines that say otherwise.

### What the codecs' and programs' properties say

* `CutAnywhere`: whatever the cuts, the packets handled (or AT lines answered)
  are those that were sent, in order, noise skipped, and none waits for a later
  chunk once its last byte has been read.
* `CapturedIsYielded`: a packet whose records were all captured is yielded
  whole and once, and two such packets in the order in which they ended,
  however other connections' records and missed ones come between.
* `AesRoundTrip`, `AesKnownAnswer`: a message comes back, padding included, and
  FIPS-197's block encrypts to FIPS-197's result. The first is checked of five
  messages, on either side of a block's end. The second is needed because
  two mirrored mistakes pass the first.
* `AvOrder`: on every channel Session Start, Auth Request and the answer to a
  StartAuth go out in that order and once each. `ResponseIsAsked`: an answer
  answers a StartAuth, or what a cut frame left that reads as one.
  `WholeStartAuthAnswered`: a StartAuth that came whole in a chunk has its
  answer, whatever pieces of frames stand around it.
* `KnownIsServed`: what the head unit has been told of is served by a listening
  HTTP server. `ByebyeCovers`: however the announcing ended, nothing stays
  known, but for a lost byebye and a search answered afterwards. `AnswersEnd`:
  every request's answer ends, at the handler's timeout when it names no
  length.
* `TwoIdentities`: wherever a switch fails, no host enumerates one id of each
  identity, nor the generic one after the accessory one of the same setup.
  `StartSwitches`: an AOA_START leads to the accessory identity, or a failed
  write, or the end of the setup.

### Bounds

* `MaxConnections` 2: what one connection leaves behind meets a second one, and
  a third would meet the same. Over USB four packets of the head unit's own
  accord, of any kind, put a cancellation and a reset between two
  identifications; two accessory-info types (`TwoTypes`) tell a queue that is
  full, partly used and empty apart, where RFCOMM uses the code's six;
  `LastSection` 1 has a first and a last section, 2 one in between. `RetryMax`
  is lowered from 255 to 1 over USB so that the overflow of the counter's byte
  is reached.
* `BulkEndpoints`: `BatchSize` 2 with up to six events makes batches that end
  between an ENABLE and its DISABLE; two failures cover both opens of one
  reopening and one open of each of two.
* `GuidedHarness`: three packets are the longest one-shot chain (declaration,
  announcement, app data), shared by two sessions; one re-arming separates an
  old window from a new one, and is enough for a thread to be overtaken between
  the announcement and its session id. In the liveness run two packets suffice
  (mark, then silence) and keep its graph small; their commands are those that
  move the watchdog and the dial, and one that does not.
* `usb_bridge`: `FifoSize` 1 makes every write after the first a retry, so that
  the writers alternate at every report; two report lengths per direction and
  four packets, of which the token list and the StartAuth need two reports, as
  some replies do, and the certificate three. The cut token list declares
  another protocol than the whole one. `MaxPackets` 3 is the longest chain here
  as well (declaration, information, StartAuth). `MaxOpeners` 2 puts one opener
  before and one after the head unit's first packet. `bridge_fragment`: one
  packet is enough.
* `programs`: three items per stream, of one- and two-byte commands, the long
  form, blank lines and noise, in chunks of up to six bytes; the AT alphabet has
  `AT+BRSF`, which has a reply of its own before its `OK`, and `AT+NREC`, which
  has not. Three L2CAP packets of one or three records on two connections of one
  direction: two of one key, and one between. Five messages for AES: FIPS-197's
  block and lengths 0, 5, 16 and 17. One dialled and one accepted AppMode
  channel, two frames each cut anywhere. Two targets (the device and a service),
  two announcement rounds, two HTTP connections. Batches of two AOA events,
  three waiting, one teardown, which gives a second setup.

### Fairness

* `IapDaemon.FairSpec`: the read loop and `process_rx` run, since they block on
  nothing but input, and the head unit reads; its answers are certain only when
  `Silent` is FALSE. Writes may always fail, which takes the link down, and the
  properties say so.
* `BulkEndpoints`: `main` runs; it polls with a timeout.
* `GuidedHarness`: threads run and timers expire; the head unit and the operator
  may stop for ever.
* `IapUsbBridge`: the read loop runs: weak fairness of taking a report, and of
  writing or giving up, since the retries are bounded. Nothing else
  is fair: the opener's threads may be held up for ever and the head unit need
  not collect anything.
* `MCPrograms`: an HTTP thread writes its answer or times out (the server has a
  30 s timeout); the AOA gadget reads its events and goes on with a switch it
  has begun. Hosts and the operator owe nothing.

Deadlock checking is off where the bounds or the silence of the head unit end a
behaviour: a head unit that has nothing to say and a daemon that waits for it is
a legitimate end.

## 4. The proofs

Each proof module has lemmas on the operators first, then the initial states,
one step per action of `Next`, and the theorems by PTL. The theorems hold for
every value of the constants that satisfies the assumptions of the module: any
number of connections, packets, sessions, windows, failures or events.

`IapDaemonProofs`:

* `TypeCorrect`: `Spec => []TypeOK`. `TypeOK` is inductive; the only conjunct
  that needs thought is that `accessory_info_queue` stays a tail of
  `ACC_INFO_REQUIRED_TYPES`.
* `AuthenticationOnce`: `Spec => []AuthOncePerGrant`. By itself the bound is not
  inductive, because nothing ties the request to the flag that guards it.
  `IdpsInv` adds the tie: `infoReqs + (0 if idps_done, else 1) <= grants + 1`,
  with the failed second write (flag set, request not sent) on the safe side.
* `OneChallengePerCertificate`: `Spec => []ChallengePerCertificate`, by
  `SignatureInv`: `challenges + (1 if auth_signature_due) <= certAcks`.

Its second part counts packets wherever they are: on `wire` to the head unit, on
`pipe` from it, in `rx_buf`. Its first lemmas say what taking a prefix,
appending and concatenating do to a count (`CountSplit`, `CountAppend`,
`CountConcat`; induction is not needed, since a count is the size of a set of
positions).

* `ChallengesFollowRequests`: `Spec => []ChallengesWithinRequests`. The property
  relates two counters that no single step links. `CreditInv` is the link: the
  challenges sent, plus the one that is due, plus the certificate requests and
  answers in flight, are no more than the requests made. Each packet carries the
  credit of one request, and every step that loses or drops one only helps. This
  holds for any head unit that answers a request once, cancelling or not.
* `FreshOnEveryConnection`: `FreshHandshake` for `FreshState = TRUE`, the RFCOMM
  program. The hypothesis is the difference between the two programs and cannot
  be dropped: `iap_reenumerate` shows the property violated over USB. `FreshInv`
  adds `idps_done` to what was asked, since that flag is what suppresses a
  request.
* `OneRequestInFlight`, `CertificatesWhole`, `OrderImplemented`:
  `OneRequestAtATime`, `CertificateWhole` and the refinement of `AuthOrder`, on
  either bearer, for a head unit that follows the protocol (`OrderlyHeadUnit`:
  what it begins of its own accord is neither a cancellation nor a reset). That
  hypothesis is needed: `iap_cancel` violates the order, and a granted reset
  legitimately asks twice. It is the head unit of `iap_rfcomm`. `TrackInv` says
  that at most one packet of the authentication is in flight, none before
  `idps_done`, and that each one is in flight only where daemon and head unit
  expect it (`Expected`): a section that is its head unit's `section` while
  `cert_buf` holds those before it, a challenge only after the accessory
  information was asked for in full. A connection that fails takes its packet
  along. Every step is then shown to be one of `AuthOrder`'s or to leave its
  variables alone (`OrderStep`).

`BulkEndpointsProofs` (`DescriptorsTyped`, `NothingLeaks`,
`AnswerableWhenReadable`): the properties are not inductive, since the failed
reopenings leave numbers that the next open takes. The invariant shows why
nothing is mixed up: both numbers are closed before either is opened, so the
first open takes 0, the second takes 1, main's variables never change, and
nothing else is ever open. `Generations` adds that no descriptor serves more
than the next enumeration, and that of two open ones the second is the later.

`GuidedHarnessProofs` (`OneShotsOnce`, `TimerNotOrphaned`, `DataIsAnnounced`,
`TypeCorrect`): the count of each one-shot is tied to its flag (`Shots`);
`NoOrphanTimer` is inductive, because `TickingAfterCancel` clears every timer
when it holds (`CancelClears`); a thread at `assign` has announced in this
window or was overtaken by `arm()`, which is what makes the session id, and then
the kick, imply the announcement (`Assignments`). `TypeOK` bounds the recorded
commands by those received, which is not inductive: a thread that has received
and not yet recorded must be counted, so `TInv` bounds what is recorded plus the
number of such threads; its other conjuncts tie the flags of a stall report and
a dial to their counts, and type what waits (timers, dials, the hypothesis in
hand).

`IapUsbBridgeProofs`:

* `OneOpenerStrays`: a stray opener implies `got_rx`, which is never reset, so
  the loop's next check ends it (`StrayInv`).
* `RespondsAsBaseline`: `Spec => AsBaseline`. It needs no invariant: the two
  reply functions agree for every session and packet of the General lingo but
  `EnterExtendedInterfaceMode`, command by command (`GeneralAgrees`). The one
  long case is the data transfer, where both fold the same step over the frames
  (`DataAsBaseline`).
* `BridgeTypes`: `Spec => []TypeOK`, whatever bytes the head unit sends. The
  invariant, `BridgeTyped`, is about data: a session is one of those that the
  one-shots leave in order (`Sound`), a report that is queued is never empty and
  fits, an opener starts only while some are left. So the proof is about what
  the parser, the FID-token walk, the frame scanner, the builders and the folds
  over acks, protocols and frames return, for every sequence of bytes
  (`ParsingLemmas`).
* `FramesAreWhole`: `Spec => WholeFrames`. `WholeInv` says, unless reports of
  two packets were queued in turns, that the queue is *lined up* behind the head
  unit's buffer: each report in it is the one that `encode_frame` cuts at the
  place where the one before it left its packet, or begins a packet (`Lined`),
  and who is sending goes on where its last report in the queue ends (`Goes`).
  `ReportCarries` says what of a packet is in a report, `PushGoesOn` what the
  head unit makes of the next one. A packet that was given up leaves a buffer
  that the next first report clears, which is why the property can hold at all.

The definitions are those of `ReportDefsAssumption`: at least one report each
way, the ids all different, two to 255 bytes. The shipped table is one of these.

`StreamReadersProofs` (`HandledWhateverTheCuts`): `ReadersSpec =>
[]CutAnywhere`, for any items that `ItemsAssumption` allows, any number of them
and any size of `recv`. `ReaderInv` says that what is due is what was handled
and what is still *owed*, and that the owed is what the buffer and the wire
together hold: `PacketsLeft` (noise, then packets each with the noise behind it)
or `LinesLeft`. Two facts carry it.

* `DrainLeaves`, `LinesAnswered`: of a buffer `b` with `w` still to come, such
  that `b \o w` holds what is due, the loop handles a prefix of what is due and
  leaves a `rest` such that `rest \o w` holds the others, and none is left when
  `w` is empty. That is an induction over what is left of the buffer, and rests
  on what the parser makes of a buffer that ends inside a packet, inside noise
  or between (`ParsedIs`): a part of a packet is never taken for a packet, or
  skipped, and a two-byte sync further on never takes precedence over a 0x55
  that stands before it (`FindSync`).
* `SentJoins`: an item sent joins what is left, noise going to the packet before
  it. That noise holds no 0x55 is needed: a stray one makes the parser wait for
  bytes that never come (section 5).

`GadgetProofs`, of MirrorLink (`ServedWhenKnown`, `TakenBackForGood`,
`MlTypeCorrect`): the order of `main`'s start keeps everything quiet until the
HTTP server listens (`Unannounced`); in the farewell every target is still to be
taken back or has been, and what the head unit still holds is among those to
come or was answered too late (`TakenBack`). The module assumes that the device
is among the targets and the services are targets, as the tables at the top of
the script have it.

`AppModeProofs`:

* `HandshakeInOrder`: `AvSpec => []AvOrder`, by what each control point of a
  connection's thread has sent (`Stage`), with the failed sends among it.
* `FramesReadBack`: `parse_frames(build_frame(id, payload))` is that frame and
  no other, for every id and payload. Stuffing doubles each 0x9F, so that the
  scanner finds the end mark where the builder put it and nowhere before
  (`HoldsEscaped`).
* `WholeOnesAreAnswered` and `AnswersAreAsked`: for any frames and any cuts. The
  first needs that the scanner, in a chunk that begins inside a frame or ends
  inside one, still comes to each frame that stands in it whole: what it takes
  for a frame before that ends before that, since a stuffed body holds no lone
  marker (`CarriedIsParsed`). The second needs the converse while no chunk has
  ended inside a frame: the wire is then frames from end to end (`Cut`), a chunk
  is some of them, and what is read is what was sent. `AskInv` says so of every
  session that was neither asked nor torn.
* `CapturedComesThrough`: `AclSpec => []CapturedIsYielded`. A packet is told
  from others by its first part, its *name*. `AclInv` says that the partial
  packet of a connection of whose packet nothing was missed is what was sent of
  it (`SentOf`), that no two connections send one packet, that no partial packet
  begins with the name of one that another connection may yet complete or that
  was captured (`PartialName`), and that whatever was yielded is captured or
  begins with a name that is doomed: its packet is neither captured nor still
  whole (`YieldedNames`). The last is what makes "once" inductive: a stale
  partial packet may be completed with parts of another one at any time, and
  what comes out must not be mistaken for a captured packet.

`GadgetProofs`, of the AOA gadget (`OneIdentityAfterTheOther`): between
unbinding and binding nothing is bound, the ids are rewritten in order, and a
gadget that a failed switch has left unbound is bound by nobody until a teardown
(`SwitchInv`); once the accessory was seen both ids stay its own (`SeenInv`).

The programs of `MCPrograms` have a specification each (`ReadersSpec`, `AvSpec`,
`AclSpec`, `MlSpec`, `AoaSpec`), which is what their theorems are about.

### Recursion in the proofs

A recursive function `f[x \in D] == e` is one that is chosen among those with
`f = [x \in D |-> e]`, and so is a fold: nothing follows of it until one is
shown to exist. `ParsingLemmas` has four lemmas for that, in terms of sets and
functions, since none may have an operator as its parameter: `Induction` (a set
of numbers that has each number whose predecessors it has), `FixedPoint` (a step
that looks only at places of lower rank has a function that it fixes), `Unique`,
and `Fold` (an iteration over `1..n` and what is true of it all the way). Each
scanner, loop and fold is then an instance: a `...Next` operator that spells out
one step, a rank (the bytes that are left, the places that are left), and a
lemma `...GoesOn` with the recursion as an equation and its type.

Only model-checked:

* `AesRoundTrip` and `AesKnownAnswer`: ten rounds of table look-ups. The first
  would need the algebra of the field behind the tables, the second is about
  one block.
* `HandledOnce`, which for every packet would need that a token list, a frame
  scan and a request read less from a packet's beginning than from the whole.
* Liveness under fairness: `Authenticates`, `EnableRescues`, `StallNamed`,
  `DialledOnEi`, `ReaderComesBack`, `AnswersEnd`, `StartSwitches`.
* `MCPrograms.TypeOK`, which puts the type invariants of six programs together;
  of those `MlTypeCorrect` is proved, and what `AclInv` and `ReaderInv` say of
  types covers `AclTypeOK` and `ReadersTypeOK`.

## 5. What the models showed besides the findings

Behaviour of the code that contradicts no line of it, or is outside the bounds
of what a run states, and that a maintainer may want to know:

* `_trim_iap` of the bridge takes a one-byte command, so `EI_GET_RETURNS` never
  matches an Extended-Interface request; `AsBaseline` is stated for the General
  lingo, without 0x05, whose ack differs.
* A certificate in several reports is acked once more by the raw fallback. A
  0x55 in a report between a packet's first and last is taken by it for a packet
  (the exception in `HandledOnce`). Reports that come by SET_REPORT are not put
  together, as the comment in `read_loop` says, and `HandledOnce` leaves them
  out.
* The bridge's sender threads and its read loop write reports in turns, and the
  head unit then joins reports of two packets (the exception in `WholeFrames`).
* A packet of length 0 makes `_split_lingo_cmd` read past its body: a phantom
  packet, or `IndexError`, by where the chunk ends. A stray 0x55 makes the
  parser wait for up to 255 bytes more. `build_packet` raises above 255 bytes.
* `sniff_capture` keeps a stale partial packet when a complete first fragment
  arrives, and yields payloads with their L2CAP headers, so that a frame cut
  across L2CAP packets has header bytes inside. `decode_capture` shows large
  packets raw.
* In the AppMode channels a StartAuth cut across two chunks is never answered,
  and what is left of a cut frame can read as a StartAuth.
* A kick can follow a window armed between the announcement and its session id
  (the exception in `DataAfterAnnouncement`); an announcement whose send failed
  is not repeated in its window; a reconnection in a window is marked
  `mfi_auth_reloop`. General command 0x05 puts the harness in `ei_mode` without
  a dial, and a dial while the address is unknown is not made up for until
  another Extended-Interface packet comes. The end of one session cancels the
  silence timer that another has started, and with it the report of what that
  one had on record (the exception `torn` in `StallNamed`).
* The counter of challenges outlives the connections over USB, and the 256th
  raises `ValueError`, which ends the daemon. A certificate that is started
  again is joined to the sections kept of the old one.
* The MirrorLink description names an event URL per service whose SUBSCRIBE is
  answered 412, and 404 and 412 answers name no length: such a client waits for
  the timeout. A search answered after the byebye leaves the device known. An
  `OSError` in `msearch_responder` ends its thread. `AppURI` may be handed out
  before the DAP socket is bound. The static description's `URLBase` ignores
  `--ip` and `--port`.
* Two RFCOMM sessions of the same second share capture files.
* A failed identity switch leaves the AOA gadget unbound until a teardown.

## 6. Plan

Done: every module of section 2, its runs and the theorems of section 4. What
remains would widen the models rather than prove more of them: the `ei_mode` and
`host_only` paths of the harness once a hypothesis enables them, and the
decoders of `sniff_capture.py` above the reassembly.

## 7. Not modelled

* `mirrorlink_usb_cmd_listener.py`: each request acknowledged or drained by
  itself, no state. `aoa_gadget.c`: `AoaTwoStage`'s loop without the switch.
* `appmode.py`, `apps.py`, `markers.py`, `set_apple_did.py`, the test and setup
  scripts, `hdmi_testpattern.sh`, `msd-gadget`: run once by hand, sequential,
  no state beyond the files they write.
* The MD5 of `derive_key` (a symbol), the XML of the MirrorLink descriptions,
  the exchange on a DAP connection, `parse_identify_device_lingoes` and the
  other printing of decoders, USB descriptors.
* D-Bus and BlueZ registration (library calls), logging, the console's
  questions and the reports of the harness, its `ei_mode` triggers and
  `host_only` paths, which no shipped hypothesis enables.
* What the head unit does inside: it is the external end of each model.
