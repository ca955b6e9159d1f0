# droppix: a TLA+ model of the streamer and its clients

droppix turns a phone, a tablet, a browser or another PC into an additional
monitor. A host process (`droppix_stream`) creates a virtual display, encodes
what the compositor draws on it and sends it to a client over TCP/TLS, a USB
accessory cable or a WebSocket; input and control messages come back on the same
connection. A Qt GUI starts one such process per monitor and ends it by closing
its stdin.

This directory holds the TLA+ specification of that system: modules, TLC
configurations, and proofs for TLAPS. `PROJECT.json` maps every definition to
the lines it models and lists the runs, the hazards and the theorems.

## 1. Inventory

| part | state it keeps | operations | talks to |
|---|---|---|---|
| reconnect loop, `host/src/stream_main.cpp` | `g_stop`, `g_overlay`, `g_live_orientation`, `g_gate` | accept loop, stdin thread (EOF = stop, `approve`/`deny`/`overlay` lines) | GUI (stdin, stderr lines), StreamDaemon |
| session, `host/src/stream_daemon.cpp` | source, encoder, rate, `restart_for_orientation`, audio claim, pacing | `run_until`: accept, HELLO, approval, build, stream loop, flush | TransportServer, encoder, injector |
| transport server, `host/src/transport_server.*` | listener, channel, **parser**, **latches** (`params_`, `keyframe_requested_`, `said_bye_`), **handlers** | accept, read_hello, send_*, poll_control | one client at a time |
| encoders, `host/src/encoder*.h`, `*_encoder.cpp` | codec context, frame index, forced-IDR flag | open (again), encode, flush, request_keyframe | session |
| audio capture, `host/src/audio_streamer.cpp` | reader thread, queue, claim file | start, drain, stop | parec, other streamers |
| input injection, `host/src/input_injector.cpp`, `mt_slots.cpp`, `tap_gesture.cpp` | slots, pen and button state | one handler per input message | uinput |
| web front end, `host/src/web_frontend.cpp`, `ws_channel.cpp` | the connection being paired | accept, static files, PIN, upgrade | browsers |
| displays, `host/src/virtual_display.cpp`, `evdi_frame_source.cpp`, `desktop_backend.cpp`, `monitor_geometry.cpp` | lock files, evdi nodes, the desktop's layout | claim, connect, wait for a mode, identify, place, map touch | compositor, other streamers |
| accessory link, `host/src/aoa_connect.cpp`, `aoa_channel.*` | the device held open | handshake, adopt, reset, claim | USB bus, other streamers |
| codec, `host/src/protocol.*`, `session_params.*`, `cvt.*`, `edid.*` | the parser's buffer | encode, decode, feed, next | transport server, display source |
| approval gate, `host/src/approval.h` | decisions by device | submit, wait | GUI (stdin), session |
| spacedesk server, `host/src/spacedesk_server.cpp` | two threads, two sockets | start, stop, serve | third-party viewers |
| GUI, `host/gui/` | session table, server toggle, discovery lists, approved devices | start, stop, refresh, toggle mirror, approve, auto-connect | streamers |
| Android app, `android/app/` | Activity state, orientation, decoder, socket threads | dial loop, HELLO, CONFIG, input, BYE | streamer |
| web client `web/src/`, Linux client `client/` | transport, decoder, audio clock | connect, pair, decode, input | streamer |

What is hard in it, and for which properties are written:

* The TransportServer **outlives** the sessions it serves. Its parser, latches
  and handlers are carried from one connection to the next.
* HELLO, ORIENTATION, CONFIG and the rebuild of the source race: the device may
  turn at any point, and a disagreement about the shape would restart the session
  for ever.
* Connections end in every way: FIN, reset, silence, BYE, a write that fails
  before the control messages were read, stop from the GUI.
* Live parameters are latched, coalesced and applied one frame later, by an
  encoder that may refuse.

* Video is paced before the encoder and refused after it; the chain of references
  the decoder holds must survive both, a live reopen and a new decoder.
* Fingers and pens change while messages are under way and sessions end; the kernel
  must never be left with a contact.
* The GUI restarts streamers from slots that run when a process has ended, quickly or
  after a kill, while the user goes on clicking.

* Two streamers share a desktop, evdi's nodes, an audio sink and a USB bus, and each
  knows of the others only by what it finds there.
* A user's answer, an evaluation that is armed, a poll of adb, a setting that is handed back: all come
  later than the state they were asked in.
* The window of the Linux client waits for its network thread, which posts to the window.
* One browser at the PIN prompt has the port of the web front end to itself.

`PROJECT.json` lists every hazard at its line with the property that covers it, or what is
known of it (section 6).

## 2. Plan

| # | module | models | status |
|---|---|---|---|
| 1 | `StreamServer`, `StreamServer_proofs` | reconnect loop, session, transport server, devices and connections | done |
| 2 | `VideoPath`, `VideoPath_proofs` | pacing against the backlog, GOP, keyframe requests, the clients' decoders | done |
| 3 | `TouchScreen`, `Touch`, `Touch_proofs` | fingers and pens: view, messages, slots, tap gesture, devices; implements a set of fingers | done |
| 4 | `GuiSessions`, `Gui_proofs` | session list, server switch, refresh and re-arm, mirror toggle | done |
| 5 | `LinuxClient` | window, dialogs and network thread of the desktop client | done |
| 6 | `DisplaySetup` | evdi nodes and locks, identification and placement of the output, touch mapping, audio sink | done |
| 7 | `WireCodec`, `WireCodec_proofs` | bytes to messages; HELLO to session parameters, mode and EDID | done |
| 8 | `WebPath` | the front end of `--web`, the WebSocket, the page, the settings that are handed back | done |
| 9 | `Discovery`, `AoaLink`, `UsbHost` | lists, auto-connect, stores; the accessory handshakes of several streamers; the two composed | done |
| 10 | `Approval` | gate, request lines, nested questions, stores | done |
| 11 | `Gui_proofs`, `LinuxClient_proofs`, `OtherLinks_proofs`, `DisplaySetup_proofs` | the theorems of section 5 about modules 5, 6, 8, 9, 10, 12 | done |
| 12 | `Spacedesk` | the second listener of every streamer, for the viewers of another product | done |
| - | a second network thread of the Android app | `stopStreaming` gives up joining (StreamActivity.kt:534) | left |

Each module has its parameters and their assumption in front, one action per handler,
and, where a configuration cannot write a value, an `MC` module that adds it.

*Composition.* The modules meet at named outcomes. `VideoPath` and `Touch` are what happens
inside the streaming phases of `StreamServer`; `DisplaySetup` is its `build`; `AoaLink` and
`WebPath` are two other ways to its channel; `WireCodec` is why a message may be an atom in
all of them. `GuiSessions` starts and stops the process whose life `StreamServer` is;
`Discovery` decides when (its `Connect` and `Evaluate` are the calls of `connectDevice`), and
`Approval` is the gate that `StreamServer` abstracts to its outcome. `UsbHost` composes
`Discovery` with an instance of `AoaLink` step by step: both see one bus.

Abstract specifications: `TouchScreen`, a set of touching fingers, which `Touch` implements. In
`WireCodec` the abstract one is the sequence of messages sent (`MessagesArrive`).

Theorems left: none of an invariant that a run checks. Action properties that no run states yet would be next.

## 3. Modules

### StreamServer

One streamer, the devices that dial it and one TCP connection per dial.

* *State.* `phase` is the program counter of the main thread (`accept`, `hello`,
  `approve`, `build`, then the stream loop `loop`, `frame`, `poll`, `dispatch`,
  and `flush`). `buf`/`cut` are `parser_`: complete messages and the connection whose
  partial message it holds. `pending`, `keyReq`, `saidBye` are the latches;
  `orientH`, `touchH` name the session whose locals the handlers captured;
  `liveOri` is the slot `cfg_.live_orientation`; `shape` the shape of the source;
  `rate` the running fps/bitrate pair. `chan` says whether `channel_` is open.
  `old` are the devices whose protocol has no orientation in HELLO. A connection is a
  number, in the order of dialling; `link`, `wire`, `cfgs` are what TCP holds of it.
  `said` (the orientation a device had when it dialled), `turned` (the connections it rotated on),
  `torn` (the connections that were accepted on a HELLO nobody wrote) and
  `restarted` (the last session torn down for its orientation) are histories.
* *Actions.* One per step of `run_until` and per message type of `poll_control`;
  on the device side one per event of the Android app (dial, probe, rotate, CONFIG
  in two steps because the UI thread may submit a newer orientation between the read
  and the submit, live params, BYE, pause, leave) and of the network (drop,
  retransmission timeout).
* *Abstracted.* A message is its type, its connection (a history field, 0 for a message that nobody
  wrote) and the one field its handler uses. Sizes are one of three shapes. A chunk may
  end within a message (`Split`). The approval is its outcome. The overlay, the statistics and
  the wall layout are left out.
* *Misread bytes.* When the parser holds a part of a message of an older connection, the new bytes
  complete it. `Receive` lets the part swallow any number of messages, and then be nothing, or be taken
  for a message of `Misread`; the boundary is found again there, at a later message, or never. A HELLO
  that comes about in this way has the version, size and rate of some `Garbled` one, and `read_hello`
  accepts it: the session is served, aligned or not.

### VideoPath

The video of one session, from the capture loop to the client's decoder.

* *State.* `param`, `limit`, `dropping` are the locals `cur_fps`/`cur_bitrate`,
  `backlog_limit`, `dropping_for_backlog` of `run_until`; `gop` the place the encoder's next
  packet has in its GOP; `keyReq`, `latched` the latches of the transport server; `pending`
  what SIOCOUTQ reports; `stream`, `control` the two directions of the connection;
  `place` the last packet the decoder took, `quiet` the client's rate limit
  (`lastKeyframeRequestMs` on Android, `dropUntilKey` on the web).
* *Actions.* `SkipFrame` and `EncodeFrame` are the two ways of one pass of the loop (the
  second with the live reopen, its CONFIG, the request and the send), `SendAudio`,
  `PollControl`; the client reads, decodes, drops, discards, fails, and changes its quality.
* *Abstracted.* A packet is its place in the GOP; its size one of two. The codec is the
  rule that a packet at `k > 0` needs the one at `k - 1`. Acknowledgements, the decoder's
  refusals and the change of the screen are external choices.

### Touch and TouchScreen

From the glass of the tablet to the kernel's input devices.

* *State.* `glass` is the tool of every pointer; `wire` the messages; `idSlot` is
  `MtSlots::idSlot_`, `tap` the state of `TwoFingerTap`, `anyDown`, `penDown`, `penEraser` those
  of `InputInjector`; `contact`, `btnTouch`, `penKeys`, `penTouch` what the kernel was told.
* *Actions.* One per kind of motion event (a new pointer, a move, a lift, a cancel), the
  touch button, one per message polled, and the end and start of a session with the
  destructor and constructor of the injector. A motion event is sent as a whole, as a pen
  event if pointer 0 is a pen, as a list of contacts if not.
* *Abstracted.* Positions and pressures. The gesture's "moved" and "quick" are free
  choices. Contacts come in ascending id order, as Android lists them, and so "the first free
  slot for each new contact" is the k-th free slot for the k-th new contact (`Rank`).
* *`strayed`* is a history variable: in this session a pen and a finger were on the
  glass together, or touch was switched off under a pointer. `NothingStuck` excepts these two,
  which do leave a contact behind (section 6).
* `TouchScreen` is what the desktop may count on, without slots of memory, messages or a
  tablet; `Touch` implements it under `finger <- contact`, `pressed <- btnTouch`, `present <- up`.

### GuiSessions

The GUI's list of streamers. Qt's thread is one, and the order in which it runs slots
is the subject: `emitting` holds the slots of `runningChanged(false)` still to run, and
nothing else happens until they have.

* *State.* `ctl` are the StreamControllers ever made, with the process they hold and the
  one-shot slots that wait for its end; `sessions` those in `sessions_`, in list order by
  number; `rows` the visible list; `enabled`, `serverKey`, `refreshing`, `everConnected` the
  fields of `MainWindow`; `rearms` and `dueRefresh` the timers that are due.
* *Actions.* The user's clicks, the timers, the ends of processes, and each slot. `Stop`
  is `StreamController::stop`: the process ends within the 3 s of `waitForFinished`, and its slots
  run inside the call, or it is killed and ends later, with the event loop running in between.
  The first signal of a process uses up its one-shot slots, `true` or `false`.
* *Abstracted.* Elapsed time is a choice where `shouldRearm` reads it; a device has one key;
  approval is an event that adds a row.
* *`hasty`* is a history variable: a restart was asked for while another one of the same
  streamer was waiting or while it was still starting, or the switch was moved while a restart
  was due. Each of these breaks a property (section 6). `turned` is one, too: the mirror was
  toggled on the row of a listener that had approved a device. What starts then has the listener's key
  and is not `serverKey_`; from there on `SingleListener` and `SwitchObeyed` speak of the listeners that the
  switch started, before it of every streamer with a listener's key.

### LinuxClient

The desktop client: a window whose thread runs nested dialogs and captures input, and the
network thread it starts, restarts and joins.

* *State.* `gui` is where the window's thread is (`leave`, `restart` and `quit` wait in
  `join`, `changing` and `showing` are behind the write of `settings_`, `sending` is in a blocked send); `dialogs` the
  nested event loops; `page` and `connected` what it shows; `events` the calls that the network thread queued. `pc`
  is the network thread (`netThreadMain` and `TransportClient::run`), `none` when the object is not joinable;
  `asked` and `taken` what it read of `settings_`, `look` what the decoder was told; `channel`, `conn` the
  connection; `keys` is `heldKeys_`, `hand` the keys that the user holds, `focus` whether the video has the
  keyboard; `remote` what the host holds down once it has read everything.
* *Actions.* One per slot of the window (two for the settings: the write, and what follows it), per queued call, per
  step of the network thread, and per capture handler of the video widget; the window system moves the focus and gives
  a release to another window; the host goes, comes back with another certificate, says Bye, or is silent: a handshake,
  a read, a write and the shutdown of TLS wait for it.
* *Data race.* The thread reads `settings_` without a lock (main_window.cpp:190) while the window may write it (151). A
  read that the write overlaps gives the old or the new settings, field by field (`ReadSettings`); what was read is
  applied a step later (`ApplyLook`). `stale` is a history: the look that was applied was no longer in force.
* *Abstracted.* Decoding and audio; what a touch holds; a probe of the pairing code is one step. The two
  seconds of a ping interval are a free choice.
* A stream that ends by itself leaves `pc = "done"`, and the next `StartSession` aborts
  (section 6): what follows is another run of the program, so `gui` is `gone`.

### DisplaySetup

How several streamers get monitors on one desktop.

* *State.* `desk`, `at`, `prim`, `plugged`, `linked`: the connectors and the layout, as KWin
  or X11 has them; `dev`, `owner`, `select` evdi's devices and the lock files; `claim` and `rec` the audio
  lock and the `parec`s that hold it, `loose` those that were started live without it; `s` one record per streamer: its stage in `run_until`
  and the locals `before_outputs`, `droppix`, `after_outputs`.
* *Actions.* The steps of a session in order: snapshot, wait, claim the node under
  `select.lock`, connect, wait for a mode, identify with retries, adopt (which links the cards on X11), apply the
  layout, place, start, switch the audio live, end, close. Queries and commands may time out (`Reply` or `Nothing`,
  `Command`); the desktop enables and drops outputs in its own time, on X11 too; a process may be
  killed; a screen is plugged in. `link_providers` is no action: its script does nothing (section 6).
* *Abstracted.* The text of `kscreen-doctor` and `xrandr` is what it lists or moves. Sizes are two. An
  output is its node.
* *`unsure`* is a history variable: a streamer chose its output by a snapshot that was not
  `Sound` (the outputs changed by more than its own since). `OwnOutput` and `AtItsPlace` except it:
  see section 6.

### WireCodec

The bytes of the protocol.

* *State.* `wire` the bytes on the way, `buf` and `pos` those of `MessageParser`, `sent` and
  `got` the two ends.
* *Actions.* `Send` encodes a message, `SendJunk` a malformed length; `Feed` delivers a byte (a
  larger portion is several of them); `Skip` and `NextMessage` are `next()` with its
  compaction and the decoder of the type.
* *Operators.* The layouts of the 17 message types; `DecodeHello` by versions; then
  `SessionParams`, `Dims`, `ModeHz`, `Timing` (CVT reduced blanking), `WriteDtd` (the
  detailed timing of the EDID) and what the desktop reads in it, `ReadDtd`.
* *Abstracted.* A byte of the wire is a number below `Base` (20 in the run): every operator is
  parametric in it, and 20⁴ is within TLC's integers where 256⁴ is not. The bytes of the EDID
  are bytes, and the timings are computed with the numbers of the code.
* *Assumed.* Of a message that it fits: each field its bytes, a name the range of its length, the whole
  `kMaxMessage` (`Sendable`); the encoders take fields of those widths and check no length. Of a malformed length, that
  the parser takes it for one.

### WebPath

A streamer with `--web`, its port, pages of browsers and the GUI that keeps their settings.

* *State.* `conns` both directions of every connection, `queue` the ones not accepted; `host`,
  `cur`, `pinTries`, `loaded`, `settings` the streamer; `file`, `lines`, `writing` the GUI's
  `web_client_settings.json` on its way; `page` the state of `transport.ts`.
* *Actions.* `Accept` serves a connection by its kind; `RightPin`, `WrongPin`, `OtherAtPin`,
  `GiveUp` are `verify_web_pin`; `ReadHello`, `NoHello`, `Poll`, `EndSession` the session; the page
  connects, enters codes, receives, times out its `helloTimer`, edits its settings, leaves; a native
  client, a request and a connection opened in advance come and go.
* *Abstracted.* HTTP is the kind of a connection, a frame is one message. Settings are the number of
  the edit that made them.

### Discovery, AoaLink and UsbHost

`Discovery` is the GUI's one thread: four scanners, the rows of the list, the debounced evaluation, the
stores, the misses of `AoaPresence`.

* *State.* `near` what a scan would find, `seen` the four lists, `rows` the snapshot that is
  shown and evaluated, `armed` the timer, `polls` the running `adb devices`, `session` the
  entries, `turning` those that the mirror toggle starts again, `known` and `approved` the stores, `auto` the
  setting.
* *Actions.* The report of every scanner, `Evaluate` (`devicesToConnect`, the takeovers and the
  connects of its plan in order, under the cap on sessions), the two switches and the setting, clicks, the mirror
  toggle, ends. The searches of the network (`Answers`) find tablets at any of their addresses: the probe for tethered
  ones goes out on every interface, and the app answers on all.

`AoaLink` is `aoa_connect` of every streamer on one bus: step 0 (an accessory that is there),
adopt or reset, steps 1 to 3, claim, session, the retry of `main`. A tablet in accessory mode
has lost its own product id, and `open_accessory` opens the first of the bus. Claims may
fail until a reset (`wedged`).

`UsbHost` EXTENDS the first and instantiates the second: `Gui(action)` is a step of the GUI, which
may start (`connect`) or end a process; `Usb(action)` a step of a streamer or of the bus,
after which the scans see another tree; a BYE is both.

### Approval

The streamer's gate, the lines on its stderr, and the GUI's questions.

* *State.* `phase`, `peer`, `gate` of each streamer (`ApprovalGate::decisions_`); `out`, `told`,
  `buf` the lines in QProcess, whether `readyRead` is due, and those the slot has taken; `asking` the
  open questions, innermost first; `approved` the store, `woken` the 15 s of `pendingWakes_`.
* *Actions.* Dial, admit, deny, time out; read, answer from the stores, ask, the user's answer;
  the end of a process under an open question; wake and forget.
* *Abstracted.* A request is its device. A slot that asks stays on the stack, so its readyRead is
  not emitted again (`Asks`), which is Qt's rule. What a slot does in a deleted controller is a free
  choice (`gui`: it crashes or not).

### Spacedesk

The second listener that every `droppix_stream` opens, for viewers that speak the protocol of another
product and see the screen as JPEG stripes. All processes of a machine want one port; the module is
the process that got it and those that follow it.

* *State.* `main` the thread that starts and stops the server; `listening`, `disc`, `waiting` its sockets;
  `acc` the program counter of the accept thread, `client` the connection it serves, `size`, `enc`, `stripe`
  the locals of `serve_client` (the capturer's size, the size the JPEG encoder is open with, the loop
  counter); `link`, `wire`, `said` what the kernel has of each connection; `knows`, `conn`, `covered`,
  `shown` the viewers (what they heard, the connection, how far the picture is painted).
* *Actions.* `Start`; `MainReturns` and `ThreadsJoined` are the two halves of `stop()`, `Kill` the `_Exit` of
  the stdin thread; `AcceptViewer` to `EndClient` the steps of `run()` and `serve_client`, `Beat` its
  heartbeat, `GrabFrame` and `NothingNew` the two results of `next(16)`, either of which may bring
  another mode, `Stripe` and `StripeFails` the stripe loop; a viewer hears, dials, says hello, reads, leaves,
  vanishes; the kernel gives up on data nobody acknowledges.
* *Abstracted.* The constants of the headers, names and logs. A JPEG is the size it was encoded with.
* *`gaps`, `resized`* are histories: connections with a stripe that the encoder refused, and
  those whose mode changed its width (section 6). `PicturesWhole` excepts the first from its
  continuity and the second from its width.

## 4. Runs

| run | instance and bounds | shows |
|---|---|---|
| `session` | one phone, 3 connections, 2 messages besides HELLO and the CONFIG's echo (keys and touch among them), split chunks, 1 misread HELLO | types; a session that began on its client's HELLO acts on its own messages only; in it the newest parameters win unless the encoder refused; no accept after a heard BYE |
| `liveness` | one phone with or without an orientation in its HELLO, 2 connections, 1 turn, 1 BYE, drop or pause, whole messages, no live parameters | a session is torn down for its orientation only if its device turned, or, with an old client, once after another client was served; BYE or stop ends the process; no device keeps the wrong shape |
| `video` | both clients, two bitrates and frame rates, audio, 3 packets unread, 1 live change | pacing is bounded by the bitrate in force; no picture is smeared; an IDR within one GOP; a broken picture is repaired |
| `touch` | 3 pointers, 2 slots, 7 events, 3 messages under way, 1 end of a session | kernel and slots agree; nothing is stuck; clicks come only from lifts; `TouchScreen` is implemented |
| `gui` | one device and the listener on 2 ports, 5 clicks, 2 ends of streamers | every streamer is governed by an entry of its own; one listener, and the switch is obeyed, until a mirror turns the listener |
| `client` | a host with 2 certificates, 2 shapes and 2 looks of the settings, a key, 3 clicks, 2 faults | the button tells the truth once all is quiet; the host has the user's settings and keys; stopping returns unless the host is silent; a session gets its stream back |
| `display` | 2 streamers, one a mirror, 3 nodes, 2 screens, 2 sizes, KWin and X11, 1 retry, 1 fault, 1 end | a streamer takes its own output and ends at its place; nodes are used again; one capture under the lock, with audio switched live |
| `codec` | every two of 28 messages and malformed lengths, byte by byte; every HELLO cut at every byte | messages arrive as meant; HELLO is obeyed as far as it goes; its mode survives the EDID |
| `web` | a page with 2 sockets, a native client, a request, an idle connection, 2 tries, 1 edit, 1 frame under way, SIGTERM | the code guards the stream and the tries shown are those left; settings come back in time; nobody blocks the port or the end |
| `usb_host` | one tablet by accessory, adb and Wi-Fi (which the search for tethered ones finds, too), starts with the network or USB off, 2 sessions, 3 misses, 1 poll, 1 click, 1 change of the world, 2 of the bus | auto-connect starts nothing that is off, but what the search over all interfaces finds, and a reconnect starts clean; an unplugged monitor goes; a known tablet streams again |
| `approval` | a listener, 2 devices, 2 unread lines, 1 wake, 1 forget, 1 end of the process | a device off the list gets one late session at most; one on the list gets in |
| `spacedesk` | a viewer that needs the discovery and dials twice, 2 starts of a process, 1 change of the mode, 1 message unread; 208 610 states | what a viewer reads continues its picture; `stop()` returns; a viewer that is gone is noticed |

Bounds. Two connections are the least on which state can leak from one session to the
next, and a third lets it pass through a session that does not use it; two sends make a burst
of parameters. `session` has no turn and `liveness` no chunk that splits a message, so that
each finishes: that `NoRestartLoop` survives split chunks and misread messages is proved
(`NoLoop`) and not run. The misread HELLO is
of another protocol, size and rate than the phone's, so that whatever it leaves shows. In `video` the
limit (250 ms of 6 Mbit/s, or the 64 KiB floor) is two to six packets, so that dropping starts,
stops by hysteresis, and a live change moves the limit in either direction; the GOPs of the
two rates differ. In `touch` two slots for three fingers make a contact wait for a slot, and
seven events are a pen stroke after an interrupted one. In `gui` two ports make the allocation
fail, and five clicks are an edit, a toggle, a mirror and the switch moved twice. In `client`
three clicks are a connect, a change of settings and a disconnect, and the two faults a host that goes
away and one that is silent, or a Bye. In `display` two streamers are the least that
interfere, and a third node would be growth. In `codec` two messages are the least between which a
cut, a compaction or a junk word can fall; the samples are at the ends of the ranges of their fields. In
`web` one connection that waits behind the one served is what blocking is about; two sockets are a page
that comes back while the host holds its old one. In `usb_host` one tablet has two ids (serial and app), so that a
takeover and a second monitor are possible; three misses are the code's. In `approval` two devices are a question and the request behind it. In
`spacedesk` one viewer that dials twice shows what the first session leaves to the second; the two modes
have other widths, heights with and without a remainder, and first stripes of the same rows; one
message of room makes every send wait.

`CHECK_DEADLOCK FALSE` in all of them: each instance may use up its bounds (a streamer
that has exited, with devices that dial no more), and then it stops.

*Fairness.*

* `liveness`: the main thread is weakly fair: each of its waits has a timeout, or ends when
  data arrives. `Exit` is fair because the stdin thread calls `_Exit` 1.5 s after EOF.
  `PollPing` is strongly fair because every client pings at 1 or 2 s intervals, so that
  `poll_control` eventually reads the messages that came together with HELLO. `OnConfig`,
  `SendEcho` and `Leave` are the client's own threads. Nothing makes a device dial, turn or
  answer a dialog.
* `video`: the screen keeps changing, so that the loop keeps getting frames, and an
  encoder does not return nothing for ever; the link acknowledges; the client reads; a decoder
  that is offered keyframes again and again takes one. Nothing makes a request succeed. The
  link may be filled by audio, which is not paced: `PictureRecovers` speaks of
  links that drain to half the limit again and again.
* `gui`: slots run before the event loop goes on; a timer that is due fires; a killed process
  ends. Nothing makes a user click or a streamer end by itself.
* `client`: both threads run (`Window`, `NetThread`). Nothing makes a user click, a host return, or one that
  is silent answer: the properties except a silent host.
* `web`: the streamer's loop runs (its waits have timeouts, but for the TLS handshake, which its peer
  ends: a browser closes an idle connection in the end); a client leaves its session at some
  time; frames arrive. Nothing makes a user enter a code.
* `usb_host`: the AOA scan ticks, an armed evaluation fires, a killed process ends, `aoa_connect`
  runs, a device that switches comes back on the bus. Nothing makes adb or avahi report.
* `approval`: the streamer's and the GUI's threads run, the user answers, a session does not last
  for ever, a streamer prints its statistics. Dialling is strongly fair: a device that is not served dials on, and the
  listener is not for ever taken by others just when it does.
* `spacedesk`: the threads run, and the heartbeat is strongly fair (the clock reaches the next 10 s). The kernel
  gives up on data that nobody acknowledges. That a viewer does not stop reading for ever is an assumption:
  nothing in the code bounds it (section 6).

## 5. Proofs

Each holds for every value of the constants that satisfies the module's assumption.

`StreamServer_proofs` (assumption `ServerAssumption`: any devices, connections, chunking):

* `TypeCorrect`: `TypeOK` is inductive; the lemmas `SliceType`, `ReceiveType`, `WriteType`,
  `SendType` type the helpers, one step per action the rest.
* `OwnMessages`: `OnlyOwnMessages` speaks of `buf` in the streaming phases only and is not
  inductive. The strengthening says where messages of a connection may be: those on a wire carry
  the wire's number, those in the parser the number of a connection accepted already, and once
  `read_hello` has returned they are all of `sess`, because HELLO is the first message of its
  connection and everything before it was thrown away. A remainder of an older connection
  swallows the HELLO of this one, or makes another of it: whoever is served on its client's HELLO receives aligned
  (`CutInv`), and what nobody wrote is alone in the parser until it is acted on (`MisreadInv`). `ReceiveFrom`,
  `ReceiveMisread`, `WriteFrom` and the lemmas on sequences (`SliceFrom`, `ConcatFrom`, `TailFrom`, `AppendFrom`) carry it.
* `ByeIsFinal`: from `ByeInv`, after a heard BYE the main thread is in the loop, flushing,
  or gone.
* `HandlersCurrent`: the handlers that are called belong to the session that is served, although
  `run_until` leaves them set when it returns.
* `LatestWins`: `LatestParamsWin`, from `ParamsInv`. The rate that was asked for last is followed on its
  way (`RateOnItsWay`): behind everything on the wire, behind everything parsed, latched, applied,
  or refused by the encoder; or this connection lost its HELLO and is streamed to on a misread one or never, of
  which nothing is said (`Promised`). The step from wire to parser needs `CutInv`.
* `NoLoop`: `NoRestartLoop`, from `LoopInv`. HELLO and the echoes say what the device was when
  it dialled, unless a rotation fell on that connection (`ToldInv`, `ConnInv`); without one a
  device says the same on every connection (`SaidInv`); what the host remembers after a restart is
  what caused it (`SeenInv`), a session on a misread HELLO apart, which ends the count as another client's does; so the source is built in the shape the device will agree to (`ShapeInv`). A bound on
  the *number* of restarts, which looks like the property to state, is false: TLC finds two devices
  that take turns, one of them older than version 4, with a restart at each change.

`VideoPath_proofs` (`VideoAssumption`: any sizes, rates, limits):

* `TypeCorrect`.
* `Paced`: `BacklogBounded`, from `PacedInv`: the limit is always that of the bitrate in force.
* `NeverSmeared`: `PictureNeverSmeared`, from `ChainInv`. What the client has not read is a
  chain (`StreamIntact`: each video packet follows the one before it, or starts a GOP), the
  encoder's next place continues it (`EncoderIntact`), and a web client that
  discards has lost a packet (`QuietIsLost`).
* `Recovers`: `RecoversWithinGop`, from `WaitInv`: a client that waits has counted fewer packets than the place of the
  first video packet on its way, or of the one the encoder makes next (`WaitShort`), and
  every place is below the GOP of a pair that occurs (`PlacesInGop`). The frame rate may change
  while packets of both GOPs are on the way.

`Touch_proofs` (`TouchAssumption`: any finite set of pointers, any number of slots):

* `TypeCorrect`, `SlotsCorrect` (`KernelMatchesSlots`), `PenCorrect` (`PenPaired`, which no run repeats),
  `ClicksCorrect` (`ClickOnlyAtLift`), from `Inv`: what the kernel was told of the slots, the
  key and the pen is what the injector remembers (`SlotsTold`, `KeyTold`, `PenTold`), a finger is
  down exactly while a slot is held (`SomeSlotHeld`), and an open gesture has a finger (`TapOpen`).
  The heart is that the assignment by rank is injective and total while slots last
  (`RankLess`, `RankBelow`, `RankInjective`, `RankOnto`, then `FreeSlotFree`, `FreeSlotInjective`,
  `PlacedOrFull`).
* `NeverStuck`: `NothingStuck`, from `Inv` and `ToldInv`: the last report of the fingers on the way names the
  fingers on the glass or none, and when there is none on the way the device shows them
  (`FingersTold`, `Shows`: a finger is left out only when every slot holds another); the same for
  the pen (`StrokeTold`). No message outlives its session. One lemma for the tablet's side (`TabletTold`), one
  for each kind of message.
* `TouchImplementsScreen`: every step of `Touch` is a step of `TouchScreen` or a stutter;
  `EmitMatches` gives the `Report`.

`Gui_proofs`, the two parts of the main window that share no state. About `GuiSessions` (`GuiAssumption`: any devices,
number of ports and clicks):

* `TypeCorrect`; `SessionsGoverned` (`Governed`), `KeysDistinct` (`OnePerKey`), `ListenerSingle`
  (`SingleListener`) and `RowsCorrect` (`RowsMatch`), from `Inv`; the second and the last are theorems only. Those four speak of states in
  which no slot waits, so none is inductive. `Inv` also says what happens between: `Emission` lists
  what can still be called after an end (the teardown of an entry, then its one restart, whose key
  and port are taken by nobody else), `Waits` what a live process has waiting for its end,
  `Due` that at most one of a waiting restart, a restart being called and a `singleShot(0)`
  would make a listener, and `OneKept` that none of them coexists with a listener. `Inv` holds as long as
  no restart was asked for in haste (`~hasty`). `ListenerSingle` counts every streamer with a listener's key
  (`OwnKeys`: such a key comes from the switch, a refresh, or a mirror toggle of one of those), and once a
  listener was turned into a mirror (`turned`) only those of the switch.
* The lemmas `TurnLists` (an end, a start or a stop of a process), `StopLists` and `StartLists`
  carry the list, `ServerOrderly` the listener; each action has its lemma `...Orderly`.

About `Approval` (`BoundsAssumption`: any streamers, devices, bounds):

* `ApprovalTypeCorrect`, from `TypeInv`: what a streamer waits for is a device, and of the questions that are
  still open each is about the head of its slot's lines, one to a slot (`LiveAsks`). Without it
  an answer could take the head of an empty sequence.
* `LateAnswers` (`OneLateAnswer`), from `LateInv`: a late session that was counted has used up the decision of
  its gate, a device on the store has no count, and one that nobody let in has neither count nor
  decision. One lemma for each kind of step on gates: decisions are lost (`FewerDecisions`), taken
  (`AdmitLate`), given with an entry of the store.

`LinuxClient_proofs` (any certificates, settings, keys):

* `TypeCorrect`, in parts (`WindowOK`, `NetOK`, `SharedOK`, `InputOK`) that most steps leave alone.
* `ButtonSaysRunning` (`ButtonMatches`), from `ButtonInv`: the button and `running_` part only
  while a stop is under way or an end is in the queue; delivering that end sets the button to what
  `running_` is then, and not to off.
* `UserOnTheHost` (`HostHasTheUsers`), from `HostInv`: outside a stop a session that is off has no thread under
  way (`IdleInv`), so that settings which change without a restart are read by the next thread; a thread that read
  while they were written is replaced when the shape changed (`AskedInv`), and applies a look that is in force or is noted
  as stale (`LookInv`). What the host holds the widget has recorded, what it has recorded the user holds while the
  video has the focus, and it has recorded nothing when the focus is gone (`HeldInv`).

`OtherLinks_proofs`, the accessory cable, the browser and the viewers of another product. About `UsbHost` (`DiscoveryAssumption`: any
tablets, offers and stores):

* `CleanStarts` (`StartsClean` of the composition), from `ListInv`: the list of a scanner whose switch is off is
  empty, that of adb excepted, whose ids are never approved (`OnlyOverWhatIsOn`); and a tablet with a missed
  scan is in no list of the cable, because the scan that missed it replaced the list. So whatever is connected has
  its count at zero; only the restart of a mirror toggle, which needs no row, has not.

About `WebPath` (`WebAssumption`: any pages, tries, bounds), from one invariant, `WebInv`:

* `CodeKept` (`PinKept`): the codes are counted twice, by the page as it sends them and by the host as it reads
  them. `CodesCounted` says that some function counts the wrong codes frame by frame along what is on its
  way and ends where the page is; a right code finds no fewer counted than were entered before it.
  What the page shows is the last result on its way (`Told`).
* `SettingsKept` (`HandedBackInTime`): after the right code its result comes once, then the settings, once, and last
  (`SessionState`); a page that has them and says HELLO says it with them, so the session begins with them.
* Both need that a connection waits in the queue once and blank until it is accepted (`Queued`), that the page's socket opens
  before anything else arrives on it (`OpenFirst`), and at which stage the host serves which kind
  (`Stage`). `PageActs`, `PageSends`, `PageReads`, `PageLeaves` carry the invariant over the page's steps,
  `HostServes`, `HostDrops` and `Begins` over the streamer's; the lemmas on sequences (`CountedAppend`, `CountedTail`,
  `ToldAppend`, `ToldTail`, ...) are about one frame more or less.

About `Spacedesk` (`SpacedeskAssumption`: any viewers, modes, bounds):

* `SpaceTypeCorrect`, from `LinksInv`: a connection waits once and is served after that (`QueueOK`), a viewer's is
  its own and up, or closed by the host (`ViewersOK`), and the thread is there only while the server is (`ThreadsOK`).
* `PicturesAreWhole` (`PicturesWhole`), from `PictureInv`: some function follows the picture along the messages under
  way (`Chain`), from what the viewer has to where the stripe loop goes on (`Ending`: the row of the next
  stripe, or a covered picture between two); the encoder has the width of the mode unless that has changed (`EncoderFits`). The
  heart is `StripeSent`: stripes meet, and the last one takes the remainder (`StripeRows`).

`DisplaySetup_proofs` (`SetupAssumption`: any finite set of streamers, any sizes, cells, screens, nodes):

* `OneRecorder` (`OneCapture`), from `RecInv`: the recorders that hold the lock are one at most, the claimant's,
  also when a live change stops it and starts it again.
* `NodesAreUsedAgain` (`NoGrowth`), from `GrowthInv`: a locked node is the node of its owner, which has no
  other, and one that is about to pick has none. When every node is locked, the locks are an
  injection of the nodes into the other streamers (`RoomForOne`).
* `TakesItsOwn` (`OwnOutput`), from `NodeInv` and `ChoiceInv`: nobody but its owner disconnects a node
  (`OthersKept`), so a streamer that asks has its output on, in its size, and in sight of
  a query (`OwnInSight`; on X11 a card is linked before it is lit); a query that comes back thus always
  has a candidate (`ReplyHasOutput`), and with a sound snapshot that is the only one (`SoundIsOwn`).
  That the first of a set of outputs is one of them rests on the well-foundedness of the natural
  numbers (`LeastNat`).
* `StaysAtItsPlace`: `AtItsPlace`, from `PlacedInv`: what each stage of a setup that missed no answer has done
  (`Settled`: a mirror lies over the primary once the layout is through, any other output is in its cell once it is
  placed, the rectangle for the touch is read after the last move). No step of another streamer undoes it, because what
  it moves or disconnects is its own, and the primary remains a screen (`PrimaryStays`).

`WireCodec_proofs` (`CodecAssumption`, `WordsAssumption`: any base above 17, limit, contacts and portions of the stream; any
messages whose fields and names fit their bytes, `Sendable`; any malformed lengths between them):

* *Induction over data.* The numbers, layouts and strings are recursive functions. The library's induction speaks of a
  predicate; here it is a set with a least element outside it (`UpTo`, from the well-foundedness of the natural
  numbers), and `Recursion` gives the one function that a recursion of n steps defines. On them rest what `Num`,
  `Limit` and `Offset` compute, that a number comes back from its bytes, and that a field that fits is read from its
  offset in any body.
* *One message.* `AllFaithful`: the body that is made of a message which can be sent is accepted and decodes to what is
  meant, type by type: fields of fixed layout, the signed deltas of a scroll, each contact of a touch up to the tenth,
  the blocks of a HELLO of each version and its two names. `CutHarmless`: whatever prefix of a HELLO
  is accepted, each of its fields and names decodes as it was sent or as its default.
* `TypeCorrect`, `EveryMessageArrives` (`MessagesArrive`), from `Inv`. What arrived says nothing of what is to come,
  so `MessagesArrive` is not inductive. The strengthening is about the bytes that are not read yet, in the
  parser and on the way together (`Rest`): they are a chain of whole words (`Queued`), each the encoding of the next message
  that has not come out, or a malformed length. A message sent prolongs the chain (`OneMoreQueued`); feeding
  leaves it as it is; when the parser has four bytes they begin its first word (`FirstQueued`), so that a length that
  is malformed is junk and any other is that of the next message; when no byte is left all came out (`AllCameOut`).
  Compaction moves `pos` and `buf` and not `Rest`.
* `EveryHelloHeard` (`HelloHeard`), from `Inv`, `CutHarmless` and the fields that `SessionParams` reads.
* `EveryModeSurvives` (`ModeSurvives`), from `Inv`: the fields of `Timing` are whole numbers, and those of a mode within
  the reach of a detailed timing fit their 4, 8, 12 and 16 bits (`TimingFits`), which `ReadDtd` puts together
  again from bytes and nibbles (`DtdRead`).

Model-checked only: the liveness properties, `NobodyBlocks` of `WebPath` and the two of `Spacedesk` among them:
fairness and ENABLED are out of the prover's reach.

## 6. Divergences

The modules define these, which TLC refutes when they are put into a configuration. They say what
a document, a comment or a name promises:

| definition | statement | what happens |
|---|---|---|
| `StreamServer!ParamsAreOfThisSession` | WIRE.md:78, StreamParams applies to the running session | `params_` and `keyframe_requested_` are not reset (transport_server.cpp:171): a request read with the message that ended the session is applied to the next client |
| `StreamServer!ByeEndsService` | WIRE.md:50, Bye ends the reconnect loop | a BYE written while the host waits for approval, or unread when a write fails, is never read |
| `StreamServer!ServedOnOwnHello` | WIRE.md:23, Hello is "client -> host: capabilities + identity" | a part of a HELLO that the last connection left in `parser_` (transport_server.h:98, against "a clean socket", stream_daemon.cpp:57) is completed by the bytes of the next one, and `read_hello` takes what comes out (transport_server.cpp:104): the next client is served in another's size, and perhaps out of step, until its session ends |
| `VideoPath!KeyframeHonoured` | WIRE.md:68, KeyframeRequest forces an IDR on the next frame | the encoder in use is `AutoEncoder` (encoder_factory.h:20), which does not pass the request on; the picture is repaired by the scheduled IDR |
| `GuiSessions!SingleRestart` | main_window.cpp:1000, "the SINGLE restart" | two refreshes of a streamer that takes more than 3 s to end restart it twice (1002) |
| `LinuxClient!RunIsJoined` | transport_client.h:57, "run() must still be joined" | a session that ended by itself leaves `netThread_` joinable, and connecting again assigns to it (client/gui/main_window.cpp:170): `std::terminate` |
| `LinuxClient!LookInForce` | client/gui/main_window.cpp:153, "brightness/contrast are pure display transforms: apply live" | the thread of a session that starts reads `settings_` without a lock (190 to 205) and applies the look after the window has applied a newer one (154): the old look stays until the next change |
| `LinuxClient!StopReturnsAnyway` | transport_client.cpp:108, "periodic wakeup to recheck isRunning()" | `SSL_connect`, `SSL_read` and the writes run on a blocking socket without a timeout (client_socket_channel.cpp:38, 59, 69): with a host that keeps silent the window waits in `join` |
| `DisplaySetup!SinkShared` | stream_daemon.cpp:285, "Only one session may capture the shared droppix-audio sink at a time" | StreamParams that turn the audio on start `parec` without the lock (386 to 396), while another session holds it; turned off live, the session keeps the lock |
| `DisplaySetup!TouchOnOwn` | docs/superpowers/plans/2026-07-03-multi-monitor.md:117, "touch on each lands on its own" | the snapshot of the outputs is taken before the wait for a client (stream_daemon.cpp:27): the output of a session that started meanwhile looks new too |
| `WebPath!EditsLast` | transport.ts:169, "Safe before/after HELLO"; stream_main.cpp:239, "a reconnect must see the newest values" | the settings of the file are read when the loop waits for a client (stream_main.cpp:240): what a page edits before they come back is overwritten by them |
| `WireCodec!ClockFits` | stream_main.cpp:189, "something a real monitor could advertise" | the clock of a mode beyond 655.35 MHz (2960x1848 at 120 Hz) wraps in 16 bits of 10 kHz (edid.cpp:14) |
| `AoaLink!OwnTablet` (two streamers, two tablets) | aoa_connect.cpp:92, "another session's accessory (multi-monitor): leave it alone" | step 3 (131 to 134) takes the first accessory that shows up, without asking for its serial: a streamer that waits for its own tablet to re-enumerate claims the other's |
| `Discovery!SkipsNet` | docs/superpowers/specs/2026-07-21-comm-interfaces-design.md:68, with the LAN toggle off "skip net auto-connect" | the search for tethered tablets goes out on every interface (tether_scanner.cpp:24 to 30) and the app answers on all: an approved tablet on the Wi-Fi is in the list of USB, and is connected with the network off |
| `Discovery!RestartIsClean` | aoa_presence.h:33, "a later reconnect starts clean" | a mirror toggle ends and starts a cable session between two scans (main_window.cpp:1364), and the misses of the old one count for the new |
| `Discovery!CableWins` | auto_connect.cpp:27, "for a tablet visible on both transports, the cable wins" | the id of a cable is the serial of the hardware, that of the network the app's own: they are never equal, and one tablet gets two monitors |

Also met: a partial message that is no HELLO swallows the next one, and the connection is not streamed to; and the
script of `X11Backend::link_providers` (desktop_backend.cpp:192 to 206) does nothing. Its awk program stands in
single quotes inside `sh -c '...'`; they end the quoted script, and what is left is a syntax error. What the comment
above it promises (178 to 189), that an X11 card is linked and lit before `wait_for_mode`, is left to the X server and the
desktop; `adopt_output` links later, when the output is known.

Kept as exceptions of a property, or outside the instances:

* *Session.* A square screen agrees with no portrait orientation and restarts at every reconnect
  (stream_daemon.cpp:217 to 225); the instances have a phone. An old client takes the orientation that another
  device left in `live_orientation` (line 79). `run_until` returns with handlers that captured its
  locals; they are replaced before the next poll (theorem `HandlersCurrent`). A session that began on a HELLO
  which nobody wrote (`torn`) is excepted from `OnlyOwnMessages`, `LatestParamsWin` and `NoRestartLoop`. `ByeHeardIsFinal`
  is about a BYE that is heard: one that is left unread is `ByeEndsService`. Two clients that take turns on one
  streamer, one of them older than version 4, cost a restart at each change.
* *Video.* Audio is sent whatever the backlog is (stream_daemon.cpp:338 to 342): below the rate of the audio
  the pacing drops every frame. `BacklogBounded` is about video, and `PictureRecovers` about links that drain.
* *Touch.* A pen and a finger together: the tool of pointer 0 decides for all
  (GlDisplayView.kt:143), although the comment at 176 promises that every lift is sent; and touch
  switched off under a finger (StreamActivity.kt:138) sends no lift. Both leave the contact down
  until the next report or the end of the session (`strayed`).
* *GUI.* A refresh that meets a streamer whose `started` signal is still under way loses its
  restart, because the one-shot connection is used up by `runningChanged(true)`; a second mirror
  toggle gives two sessions one key; a switch moved to off is overruled by a refresh that waits
  (`hasty`). The mirror of an approved listener's row (`turned`) ends the listener, whose teardown clears `serverKey_`
  and, with the switch on, arms another (main_window.cpp:1264 to 1273), and then starts it again with its key
  (1364 to 1371): two streamers with a listener's key, and the switch no longer stops the first of them.
* *Approval.* A decision that comes after its wait stays in the gate (approval.h:28): a late allow serves a
  forgotten device once, a late deny refuses an approved one once. While a question is open the
  lines of that streamer wait; a controller deleted under its question is used after it, and `ApprovedGetsIn` speaks of a GUI
  that survives this: no property catches the use itself. The ids of the gate lose
  trailing blanks on the way through stdin.
* *Linux client.* The end of a TLS stream reads as no data until two pings later a write fails; a lambda queued by a
  replaced thread can show an empty video page; the connect dialog's probe of a silent host hangs the window in the same
  calls; a key whose release falls between the loss of the focus and its event is let go a moment late; SIGPIPE is not ignored, so a write to a closed
  connection may end the process (`Ping` models the write that fails).
* *Display.* `OwnOutput` and `AtItsPlace` speak of streamers whose snapshot was sound; what becomes of the others is
  `TouchOnOwn`. A streamer, in `NoGrowth`, is a claim of a display: a process that serves a viewer of the other
  product claims a node for that, too (stream_main.cpp:205 to 220), and counts twice. `OneCapture` is about the
  recorders under the lock. Two tablets that both say wall cell (0,0) overlap. A device that reports 0x0 in portrait gets the
  landscape defaults (`Dims`).
* *Web.* A Ping or Pong of the WebSocket at the prompt makes `wait_readable` say that there is
  nothing, and the pairing is given up (`GiveUp`). The `helloTimer` and the ping interval belong to the transport and not to its socket: settings that arrive
  late send a second HELLO and leave an interval running. `SSL_accept` and `SSL_peek` have no
  timeout: an idle connection blocks the port until its peer closes it.
* *USB.* `KnownStreamsAgain` speaks of one tablet on the bus, with auto-connect on (the evaluation returns at once
  without it, main_window.cpp:747). The result of an `adb devices` that ran when USB was switched off fills the list again; it starts
  nothing (`OffMeansOff`, which asks of what is connected that auto-connect is on, and that USB is, or the network for an address). The reset of step 0 resets the accessory that is first on the bus
  then, which may be another session's; and the second of two tablets on the bus is not found in accessory mode. The
  tunnels of adb are not made again after a quick replug.
* *Android.* `stopStreaming` gives up joining after 1.5 s (StreamActivity.kt:534), and the next start runs
  a second network thread; HELLO may carry the settings of before an edit (388).
* *Spacedesk.* A mode of another width whose stripes have the same rows leaves the encoder at the old width
  (spacedesk_server.cpp:279 compares the rows only): the JPEG is not as wide as the stripe that the header
  announces (spacedesk_protocol.h:142, "= full width"). `stop()` (line 123) joins a thread that may be in a blocked send: a
  viewer that stays and never reads keeps the process from ending, until the GUI closes its stdin. A server that
  finds the port taken at its start is not tried again when the port gets free. The `stripes tile` that
  `spacedesk_probe` prints forgets a gap when the next frame begins (spacedesk_probe_main.cpp:93).

## 7. Not modelled

* *GUI settings, logs and pages; the pairing screens and mDNS of the Android app.* Forms, files and
  presentation, without concurrent state.
* *macOS client, spikes, scripts, packaging.*
* Everywhere: pixels and codecs, TLS, uinput, the text of HTTP and of the compositors' commands.
  Each part that is `partly` modelled says in `PROJECT.json` what it leaves out.
