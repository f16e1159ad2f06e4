# TLA+ specifications of esp001-ws-audio

Specifications, model-checking configurations and machine-checked proofs for the
firmware in `src/`: an ESP32-S3 device that is configured over a serial line,
connects to a WebSocket server over WiFi and streams audio.

`PROJECT.json` lists the components, the TLC runs, the mutants that show each
property can fail, the source lines behind each definition, the hazards the
properties are aimed at, the findings and the theorems.

## 1. The system

| Component | State | Operations | Modelled in |
|---|---|---|---|
| `ws_client`: life cycle (`ws_client.c`) | `s_ctx` (state, `wifi_connected`, `ws_connected`, `handshake_done`, `reconnect_count`, `client`, config, callback), `s_wifi_initialized`, two `esp_timer`s | 9 API functions, `wifi_event_handler`, `http_event_handler`, two timer callbacks | `WsClient`, abstractly `WsSession` |
| `ws_client`: frames | `rx_buf`, `rx_buf_len` | HTTP_EVENT_ON_DATA, `parse_websocket_frame`, `handle_websocket_message`, `send_websocket_frame` | `WsFrames`, `WsWire`, abstractly `WsStream` |
| `ws_client`: URL, key, request | none | `parse_ws_url`, `generate_ws_key`, `build_ws_upgrade_request` | `WsKey` (the key only) |
| `usb_cmd`: protocol (`usb_cmd.c`) | parser state, `rx_frame`, `data_index`, `tx_seq`, `handlers`, `device_state`, `config` | `parse_byte`, `process_frame`, 7 default handlers, `send_response`, `register_handler`, `set_state` | `UsbCmd`, abstractly `UsbFrames` |
| `usb_cmd`: CRC | none | `usb_cmd_crc16` | `Crc16` |
| `usb_cmd`: task and driver | `initialized`, the UART driver, `uart_event_task` | `init`, `deinit`, the read loop, `get_config` | `UsbTasks` |
| host script (`test_usb_cmd.py`) | `seq`, the serial port | `build_frame`, `send_command`, `parse_frame` | `UsbHost` |
| `audio_driver` (`audio_driver.c`) | `s_audio_ctx`, `i2c_bus_handle`, the I2S channels | `init`, `deinit`, `start`, `stop`, `read`, `write`, `set_volume`, `get_volume` | `AudioDriver`, abstractly `AudioPath` |
| ES8311, ES7210 (`es8311.c`, `es7210.c`) | codec registers, `current_volume` | `init`, `deinit`, `set_volume`, `set_output_enable`, `set_gain` | `AudioDriver`, `Codecs` |
| `main.c` | none | prints a heartbeat and initialises no component | not modelled |
| `test_ws_server.py`, build files | - | - | not modelled |

How they interact. `main.c` does not wire the components together yet; the
handlers of `usb_cmd` that should start a connection or set the volume say TODO.
So the components are independent today, and each is modelled with *any*
application that uses its header. Inside `ws_client` the WiFi driver calls
`wifi_event_handler` through the event loop, the HTTP client calls
`http_event_handler` from within the calls made to it, the timers call
`ws_client_connect`, and the application is called back. The serial line joins
`usb_cmd` and the host script.

What is hard. `ws_client.c` runs in three tasks without a lock: the application's, the
event loop's and `esp_timer`'s, and `ws_client_connect` can be entered from all
of them; events that the HTTP client delivers outside of these calls are a fourth. Every call into the HTTP client can block for its timeout of 5 s, so
state read before one may be stale after it. There are seven places at which a session
ends and four at which a handshake fails, each undoing the same things by hand.
Received bytes come in pieces of any size, and the receive buffer outlives
sessions. `usb_cmd` resynchronises after lost bytes without a timeout, and its
parser task writes a configuration that other tasks read through a pointer.
`audio_driver` is a chain of driver calls, any of which may fail, with no
roll-back.

What makes it correct. For `ws_client`: a client in use is not freed, none leaks,
flags, state and timers agree whenever the code is at rest, the backoff cannot
overflow, calls return, a network that works leads to a session, and what the
server sends is handled in order, each message once, however the bytes are cut.
For `usb_cmd`: the buffer is not overrun, frames are taken exactly as the layout
says, only checked frames change anything, each is answered once, noise cannot
capture the parser, the host's idea of what was done is right, and a task that
sees a URL sees the whole of it. For `audio_driver`: what `init`, `start` and
`deinit` say of the hardware is so, `stop` undoes a start that failed half-way,
no channel is lost, and the volume told is the volume in the DAC.

## 2. Modules

| Module | What it is |
|---|---|
| `WsSession` | Abstract: what `ws_client.h` shows an application of a session's life |
| `WsClient` | The connection life cycle in four tasks, its environment and its properties; refines `WsSession` when one task at a time is inside it |
| `MCWsClient` | Symmetry of the HTTP client blocks, for TLC |
| `WsClientProofs` | Theorems about `WsClient` with overlapping tasks |
| `WsSerialProofs` | Theorems about `WsClient` when one task at a time is inside it |
| `UsbFrames` | Abstract: what the receiving side of the serial protocol promises, over raw bytes |
| `UsbCmd` | The parser byte by byte, the commands and the answers; refines `UsbFrames` |
| `MCUsbCmd` | A small check function for TLC |
| `UsbCmdProofs` | Type, bounds and action properties of `UsbCmd` and the refinement of `UsbFrames`, proved |
| `UsbHost` | `UsbCmd` composed with the host script and a line that loses bytes |
| `MCUsbHost` | Commands and check functions for TLC |
| `UsbHostProofs` | What the script can rely on, proved |
| `UsbTasks`, `MCUsbTasks` | `usb_cmd_init` and `deinit`, the parser task and a task that reads the URL |
| `WsStream` | Abstract: what the receiving side of a WebSocket session promises, over messages |
| `WsFrames` | The receive buffer and the loop over its frames; refines `WsStream` |
| `WsFramesProofs`, `UsbTasksProofs`, `AudioDriverProofs` | Theorems about `WsFrames`, `UsbTasks` and `AudioDriver` |
| `WsWire` | The frame header as `send_websocket_frame` writes and `parse_websocket_frame` reads it |
| `MCWsFrames` | Messages for TLC |
| `AudioPath` | Abstract: what `audio_driver.h` promises of the two directions of samples |
| `AudioDriver` | The audio driver's calls, one step for each call of an ESP-IDF driver; refines `AudioPath` |
| `Codecs` | Volume and gain as register values |
| `WsKey` | `generate_ws_key` |
| `Crc16` | `usb_cmd_crc16` and polynomial long division |
| `Algorithms` | Inputs for the registers, the key and the frame header, and what each function promises |
| `AlgorithmsProofs` | These promises, proved |
| `MCAlgorithms` | The same inputs through the CRC as well, for TLC |

In `WsClient` a task's program counter `pc[t]` names the next statement. A step
is one store to `s_ctx`, one call of a driver with the store of its result, or one
condition, because any other task may run between two of them: the two
flags are cleared and set one after the other (`OnHttpDisconnected` and
`ForgetHandshake`, `HandshakeDone` and `SetConnected`, `ClearConnected` and
`ClearHandshake`), and `reconnect_count++` is a load (`ReconnectLoad`) and a store
(`ReconnectBump`) of what was `loaded`. The steps that take more are named in the
module's header; they are `init`'s and `deinit`'s ends and `init_wifi`.

`ws_client_connect` is `AppConnect` (or the entry from `GotIpConnects` or
`ReconnectBump`), then `ConnectNoWifi` and `BringUpWifi`, or `ConnectWifiUp`,
`ConnectChecked`, `ConnectClaim`, the old client given up, `HttpCreate`, `OpenCall`,
`OpenSucceeds`/`OpenFails`, `HandshakeDone` ... `Announce`, or the error path
`fail_close`, `fail_cleanup`, `fail_forget`, `fail`. The client is given up in four
places by the same three statements (`NothingToClose`, or `HttpClose`, `HttpCleanup`,
`HttpForget`). A close reports HTTP_EVENT_DISCONNECTED from within the call:
`handler[t]` is the statement of `http_event_handler` that task `t` is at. The task
`Net` runs the events that come from the transport (`PeerCloses`,
`PeerDisconnects`).

`http[h]` says what the memory block `h` is to the HTTP client; `hnd[t]` is the
block a task has handed to a call that has not returned. `view` is the last
connection event the application was told. `drv`, `link`, `events` and `peer`
are the environment. `lost` is history: how many resets of the count an increment
under way has overwritten.

In `UsbCmd` a step is one byte (`RxIdle` ... `RxEof`, one per `case` of
`parse_byte`), and the last byte of a frame carries out the whole of
`process_frame`. `replies` holds the frames the step sent. `data` stands for the
array and `data_index`, which is its length: the bytes of a frame that is over
are zeroed, as nothing reads them, but the index stays (`Past`) until `RxCmd` resets
it. The other fields are overwritten before they are read.

`UsbHost` adds the script: `HostSend` writes one command, `HostRead` ends its 2 s
read and takes the first frame that came. The device answers in order, the line
delivers in order and may lose bytes towards the device.

In `WsFrames`, `rx_buf` is the used part of the buffer, so that `rx_buf_len` is
its length. `OnData` is one HTTP_EVENT_ON_DATA with any number of the bytes under
way; `HandleFrame` is one turn of the `while` loop with `parse_websocket_frame`
(`WsWire`) and `handle_websocket_message`; `LeaveLoop` is its end. They are steps
of their own because another task can close the client between two turns
(`OnDisconnected`), and zero the context (`AppInit`). `ServerAnswers`, `Handshake`
and `OnDisconnected` leave the buffer as it is, which is what the code does.
Between the server's 101 (`open`) and `handshake_done` data is dropped, as in the
code. `sent`, `handled` and `intact` are history: a
session is intact when it began with an empty buffer and nothing was dropped.
`WsClient` keeps the life cycle and of the frames only CLOSE; `WsFrames` keeps
the frames and of the life cycle only what opens and ends a session.

In `UsbTasks`, `InstallDriver`, `ClearContext`, `CreateTask` and `SetInitialized`
are the four parts of `usb_cmd_init`; between any two of them bytes arrive and,
once it exists, the parser task runs. `CopyChar` is one character of the
`memcpy` in `handle_connect_to`, `Terminate` and `SetConfigured` the statements
behind it; `ZeroChar` and `ZeroFlag` are the `memset` of `handle_reset`, in any
order of the cells. `BeginRead` and `ReadChar` are a task of the application that has
found `configured` set and reads the string behind `usb_cmd_get_config`.

In `AudioDriver` a step is one call of a driver, named by `pc`: `Enter` begins an
API call, `Return` ends it with its result in `last`. `InitAdc` and `InitDac`
are `es7210_init` and `es8311_init` as a whole, with any part of the registers
written when they fail. A disjunct with `Fails` is a failure of the hardware,
the others are what the ESP-IDF driver answers in that state: a port or a
channel that is taken is refused, a running channel can be neither enabled nor
deleted. `audio_read` and `audio_write` change nothing; `MayTransfer` is their guard.

## 3. Runs

Each property of a passing run also has a mutant, a plausible bug in one mapped
definition under which TLC finds that property violated (`"mutants"` in
`PROJECT.json`; in the modules they are the operators commented *Mutant*).

| Run (`cfg`) | Shows |
|---|---|
| `ws_serial` | All API calls, all failures, one task at a time: `SettledState`, `NoHandleLeak`, `PingOnlyWhenConnected`, `ConnectedIsLive`, the refinement `FollowsSession`; and no deadlock |
| `ws_hands_off` | An application that connects once and sends, tasks overlapping, all failures: `HandlesInUseAreLive`, `SingleHandshake`, `CallsReturn`, `ConnectSettles` |
| `ws_overlap` | Overlapping tasks, repeated `connect`, WiFi lost and handshakes refused at any moment: `ReconnectCountBounded`, `TypeOK` |
| `usb_parser` | Any bytes: `TypeOK`, `DataInBounds`, `OnlyGoodFramesAct`, `ParserReturns`, and the refinement `ParsesFrames` |
| `usb_host` | Script and device with the real CRC, up to two bytes lost anywhere: `AnsweredInTurn`, `AckMeansDone`, `OnlySentCommandsAct`, `ConfigInRange`, `Resynchronises` |
| `usb_tasks` | Commands that arrive at any moment of `init` and `deinit`, and a reader of the URL: `ReadsInBounds`, `FirstReadExact`, `EachCarriedOut` |
| `ws_frames` | Frames cut anywhere, over any number of sessions, with data that comes too early, overruns, and sessions that end in the loop: `BufferBounded`, `NoFrameWaits`, `EachHandled`, and the refinement `DeliversInOrder` |
| `audio` | Any sequence of calls, with every bus, register access, channel or enabling that may fail failing (section 5): `WholeWhenInitialized`, `StartedMeansRunning`, `VolumeIsApplied`, `NoChannelLeak`, `CleanWhenOff`, and the refinement `KeepsPath` |
| `algorithms` | `ComputesRemainder` (CRC), `KeyCarriesNonce`, `HeaderReadBack`, `LevelsExact` |

`NoSilentSession` and `StopAllowsStart` are proved and no run lists them:
`FollowsSession` with `SettledState` implies the first, `KeepsPath` with
`WholeWhenInitialized` the second.

Bounds, and why they are enough:

- `Handles` has two blocks: one for the session and one for a second client that
  an overlapping or forgetful handshake would create; a third would only repeat
  the second. The proofs have any number.
- `ws_hands_off` has every failure; its application has nothing more to call once
  it has connected, so it is small for all its interleavings.
- `MaxEvents` is 3: STA_START, then one connection event behind another. Posting
  waits when the queue is full.
- `reconnect_count` has no artificial bound: that it stays at 2 and `lost` or less
  is a property. `MaxLost` 1 bounds the resets overwritten, each of which takes
  an increment and a reset that meet; the theorem has no bound.
- `ws_overlap` leaves out the calls and failures that do not touch the count, or only
  stop its timer (`disconnect`, `deinit`): two million states are its cost already.
  `BackoffIsBounded` has them all.
- `usb_parser` has five byte values: the two delimiters, 0 and the lengths and
  commands 1 and 2, with two data bytes at most and a check of one bit that
  depends on every covered byte, so that good and bad frames both occur in every
  shape. Command codes above 2 cannot arrive in this run; they do in `usb_host`.
- `usb_host` uses `MaxData` 3 and a URL array of 2, hence one character, which makes
  each length check reachable from both sides; `SeqRange` 1 and `HostSeqRange` 2 keep
  the state small without touching anything the properties compare beyond
  the host's current and previous sequence number. The registered handler is
  for command 4, which has no default one.
- `usb_host` computes the CRC of the code from tables, so that it is quick enough
  for a million states; `MCUsbHost!TableIsCrc` is checked against the
  bit-by-bit definition on every run.
- `usb_tasks` takes a command as a whole, as `usb_parser` is about its bytes. The
  array of 3 has URLs of every length from none to one too long; three commands
  are a first URL, one that overwrites it and a RESET, in any order; two in one
  read let a command wait behind another in `chunk`.
- `ws_frames` scales the length code 126 to 1 (`Escape`) and the buffer of 512
  to 6: the header then has both its forms for payloads of 0, 1 and 2 bytes, and
  a buffer holds two short frames, or one long one, but not both. Payload
  bytes look like the beginning of a TEXT frame, so that lost framing shows. Two
  messages a session and any number of sessions, CLOSE among the messages.
  The third form, for 65536 bytes and more, cannot fit the buffer; `algorithms`
  has the header at its true size for every length of 16 bits.
- `audio` has every fault, at every step, and the volumes 0, 30 and 255: mute,
  an inner value and one that is cut to 100.
- `algorithms` has the CRC of all messages of up to 3 bytes over six values that
  include both ends and the top bit, keys of nonces that repeat such a message,
  and every length and every level of 16 bits.

Fairness. `WsClient!Fairness`: FreeRTOS runs a ready task; calls of the HTTP
client end because of `timeout_ms`; the event loop drains; a timer that is armed
fires; the WiFi driver gets an answer from the access point it is trying. Nothing
obliges the application or a failure to happen. `UsbCmd!FairSpec`: the host goes
on sending something. `UsbHost!HostFairSpec`: the line delivers, the read times
out, the script goes on with its commands. `WsFrames!Fairness`: the transport
delivers what it has while the session lasts, and the loop over the frames, which
does not block, goes on. `UsbTasks!Spec`: the scheduler runs the parser task;
nothing obliges the host to send, `init` to go on or the reader to read.

`CHECK_DEADLOCK FALSE` is given where the system may really stop: an
application that has connected once and has nothing more to do (the `ConnectOnce`
runs and the violation runs of `WsClient`), a host that has sent all its commands
(`usb_tasks`), and functions that have been given their inputs (`algorithms`).
`ws_frames` gives it too, although there another session can always begin.

### Runs that show a disagreement

Each checks one statement of a comment or a header, which the code does not keep.
The findings in `PROJECT.json` quote the lines.

| Run | Statement | What happens |
|---|---|---|
| `ws_reconnect` | "with WiFi and reconnection support" | A session lost with WiFi leaves the state CONNECTED, in which the timer, GOT_IP and `connect` all do nothing |
| `ws_restart` | "Initialize WiFi if not started" | `s_wifi_initialized` survives `deinit`, which removes the driver |
| `audio_deinit` | "Deinitialize audio driver", "ESP_OK on success" | After an init that failed half-way `deinit` returns ESP_OK at once; bus and channels stay, and every later init fails at the bus |

Met on the way, visible in the models or in the lines given:

- The check of the state and the claim in `ws_client_connect` (`ws_client.c:762`,
  `:774`) are two steps: two tasks can both get past "Already connecting or
  connected" (`:764`). `SingleHandshake` is therefore claimed for an application
  that connects once. For one that connects again, a session can come up in one task
  and the other task's `esp_http_client_init` then fail: its NULL replaces the session's
  client (`:809`), the state is ERROR, and `ws_client_is_connected` goes on saying yes.
- The flags are written in pairs without a lock (`:411-412`, `:840-841`, `:884-885`).
  With `disconnect` in one task and a handshake in another, the order `:884`, `:840`,
  `:841`, `:885` has `ws_connected` set with `handshake_done` false until the close
  that follows, and the order `:840`, `:411`, `:841`, `:412` after it as well. No
  statement of the repository relates the two flags, so no run is about it.
- `reconnect_count++` (`:159`) is a load and a store: a reset (`:193`, `:842`) between
  them is lost. The count can then pass 2, by one for each (`ReconnectCountBounded`).
- A session lost with WiFi is left in CONNECTED (`ws_reconnect`), and nothing retries a
  handshake that ended in ERROR or a first association that was refused.
- `reconnect_count` is reset (`:193`) just before each use (`:194`), so the delay of
  the "exponential backoff" (`:111`) never grows.
- A failure of `init_wifi` behind `esp_wifi_init` makes every later attempt
  believe that WiFi is initialised; the success path of a handshake overwrites
  the news that WiFi is gone; `pong_timeout_sec` is stored and never read.
- `rx_buf` is not emptied by a handshake (`ws_client.c:50`), and data that would
  fill it is dropped whole (`:377`): after either, the framing is lost, for later
  sessions too. `DeliversInOrder` is what holds without them.
- A frame of 65536 bytes or more says that its length is 0 and has two bytes too
  many in its header (`:278-284`); frames are sent unmasked (`:268-285`); the key
  lacks the `==` that base64 of 16 bytes ends in (`:462`). No statement of the repository is
  about these, so no run is.
- `USB_CMD_TIMEOUT_MS` (`usb_cmd.h:17`) is not used: there is no command timeout.
- `usb_cmd_send_response` returns a byte count (`usb_cmd.c:96`) where its header
  promises ESP_OK (`usb_cmd.h:118`): a handler that passes it on is refused with
  a NACK after its own answer (`UsbCmd!Registered`, kind `"reply"`), one that returns
  ESP_OK is acknowledged on top (kind `"reply_ok"`).
- A task that looks at the configuration while a handler runs sees less than
  `ConfigInRange`: a URL without its flag (`usb_cmd.c:277-279`), or the flag of a URL
  that RESET is zeroing (`:346`). From the second change on, a reader
  can get a mixture of two URLs; handlers registered before `usb_cmd_init` are wiped (`usb_cmd.c:401`);
  `xTaskCreate`'s result is not looked at (`:408`); a second `init` after `deinit`
  makes a second parser task over the same state. RESET leaves volume 0 where a
  fresh device has 50.
- The gain of the ES7210 wraps from 16 dB on (`es7210.c:172`): five bits of steps
  of half a dB.

## 4. What is proved

TLAPS checks every theorem and lemma of the eight `*Proofs` modules for every
value of the constants that satisfies the assumptions named in the modules
(`ConstantsAssumption`, `TasksAssumption`, `EscapeAssumption`, `FramesAssumption`,
`HostAssumption`, `CrcAssumption`, `InputsAssumption` and those of `UsbFrames` and
`UsbCmd`). Except for liveness and the CRC, every property of a passing run is
stated by one of them.

The connection (`WsClient`):

| Theorem | Says | Argument |
|---|---|---|
| `Typing` | `Spec => []TypeOK` | `TypeOK` is inductive |
| `BackoffIsBounded` | `Spec => []ReconnectCountBounded` | `BackoffInv`: `ReconnectCountBounded` alone is not inductive, an expiry could raise a 2. The count is 0 when the timer is armed, so at most one pending and one running expiry can add to it; what a running one has loaded exceeds the count only where a reset has come between, which `lost` then counts |
| `HandsOffSafety`, `HandsOffOneHandshake` | for an application that connects once and never disconnects: `HandlesInUseAreLive` and `NoHandleLeak`; `SingleHandshake` | `HandsOffInv`: before WiFi is brought up nothing moves; afterwards only the event task can run a handshake, because the timer task finds the state CONNECTED when the reconnect timer fires (the same fact that prevents reconnection) |
| `CallsSettle`, `NoClientLeaks`, `PingsInSessionsOnly`, `ConnectedMayWrite`, `SessionsAreAnnounced` | one task at a time (`~Overlap`), any calls, any failures: `SettledState`, `NoHandleLeak`, `PingOnlyWhenConnected`, `ConnectedIsLive`, `NoSilentSession` | `SerialInv` (`SerialInvariant`), see below |

`SerialInv` is needed because the properties of `ws_serial` speak of the moments at
which no call is under way. `StateAt` and `ClientAt` say for each program point
what the state, the client and the flags are there, `HandleAt` the same of the
HTTP client and the ping timer; `HandlesInv` ties the blocks in use to
`s_ctx.client`, `Announced` the application's view to the session. `Focus` reduces a
step to the point that the active task goes to. What makes it inductive is that
a handshake only begins without a client: the state is not CONNECTED then, and in
the resting states a client and CONNECTED go together. So the cleanup at the
start of `ws_client_connect` never has anything to do in this mode
(`ClientAt`: no task reaches `cleanup`).

| Theorem | Says | Argument |
|---|---|---|
| `ClientImplementsSession` | one task at a time: `Spec => FollowsSession` | `ShownInv` with `SerialInv`: the initial state maps to the initial state (`SessionStarts`), every step to a step of `WsSession` or none (`SessionImplements`) |

`FollowsSession` maps the client to what its header lets an application see: `state`
to `ctx.state`, `connected` to `ws_connected`, `hears` to the callback, `told` to the last
event it was given, `due` to a session that is up and about to be announced. `WsSession` says what a user of the module may build on: a
session begins with a handshake and is announced once; lost, it never comes
back by itself; the next one begins only after the callback has heard of the end of this
one, by `disconnect` at the latest; and `deinit` forgets everything, never in the
middle of a handshake. `SerialInv` does not give this, as it says nothing of the
application's view during a call; `ShownInv` adds it (`ShownAt`): from the opening of a client to the result of
the handshake nobody is told that there is a session, and a view of "connected"
is that of the session that is up, or being closed, or whose end is the next thing told.
With overlapping tasks the refinement does not hold: the end of a session can be
delivered between the flag (`ws_client.c:841`) and the announcement (`:847`), and a
session that is over is then announced, in state CONNECTED.

The frames (`WsFrames`):

| Theorem | Says | Argument |
|---|---|---|
| `BufferStaysBounded` | `Spec => []BufferBounded` | `BufferInv` adds that buffer and wire are bytes; `FrameFits`: a complete frame is no longer than the buffer that begins with it, so that the loop only shortens it |
| `NoMessageWaits` | `Spec => []NoFrameWaits` | `StreamInv`, see below |
| `ReceiverImplementsStream` | `Spec => DeliversInOrder` | `StreamInv`: the initial state maps to the initial state (`StreamStarts`), every step to a step of `WsStream` or none (`StreamImplements`) |

`StreamInv` says that as long as a session is intact there is one sequence of
bytes, the encodings of all messages sent, one after the other (`Frames`), in
which the buffer comes right behind what was handled and the wire right behind
the buffer (`InOrder`). `Decode` is the step from bytes to messages: in a buffer that
holds the beginning of a message's encoding the parser finds a frame exactly when
all of it is there, and then reads that message; it rests on the three forms
of the header (`ShortHeader`, `MediumHeader`, `LongHeader`). A message longer than
the buffer never becomes a frame, and the theorems include it. When all messages
were handled the buffer's place is the end of the sequence, so it is empty: that
is why the next session begins clean.

The serial protocol (`UsbCmd`, `UsbHost`):

| Theorem | Says | Argument |
|---|---|---|
| `UsbTyping` | `Spec => []TypeOK` | `UsbInv`, see below |
| `ParserStaysInBounds` | `Spec => []DataInBounds` | `UsbInv` adds `FieldsInv`, what the fields hold before the parser has filled them: without it the length that LEN_H completes and the data that CMD starts with could be anything |
| `ConfigStaysInRange` | `Spec => []ConfigInRange`, the view of the parser's task between two commands | from `UsbInv`, per command |
| `OnlyCheckedFramesAct` | `Spec => OnlyGoodFramesAct` | only `RxEof` changes the configuration |
| `ParserImplementsFrames` | `Spec => ParsesFrames` | the bytes since SOF, as state and fields hold them (`Received`), are the abstract `raw`: each state appends the byte received (`StartStep`, `BodyStep`), `Layout` finds the parts of a whole frame, and the verdicts agree (`VerdictGiven`) |
| `CommandsAreAnswered` | `HostSpec => []AnsweredInTurn` | `HostInv`, see below |
| `AcksAreTrue` | `HostSpec => [](lost = 0 => AckMeansDone)` | `HostInv` |
| `OnlyTheCommandActs` | `HostSpec => OnlySentCommandsAct` when `MaxLost` is 0 | `HostInv`, and `CommandByte`: the bytes covered at the end of a frame are those of the command under way |
| `ConfigSurvivesLosses` | `HostSpec => []ConfigInRange`, whatever is lost | every step of the composition is one of `UsbCmd` or leaves it alone, so that `UsbInv` holds in it |

`HostInv` says that until the line loses a byte, device and script are in step:
either what the parser has received of the command and what is still on the line
make up its frame (`OnItsWay`), or the frame has been taken and the first frame in
the inbox is its answer (`AnswerIn`), or nothing is under way at all. It rests on
`ParserImplementsFrames`' view of the parser: the fields are the bytes received.

With losses `AckMeansDone` and `OnlySentCommandsAct` are not true of every check
function: what is left of a command, or of two, may have the right CRC by
chance. They are checked with the real CRC by `usb_host`, and proved as far as they
hold for all.

The tasks of `usb_cmd` and the audio driver:

| Theorem | Says | Argument |
|---|---|---|
| `ReaderStaysInBounds` | `Spec => []ReadsInBounds` (`UsbTasks`) | `BoundsInv` adds that the last cell of the array is zero: a URL accepted is too short to reach it, and its terminator writes nothing else |
| `FirstUrlIsWhole` | `Spec => []FirstReadExact` | `FirstInv`: until the second change, what is copied is the first URL and the flag is only set when all of it is there; `ReaderInv`: what was read is its beginning; `TaskInv`: no command is carried out before `init` has cleared the context |
| `InitializedIsWhole`, `StopUndoesStart`, `StartedRuns`, `VolumeAgrees`, `ChannelsAreNamed`, `OffIsClean` | the five invariants of `audio`, and `StopAllowsStart` (`AudioDriver`) | `AudioInv`, an invariant of all steps (`AudioInvariant`): what each `pc` says of the steps before it, in `ControlInv`, `InitInv`, `RunInv` and `CleanInv`. None of the six is inductive alone, as they say nothing of a call half-way |
| `DriverImplementsPath` | `Spec => KeepsPath` | `PathInv`, which adds to `AudioInv` that no channel runs in a driver that is off (`OffInv`); one lemma for the steps of each call (`PathInit`, `PathStart`, `PathStop`, `PathDeinit`) |

`KeepsPath` maps the driver to the directions in which `audio_read` and `audio_write`
transfer (`open`) and in which samples flow (`running`). `AudioPath` is what the six
properties do not say, how these change: both open at once, with the return of an
`init` that succeeds; a `start` that fails may leave one of them running, which only
`stop` or `deinit` ends; nothing is closed while it runs; and what a call
returns is what it did. Without `OffInv` the steps of `init` do not map: to set up a
channel that was left running would stop it, in a call that may not.

The pure functions (`Algorithms`):

| Theorem | Says | Argument |
|---|---|---|
| `KeyIsNonce` | the first 128 bits of the key are those of the nonce, for every nonce and whatever lies behind it | `GroupBits`: each of the 24 bits of a group of four characters, for any three bytes; `KeyBit` finds the group of any bit |
| `KeysCarryNonces` | `Spec => []KeyCarriesNonce` | `KeyIsNonce` |
| `HeaderReadsBack` | for every opcode and every length up to 65535, what `send_websocket_frame` writes in a header is what `parse_websocket_frame` reads | its two forms, by arithmetic on the bytes, for any length code |
| `HeadersReadBack` | `Spec => []HeaderReadBack` | `HeaderReadsBack` |
| `LevelsStayExact` | `Spec => []LevelsExact`, for numbers of any size | `VolumeRises`: of two volumes the higher has the higher register value |

Only model-checked: liveness (`CallsReturn`, `ConnectSettles`, `ParserReturns`,
`Resynchronises`, `EachHandled`, `EachCarriedOut`), which needs ENABLED;
`AckMeansDone` and `OnlySentCommandsAct` on a line that loses bytes; and
`ComputesRemainder`, which needs induction over the message and the bit operators. The
theorems about `UsbCmd` and `UsbHost` hold for every check function of 16 bits, so
none of them depends on the CRC.

## 5. What is assumed

- The HTTP client does what `ws_client.c` relies on: `esp_http_client_open` has
  performed the upgrade when it returns, `esp_http_client_get_status_code` is its
  status, `esp_http_client_close` of an open transport reports
  HTTP_EVENT_DISCONNECTED from within the call, and data and the end of a session
  are reported as events. The code makes no further call that would fetch headers
  or data; whether the library delivers all this is outside the repository.
- The WiFi driver posts STA_START when started, tries to associate when told to,
  and posts GOT_IP or STA_DISCONNECTED. Association and DHCP are one step.
  `init_wifi` is one step, with a failure before or behind `esp_wifi_init`;
  its handler registrations and the NVS erase are inside it. The end of
  `deinit`, from the WiFi calls to the memset, is one step as well.
- The application calls `init` first, and `deinit` before another `init`; it sets
  the URL and the callback once in each life. It calls from one task, and not
  from inside the callback.
- `deinit`'s first statements, which stop and delete the two timers, are one step:
  a callback that runs is not stopped by it, and one that has not begun does
  not begin. `init`'s memset is one step too, and so are `init_timers`' two calls.
- Words of memory are read and written whole; the compiler keeps the order of the
  stores to `s_ctx`.
- HTTP client events that are not called from a task's own call are delivered one
  at a time; in `ws_serial` only when no task is inside the module.
- `ws_client_set_wifi` and the two getters are not among the calls: the first copies
  strings that no step reads, the others only read.
- The serial line keeps the order of bytes, loses some, and alters none in `UsbHost`
  (altered bytes are covered by `usb_parser`). Answers are not
  lost: the script reads at leisure. The device needs less than the script's 2 s.
  The script sends no more data in a command than the device takes (`HostAssumption`),
  and the check function returns 16 bits (`CrcAssumption`), as `usb_cmd_crc16` does.
- In `WsFrames` the server sends whole, unmasked frames, of less than 4 GB, and nothing
  after CLOSE; the buffer has at most 65536 bytes (512 in the code), or the parser's
  "too long" would not be true of it (`FramesAssumption`). A
  session is opened by the task that receives, hence not while the loop over the
  frames runs. Other tasks close the client and zero the context (`deinit`, `init`)
  between two turns of the loop, not within one: a memset between the
  message's callback and the subtraction (`ws_client.c:387-393`) makes `rx_buf_len`
  wrap, and nothing holds from there. `handshake_done` and `ws_connected` change
  in one step here; `WsClient` has their stores apart. A length above 65535 is
  one that no buffer holds; this includes those near 2^64, for which
  `header_len + msg_len` wraps and the function returns a negative `int`.
- In `UsbTasks` a character is written and read whole. The UART driver can be
  installed: `ESP_ERROR_CHECK` ends the program otherwise.
- One task calls `audio_driver`. The I2C driver refuses a port that is taken and
  a device without a bus; the I2S driver refuses what the state of a channel does
  not allow, as its documentation says; a reset clears a codec's volume and its output.
  Deleting the bus succeeds. `i2s_channel_disable` stops a channel that runs; it
  fails for one that does not. A register write that is reported as failed did not
  reach the chip: one that fails late would leave a volume that
  `current_volume` does not name.

## 6. Not modelled

- `parse_ws_url` and `build_ws_upgrade_request`: their results are logged or go into a
  local buffer that is never sent; the HTTP client gets the URL as it is.
- API calls from inside the application's callback, and a second `ws_client_init`
  without `deinit`: no document allows or forbids them.
- A second `usb_cmd_init`, after which two tasks write one parser state: no
  property holds of it.
- The codecs' other registers, `es8311_set_sample_rate` and `es7210_set_sample_rate`, and
  direct register access.
- `find_frame`'s scan over log output and the menus of `test_usb_cmd.py`;
  `test_ws_server.py`; `main.c`, which only prints a heartbeat; the build files.

## 7. Plan

Built, in the order of importance: the connection life cycle with the abstract
session, the serial protocol with its abstract layer and host, the WebSocket frames
with their abstract stream, the tasks of `usb_cmd`, the audio driver with the abstract
path, the pure functions. Every safety property of a passing run except that of
the CRC is also proved, with the limits named at the end of section 4. What is left:

1. Two parser tasks over one state, once the code says what a second
   `usb_cmd_init` should do.
2. A session that WiFi takes away and the reconnect timer brings back, once
   STA_DISCONNECTED leaves the state CONNECTED (`RecoversFromWifiLoss`): `WsSession`
   then needs a step from a lost session to a handshake.
3. One handshake at a time and one relation between the flags in every
   interleaving, once `ws_client.c` has a lock or the calls a task of their own.
