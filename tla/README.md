# TLA+ models of the uloader bring-up tools

These modules model the host-side scripts under `src/iar_bsp/tools/scripts/uloader/`:

- `uloader.py` loads an application image into a board running U-Boot, over a serial line and TFTP.
- `pinhole2.py` relays the serial port to a localhost TCP port.
- `pinhole.py` relays a localhost port to the target's GDB server.

## 1. The system (inventory)

| Part | Source | State | Operations |
|---|---|---|---|
| Phase chain (`Phase.execute`, `__main__`) | uloader.py 128-156, 860-938 | the phase on the stack, the exit status | run a phase; stop at the first False; exit 0 or 2 |
| Serial control channel (`UBootSerial`) | uloader.py 158-600 | the global `UBOOT_PROMPT`, a per-call `tries` budget, the line in hand | `check_for_token`, `wait_for_prompt`/`loop_for_prompt`, `set_uboot_env`, `set_svr_ip`, `wait_for_tftp_done`, `issue_go_cmd`, `wait_for_IP` |
| Cancel dialog (`ShowDialog`) | uloader.py 78-126 | the global `USER_ABORT`, the window | Cancel click (Tk thread) |
| Transfer orchestrator (`UBootLoadApplicationPhase`) | uloader.py 697-776 | probe socket, server thread | probe bind of port 69, start the server thread, write `tftp` |
| TFTP server thread (`start_tftpserver`) | uloader.py 764-776 | listening / dead / served | `listen`; `TftpException` ends only the thread |
| IP auto-detection (`UBootAutoDetectIPPhase`) | uloader.py 804-852 | IP wait budget | `wait_for_IP`, `verify_server` |
| Network resolver (`gethost_addr`, `extract_ip_addr`, `is_valid_ipv4`) | uloader.py 341-396, 561-600 | none (pure) | parse `ipconfig`, match subnets |
| Serial relay (`pinhole2.py`) | pinhole2.py | two legs, the disconnect service on port 2156 | serial↔socket copy, `os._exit` on network EOF or on a disconnect connection |
| Network relay (`pinhole.py`) | pinhole.py | two legs sharing `EXITING` | accept with `HOSTCONNECT` timeout, copy, `release_serial_connect` |

**Threads.** The uloader process runs three threads:

- the main thread, which runs the phases;
- the TFTP server thread, started with no handshake;
- the Tk dialog thread, which sets `USER_ABORT`.

**Hard behaviours.** The target is an unreliable line source:

- a read may time out (`""`);
- a Ctrl-C may go unanswered;
- arbitrary noise may arrive between markers.

**Cross-process protocol.** After a successful run with `--proxy`, three processes share the serial port in turn: uloader, pinhole2 and pinhole. They use a connect-to-port-2156 rendezvous and `sleep(1)` handoffs.

## 2. Modules and how they correspond to the code

### `ULoader.tla`: one bring-up run

**Control state.** `pc` is the statement the main thread is at.

- `caller` records which phase called `wait_for_prompt`.
- `cftRet` and `cftPrompt` hold the return point and the token of an active `check_for_token` call.
- `tries`, `line` and `ok` are the locals of the active loop.
- `prompt` is the global `UBOOT_PROMPT`.
- `userAbort` is `USER_ABORT`, and `dialog` is the `ShowDialog` window.
- `interrupted` says a Ctrl-C (KeyboardInterrupt) reached `__main__`. `pc = "Hung"` is a process whose main thread has returned but which waits for the dialog thread.
- `srv` and `served` are the server thread and whether the image was delivered.
- `dhcpCmd`, `serverIp`, `tftpCmd` and `goSent` are the commands written to U-Boot.

**The board.** It is modelled by `intr`, `noise` and `emitted`:

- `intr` counts unanswered Ctrl-C's. Each one can be answered by one `<INTERRUPT>` line, and at most `MaxIntr` are held.
- `noise` counts marker-less lines, up to `MaxNoise`.
- `emitted` holds the one-shot markers already printed. A marker is printed only after the command that provokes it has been written.

**Command line.** The inputs are drawn in `Init`:

- the shape of the serial spec: well formed, wrong field count, or a bad value;
- the start address: an address or `0xFFFFFFFF`;
- `--proxy`;
- whether another TFTP server holds port 69.

**Abstraction.** A line is reduced to its kind. "T line" means any line holding a capital `T`, and `<INTERRUPT>` is one of them.

**Actions.** Each action is one statement group of the code, with the guard and assignments of its source lines:

- `ConnectPhase`, `PromptTry`, `PromptPoll`, `PromptAborted`, `PromptFinish`;
- `CftRead`, the read inside `check_for_token`;
- `EnvRead` … `SvrDone`;
- `LoadPhase`, `TftpRead`, `TftpLoop`;
- `StartPhase`, `GoRead`, `GoCmd`;
- `IpOuter`, `IpMarker`, `IpEmpty`, ending in `AutoDetectDone` (`wait_for_IP`'s result and `VerifyServer`, the three connects of `verify_server`).

Other actors have their own actions:

- The server thread is `SrvListen`, `SrvServe` and `SrvFail`.
- The Tk thread is `UserCancel`.
- The console is `KeyboardInterrupt`: a Ctrl-C anywhere in the main thread, caught by the `except` of line 937. `MainReturns` is what happens next. The process exits 0, unless the dialog is up: `ShowDialog` is a non-daemon thread whose mainloop only `finish()` ends, so the process hangs. The constant `CtrlCAtDialog` says whether the operator may press Ctrl-C while the dialog is shown.
- A subroutine call (`check_for_token`, `wait_for_prompt`) is a jump with a saved return `pc`.

**Exit statuses.** An uncaught Python exception is exit status 1. This covers the TypeErrors at lines 208 and 727 and the ValueError/KeyError from the serial spec. PROJECT.json `map` gives the lines of every definition.

### `BootstrapPipeline.tla`: the abstract promise of the phase chain

The phases run in chain order, each only after its predecessor passed. The first failure ends the run, and exit 0 comes only after the last phase, or from `RunAborted`: a Ctrl-C (`aborted`, mapped from `interrupted`), which the spec counts as a graceful exit, not an error.

`ULoader` refines it through `StageOf`, which maps `pc` to the phase whose `executePhase` is on the stack. The check is `PipelineRefined`.

### `TokenScan.tla`: `check_for_token` as a pure operator

`Scan` is RECURSIVE and `CheckForToken` wraps it. It is compared with `Reference`, the contract of spec §8, over every input up to the bounds: lines, a read sequence of up to 3 lines, tokens, budgets 0..3, and prompt or not.

### `MC_ULoader.tla`

It scales the retry budgets (60, 60, 10, 60) down to 2.

`check_for_token` only ever tests whether `tries - 1` is zero. So any budget ≥ 2 gives the same control paths as 60, and 2 still lets every loop iterate and run out.

### `Relay.tla`: one tunnel of `pinhole.py` or `pinhole2.py`

`variant` is chosen in `Init` from `Variants`:

- `"net"` is `pinhole.py`: localhost port to the target's GDB port.
- `"serial"` is `pinhole2.py`: localhost port 2155 to the serial device.

**State.**

- `proc` is where the process is: `opening` (Pinhole2's constructor), `accepting`, `connecting`, `relaying`, `releasing`, `exited`.
- `leg[g]` is each `PipeThread`: `top` at its loop head, `got` with a chunk in hand, `exit` after a `break`, `done` after its cleanup. Leg `up` copies client to far, and leg `down` copies far to client.
- `sock[e]` is the state of each endpoint: `none`, `open`, `eof`, `err`, `closed`.
- `pending` and `sent` count chunks; `delivered` counts what each leg forwarded.
- `exiting` is pinhole.py's global `EXITING`.
- `released` says `release_serial_connect` was called.

**Actions.**

- A leg runs `Recv` (the `EXITING` test, then a read), `Send` and `Cleanup` (close, `EXITING = 1`, or `os._exit` in pinhole2).
- The read's outcome depends on the side. An empty network read at end of stream breaks. A recv timeout, or an empty serial read, goes round again (`EmptyRead`).
- `Raises` is every exception path that breaks the loop: a closed socket, a `None` serial port, a device error.
- The server is `OpenSerial` (Serial_Connect, result ignored), `AcceptClient`, `AcceptTimeout` (`HOSTCONNECT`), `Connect`, `Join` and `Release`.
- The peers are environment actions: `PeerSend`, `PeerClose` (a serial line never closes, it only fails) and `PeerFail`.

### `SerialHandoff.tla`: the processes that pass the serial port on

It composes, for sessions `1..NSessions`, three processes per session:

- `U(s)`: uloader, from `check_serial_connect` to the `execl`;
- `P2(s)`: pinhole2, from its own check to `Serial_Disconnect` and the relay;
- `P(s)`: pinhole, from the bind of the GDB port to `release_serial_connect`.

**Shared state.** `holder` is the process with the serial device open, `listener` is the `Serial_Disconnect` bound to 2156, and `gdb` is the session whose pinhole has the GDB port.

**Auxiliary state.** `signalled` holds processes connected to on 2156 that have not exited yet. `killedBy` and `busyOpen` record who ended a pinhole2 and which opens found the port held.

**Actions.**

- `Signal` is the connect of `check_serial_connect` and `release_serial_connect`: a bound listener accepts and will `os._exit`; a refused connect changes nothing.
- `CheckSerialConnect` adds the only False result, a failed `socket()`. uloader then exits 2, pinhole2's `__main__` ends without binding anything, and pinhole's release signals nobody.
- `OpenSerial` fails while another process holds the device.
- `Free` is the OS closing what a process held when it ends.
- `P2Open` is Pinhole2's constructor: the open of the port, with its result ignored, then the bind of 2155. That bind has no `SO_REUSEADDR`, so it may fail, for instance while the previous relay's connection is in TIME_WAIT. The exception then ends `__main__`, but the non-daemon `Serial_Disconnect` thread keeps the process alive. The process is `"stuck"`: it holds the port and 2156 and runs no relay. Only a later session's rendezvous (`P2Killed`) ends it. `Quiet` accepts a stuck pinhole2 at the end, because the real process also waits for good.
- The bring-up and the byte copying are reduced to their outcomes: `UBoot` succeeds or fails, and `P2RelayEnds` and `PRelayEnds` are the end of a session.

**Timing.** The model reduces it to three named assumptions:

- `Settled`: `time.sleep(1)` after a rendezvous lasts until every signalled process has exited.
- `P2StartsSlowerThanExecl`: pinhole2 opens the port only after uloader has slept and exec'd. uloader launches pinhole2 while still holding the port.
- `OperatorPaced`: the operator does not start a run during the second a pinhole2 spends between its check and binding 2156.

### `IPv4Syntax.tla`: `is_valid_ipv4`

A string is reduced to the sequence of its dot-separated parts. Each part is the class of the pattern's alternatives it matches in full:

- a decimal byte, `"0"`, an octal byte or a hex byte;
- a 32-bit hex, octal or decimal word;
- anything else.

`IsValidIPv4` is the pattern's structure: one byte, then the dotted group repeated 0-3 times; or a dot-free 32-bit word. `Reference` is the spec's dotted quad of decimal octets.

### `IpExtract.tla`: `extract_ip_addr` at the level of characters

A string is a sequence of one-character strings.

- `Alternatives` lists the ways one octet `(2[0-5]|1[0-9]|[0-9])?[0-9]` can match, as character classes, in the order a backtracking engine tries them: the optional group greedily first, its alternatives left to right, then the group absent.
- `MatchFrom` takes, at a start position, the first way that lets the dots and the remaining octets match. `ExtractIpAddr` is `re.search`: the match at the leftmost start, split at its dots, or `NoMatch` (the `except` branch returns None).
- `IntOf` is `int()` of a part. Leading zeros do not make it octal.
- `PartClass` gives the class of `is_valid_ipv4`'s pattern (IPv4Syntax) that a part of digits matches. `ValidMatch` is gethost_addr's test of a match, through an `INSTANCE` of IPv4Syntax.
- `Decimal` and `Dotted` are how ipconfig prints an address. They belong to the environment.

While building the module it was checked against Python's `re` on sample lines. Both give `192.168.1.90` for `192.168.1.90(P)`, `00.1.2.3` for `300.1.2.3` and `234.5.6.7` for `1234.5.6.7`.

### `HostResolver.tla` and `MC_HostResolver.tla`: `gethost_addr`

An ipconfig line is its kind (address, mask or other) plus the address it prints: a four-octet tuple, or `Junk` when it prints none. `Text` gives the line's characters: the end of its label (with the `4` of `IPv4`), the dot leaders and colon, the address in decimal, and `(P)` standing for `(Preferred)` after an address. The code's view of a line is `Extracted`, which is `ExtractIpAddr` of those characters. `Found` is `ValidMatch` of that, and the subnet test uses `OctetsOf` the match. The function returns the matched string (`Joined`). The spec's resolver works on the printed addresses. So `ResolvesWellFormedOutput` checks the scan, the extraction, `int()` and the validity test together.

- `Scan` is one pass of the `for` loop with the `find_sm` flag.
- `Loop` is the loop, and `SameSubnet` is the four nested `&` tests.
- `Resolve` is spec §8's resolver. It takes the first (address, mask) candidate, where an address's mask is the next address-or-mask line if that is a mask. The spec's device mask `m` is the candidate's own mask: the code has no other.
- `MC_HostResolver` gives two adapters on different networks, a /24 and a /8 mask, and targets on the first adapter's /24, on its /8 only, and on the second adapter's network.

## 3. Runs

| Run | Expect | What it shows |
|---|---|---|
| `uloader_core` (`MC_ULoader.cfg`) | pass | `TypeOK`; `SuccessImpliesServed`: exit 0 (other than a Ctrl-C) only after the server thread delivered the image, despite the unsynchronised server start; `BoundedWaits`: every wait except `loop_for_prompt(0)` ends when the board's output is finite; `AbortHonoured`: a Cancel click, even a late one, ends the run; `PipelineRefined`, a Ctrl-C included (`CtrlCAtDialog = FALSE`). About 605k states, 45 s. |
| `uloader_ctrl_c` (`ULoader_ctrl_c.cfg`) | violation | `InterruptEndsRun`: the board answers, and Ctrl-C is pressed before `warn.finish()`. `__main__` returns, the interpreter waits for the Tk thread for good, and a Cancel click after that changes nothing. |
| `uloader_ip_skipped` | violation | `AppStart`, one other line, then the address: the address is consumed by the marker search and never tested. |
| `uloader_load_only` | violation | `LoadOnlyReportsSuccess` constrains the main thread's step out of the start phase; the server thread's steps leave `pc` alone. In TLC's trace, `--proxy` is set and start is `0xFFFFFFFF`: the image is loaded, and the start phase then steps into `wait_for_IP` instead of exiting 0. That wait needs an address from an application that was never started, so the run can end with status 2. |
| `uloader_chatty_app` | violation | With unbounded application output, `wait_for_IP` loops forever (its budget is reset each pass). |
| `token_scan_contract` | violation | `check_for_token` returns True after one unmatched read. |
| `relay` (`Relay.cfg`) | pass | Both relays. `EndpointLossEndsRelay`: once an endpoint of a running tunnel is lost, both legs end and the process exits; the second leg learns of it only from a closed socket or `EXITING` after its recv timeout. `LegEndsOnlyOnLoss` (action property): a leg starts its cleanup only when an endpoint is gone or `EXITING` is set. 18,051 states. |
| `serial_handoff` (`SerialHandoff.cfg`) | pass | Three sessions. `HolderSignalable`: a pinhole2 holding the port always has its disconnect service bound (or already signalled). `OpenNeverFindsPortHeld`: no open of the serial port by uloader or pinhole2 finds it held. These hold with a pinhole2 stuck after a failed bind of 2155. 5,429 states. |
| `serial_handoff_launch_race` | violation | With `P2StartsSlowerThanExecl = FALSE`, pinhole2 opens the port while uloader still holds it between its `Popen` and its `execl`: uloader runs no disconnect service, so the rendezvous cannot help. |
| `serial_handoff_stale_release` | violation | `RelayKilledOnlyByItsSession`: session 1's pinhole times out in `accept` (`HOSTCONNECT`) after session 2 started; its `release_serial_connect` kills session 2's pinhole2. |
| `ipv4_contract` (`IPv4Syntax.cfg`) | violation | `is_valid_ipv4` accepts a bare `"42"` (and `"1.2.3"`): the dotted group repeats 0-3 times. The spec says `"1.2.3"` is rejected. |
| `host_resolver` (`HostResolver.cfg`) | pass | `ResolvesWellFormedOutput`: on ipconfig output that prints a valid mask after each address, `gethost_addr` returns the spec's first same-subnet candidate, or None. Every output of up to 5 lines, with a disconnected 0.0.0.0 adapter among the adapters: 199,290 inputs. |

Every property of a passing run has a mutant in PROJECT.json: a plausible code bug that TLC finds.

- `IpRetry_NoTriesGuard` breaks `TypeOK`.
- `TftpLineStep_LinkDownKeepsTries` breaks `SuccessImpliesServed`.
- `TftpLineStep_EmptyFree` breaks `BoundedWaits`.
- `KeepPolling_IgnoresAbort` breaks `AbortHonoured`.
- `AfterStart_NoAutoDetect` breaks `PipelineRefined`.
- `Consume_Nothing` (a read that leaves the chunk) breaks Relay's `TypeOK`.
- `Cleanup_NoSignal` (a leg that closes only its source and sets no `EXITING`) breaks `EndpointLossEndsRelay`.
- `EmptyRead_AlwaysEnds` (every empty read ends a leg) breaks `LegEndsOnlyOnLoss`.
- `Signal_RefusedCounts` breaks SerialHandoff's `TypeOK`.
- `P2Disconnect_NotBound` (pinhole2 opening the port before binding 2156) breaks `HolderSignalable`.
- `Settled_NoDelay` (the `sleep(1)` dropped) breaks `OpenNeverFindsPortHeld`.
- `Scan_NoReset` (`find_sm` left set after a mask that does not match) breaks `ResolvesWellFormedOutput`.

**Bounds.**

- **ULoader.** `MaxNoise = 3` and `MaxIntr = 4` are enough for:
  - a noise line between every pair of markers in the TFTP and IP waits;
  - a full skip loop in `set_uboot_env`;
  - `<INTERRUPT>` lines left over for later reads;
  - the `EnvCft` failure branch.
- **Relay.** `MaxChunks = 3` per peer lets a leg read, forward and read again while further data is pending, and leaves data pending when an endpoint is lost.
- **SerialHandoff.** `NSessions = 3` gives a session whose port is taken over from a session that itself took it over. The violation runs need only 2.
- **IPv4Syntax.** Up to 5 parts covers the 1-4 of the dotted variants and one more.
- **HostResolver.** Up to 5 lines holds two adapters with a line between them, or one adapter with surrounding lines. The adapters include 0.0.0.0 with mask 0.0.0.0, which matches every target. One adapter, 192.168.1.90, ends in a two-digit octet followed by `(P)`. There the order of the octet's alternatives matters: with the group made lazy (`(...)??`), the match ends at `192.168.1.9`, and TLC then finds `ResolvesWellFormedOutput` violated. This was checked while building the model.

## 4. Fairness

`ULoader`'s `Spec` has two fairness conditions:

- **`WF_vars(MainProgress)`.** `readline()` returns within the serial timeout, so the main thread always takes its next step. `MainProgress` is every main-thread step except a poll of `loop_for_prompt(0)` (`PromptPoll`). That poll may repeat forever because the board is off.
- **`WF_vars(Server)`.** The server thread is scheduled.

**In `Relay`.**

- Each leg is weakly fair. Its reads time out (3 s on sockets, the serial read timeout), so a leg never blocks for good.
- The server is weakly fair. `HOSTCONNECT` bounds pinhole.py's accept.
- The peers owe nothing. Without a client, pinhole2's blocking accept waits for ever, and `EndpointLossEndsRelay` speaks only of a running tunnel.

**In `SerialHandoff`.** Each session's process steps are weakly fair. Each is a running process whose next step is a local call or a bounded wait (`sleep(1)`, `HOSTCONNECT`). No liveness property is checked here. The model's `Settled` turns the fixed `time.sleep(1)` into a wait until every signalled process has exited. Under that wait, "the rendezvous always completes" would follow from the fairness of `P2Killed` alone and would say nothing about the code. The operator starting a run and the end of a terminal or debug session are not fair.

**Assumed only where stated.**

- Nothing obliges the operator to click Cancel.
- Nothing obliges the board to answer a Ctrl-C.
- `AppOutputBounded` says the started application prints finitely many non-address lines. It is `FALSE` in `uloader_chatty_app`.

## 5. Not modelled, and what is left

**Reduced.**

- `extract_ip_addr` is modelled (IpExtract) and is used by HostResolver. In ULoader, its call on U-Boot's DHCP line (line 422) is reduced to whether a target address is found. That line is never validated, so the pattern's quirks (octets 256-259, a match inside a longer number) would reach the subnet test. U-Boot prints the address in plain decimal, so no run feeds it such a line.
- `gethost_addr` on non-standard output is left unchecked. When an address line is followed by an unreadable mask line and then another mask, TLC finds that `gethost_addr` and the spec's resolver differ, because `find_sm` pairs the address with the later mask. This needs output ipconfig does not print, so no run is kept for it.
- `OperatorPaced = FALSE` is left unchecked. A run started within the second a pinhole2 spends before binding 2156 makes `OpenNeverFindsPortHeld` fail (checked while building the model; no run kept, because it is one second of operator timing).

**Not modelled at all.**

- `check_uboot_env`: its only call is commented out.
- Tk layout, argument-parser wording, logging and console progress output: no property is about them.
- `tftpy` internals: reduced to listen, serve and die.
- The puttytel terminal: it is the client of `Relay`'s serial variant.
- The `cliToPySerial` tables, the constructors that only store their arguments, and the argument parsers, in uloader.py and pinhole2.py. Their outcome is what the models take as input: the serial spec's shape, and whether the open succeeds. Their text has no control of its own to model.
- Status 1 from an uncaught exception is modelled (`Exit(1)`), but no run checks the spec's {0, 2} status contract. It fails on the paths at lines 208, 663 and 727, and the runs are capped at 12, so the slot went to the Ctrl-C hang.
- pinhole2's `join`, `sys.exit(0)` and `while 1: server.run()`. A pinhole2 leg always ends the process with `os._exit`, so this code is never reached.
- Hosts on the network. `Serial_Disconnect` binds every interface, so a connection to 2156 from another host would also end the relay. This is listed as a hazard.
