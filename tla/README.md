# TLA+ models of the iPXE downloader, data-transfer and activity code

This directory holds TLA+ models of the C sources under `src/src`. The modules are checked with TLC. The code is written in the style of iPXE/gPXE. Objects are refcounted structures. Each object embeds *interfaces*. An interface is plugged to one peer interface, and operations are dispatched to the peer through a descriptor table. Everything runs on one thread. Concurrency comes from re-entrant calls: a close handler that runs while another object's shutdown is still on the stack calls back into that object.

## 1. Inventory

| Part | Source | State | Operations | Modelled in |
|---|---|---|---|---|
| Interface layer | `interface.c` and `refcnt.c`. Neither is in the repository, so this part is written from spec §3 and §4.1 and marked `spec_modelled`. | Per interface: `dest` (the link), descriptor, refcount of its owner, and whether it has been nullified. | `intf_plug_plug`, `intf_unplug`, `intf_nullify`, `intf_shutdown` (nullify, pin the dest, call its `intf_close` or the default, sever, put the pin), `intf_get_dest_op`, `intf_get`/`intf_put` | `Interface` (operators), `Downloader` (shutdown frames) |
| Data transfer | `core/xfer.c` | none of its own (the static `dummy_metadata`) | `xfer_deliver` (default: free, `-EPIPE`), `xfer_deliver_iob`, `xfer_deliver_raw` (`-ENOMEM` when `xfer_alloc_iob` fails), `xfer_seek` (zero-length delivery carrying metadata), `xfer_window` (default `~0`), `xfer_alloc_iob`, `xfer_vredirect`/`xfer_redirect`, `xfer_vprintf`/`xfer_printf` | `Downloader` (all but printf), `XferPrintf` (printf) |
| Job control | `core/downloader.c` (`downloader_job_op`) | none of its own | `job_progress`, `intf_close` on a job interface | `Downloader`; its promise is `DownloadJob` |
| Downloader | `core/downloader.c` | `refcnt`, `job`, `xfer`, `image` (data, len), `pos` (`size_t`), `register_image` | `create_downloader`, `downloader_xfer_deliver`, `downloader_ensure_size`, `downloader_progress`, `downloader_finished`, `downloader_free` | `Downloader`, `MCDownloader` |
| Activity counter | `core/activity.c`, `include/gpxe/activity.h` | `num_activities` (`unsigned int`), `currticks()` (`unsigned long`) | `activity_start`, `activity_stop`, `activity_wait` (a loop running `step()` until the count is zero or the deadline passes) | `Activity`, `MCActivity` |
| Hello test | `tests/hellotest.c` | none | `test_hello_callback` (character filter), `test_hello` (prints, then `async_wait`) | `HelloTest` |
| SAN boot header | `include/ipxe/sanboot.h` | none | declarations only | not modelled |
| Atheros L1E header | `drivers/net/atl1e.h` | register and descriptor words, each a set of MASK/SHIFT fields and flags | a field or flag update by read-modify-write (`AT_READ_REG`, clear, OR, `AT_WRITE_REG`); a whole-word `AT_WRITE_REG` of a composite (`GPHY_CTRL_DEFAULT`, `IMR_NORMAL_MASK`, ...) | `Atl1eRegs`, `MCAtl1eRegs` (partly: 44 words) |

How the parts interact:
- A requester calls `create_downloader(job, image, register_image, ...)`.
- The downloader opens a transport on its `xfer` interface. This is `xfer_vopen`, which is not in the repository.
- It plugs its `job` interface to the requester's job interface.
- It drops its own reference ("mortalise self"). From then on, only plug links keep it alive.
- The transport calls the `xfer.c` helpers on its side of the link. Those helpers dispatch to `downloader_xfer_deliver`.
- A transport may call `xfer_redirect`. The downloader has no redirect handler, so the default `xfer_vreopen` restarts its `xfer` interface (closing the old transport) and opens a new transport on it.
- The requester may call `job_progress`, or cancel by shutting down its job interface.
- Either side's shutdown reaches `downloader_finished`. It registers the image on success, then shuts down `xfer` and then `job`.
- The peers' close handlers may shut down their own interfaces. That calls back into the downloader.

## 2. Modules

### `Interface.tla` (spec_modelled)
This module holds the operators of the interface layer over a link map `peer` and a set `nullified`:
- `Dest` is `intf->dest`.
- `PlugPlug` is `intf_plug_plug`.
- `Unplug` severs both directions.
- `HasOp` is the descriptor lookup. A nullified interface has no operations.
- `LinkRefs` counts the references that plug links hold on an object.
- `PinRefs` is the pin that `intf_get(dest)` takes around a dispatched call.

The constant `PlugHoldsRef` says whether a plug takes a reference. The code needs it to. The specification says plug has no side effects.

### `DownloadJob.tla` (abstract)
This module states what `create_downloader` promises the requester, with interfaces, call stack and buffer left out:
- `phase`: idle, open, failed, cancelled, closed.
- `registered`: the calls of `register_image`.
- `result`: the status the requester got.
- `freed`.

Its actions are `Start`, `StartFails`, `Register` (the whole file, at most once, only while open), `Close` (once, with success exactly when registration succeeded), `Cancel` and `Free` (only after the job has ended).

`Downloader` defines `Job == INSTANCE DownloadJob WITH phase <- Phase[rq.state], result <- rq.rc, freed <- (dl = "freed")`, with `registered` and `File` taken by name. `dl_core` checks `DownloadJobSpec == Job!Spec` as a `PROPERTY`.

### `Downloader.tla`
This module composes the downloader with a set `Transports` of transports (three in the MC instance) and one requester. The interfaces are `dl_job`, `dl_xfer`, `rq_job`, and one xfer interface per transport.

The variables are:
- `peer`, `nullified`, `refcnt`
- `dl`, the object lifecycle. `"unborn"` means before `create_downloader`. `"none"` means `zalloc` failed. Then `"live"` and `"freed"`.
- `image`, `pos`, `registered` (every call of `register_image`, with the image it saw and its result)
- `stack`, `tr` (per transport: idle/open/closed, stream position, datagrams sent, error), `ndeliv`, `rq`, `progress`
- `overrun`: some `copy_to_user` wrote past the end of the buffer

**Re-entrancy.** An explicit call stack models re-entrancy. Each frame is one activation (`intf_shutdown`, `downloader_finished`, or a peer's close handler) with a `pc`. The action `Step` advances the top frame. So every interleaving of nested closes is a sequence of steps. The environment (transport, requester) starts a call only when the stack is empty, because the code is single threaded.

**Actions and the code they model:**

| Action | Code | Notes |
|---|---|---|
| `create_downloader` | downloader.c 231-266 | Three outcomes: `-ENOMEM`; open failure (`downloader_finished(rc)` on an unplugged object, then `ref_put` frees it); or success (plug `xfer` and `job`, then `ref_put`). |
| `downloader_finished_register`, `downloader_finished_shutdown_job` | downloader.c 76-85 | `register_image` succeeds or fails nondeterministically. |
| `intf_shutdown_close`, `intf_shutdown_unplug` | spec §4.1 | `intf_shutdown`, split at the close call. |
| `transport_deliver_raw`, `transport_seek`, `transport_deliver_at` | transport side | The transport calls `xfer_deliver_raw`, `xfer_seek`, and `xfer_deliver` with `SEEK_SET` metadata. Each is atomic, because `downloader_xfer_deliver` makes no nested interface calls. Allocation of the I/O buffer (`iobOk`) and growth of the image (`growOk`) may each fail. |
| `transport_close` | transport side | Closes with its error, with `ETRANSPORT`, or with success once every byte was sent. |
| `transport_redirect` | xfer.c 186-202 | `xfer_redirect`. It pushes an `xfer_vredirect` frame. |
| `xfer_vredirect_begin`, `xfer_vredirect_put` | xfer.c 48-81 | Pin the dest, run the default `xfer_vreopen`, put the pin. |
| `xfer_vreopen_restart`, `xfer_vreopen_open` | spec_modelled (`open.c`) | `intf_restart`: shut down `dl_xfer` with `-EPIPE` (the old transport's close handler runs), restore its descriptor, then plug a fresh transport, or fail when `ReopenMayFail`. |
| `requester_progress`, `requester_cancel` | requester side | |

**Data path.** It is written as operators returning `[rc, pos, image, over]`:
- `downloader_xfer_deliver` (downloader.c 155-183)
- `downloader_ensure_size` (94-116). Bytes `urealloc` adds are the model value `Undef`.
- `copy_to_user`
- `xfer_deliver`, `xfer_deliver_iob`, `xfer_deliver_raw`, `xfer_seek`, `xfer_alloc_iob`, `xfer_window` (xfer.c)

`pos` is `size_t` and wraps modulo `2^SizeBits`. `CopyOverruns` records a `copy_to_user` that writes past the buffer after `max = pos + len` wrapped. `BadOffsets` lets a datagram carry an offset near `2^SizeBits`. `RedirectAfterData` lets a transport redirect after it has delivered data.

The model assumes `dummy_metadata` (all zero) means `SEEK_CUR` with offset 0, so `SEEK_CUR` is 0. `ipxe/xfer.h`, which defines it, is not in the repository.

Three constants select readings of the unstated interface contract:
- `PlugHoldsRef`
- `NullifyOnShutdown` (shutdown blocks the interface before closing the peer)
- `TransportChecksRc` (the transport closes with the error when `xfer_deliver` fails)

The code's reading is that all three are TRUE.

### `Activity.tla`
This module models:
- `num_activities` modulo `2^UintBits`;
- `currticks()` modulo `2^TickBits`;
- a set of processes that each hold one activity;
- one caller;
- `frames`, a stack of the `activity_wait` calls in progress.

A process may call `activity_wait` from inside `step()`, which the header advises against. It does so with a timeout from `NestedTimeouts`, which is empty where processes never wait. `last` records the last wait to return: who called it, its value, its timing, and the processes holding an activity at that moment.

| Action | Code |
|---|---|
| `activity_start` | activity.c 41-43 |
| `activity_wait` | line 59: the deadline `currticks() + (t*TICKS_PER_SEC)/10` with unsigned wrap |
| `step` | lines 45-62: one iteration of the innermost loop. Any subset of running processes call `activity_stop`, each once. |
| `process_wait` | activity.h 11-12: a process run by `step()` enters `activity_wait` before stopping its own activity |
| `activity_wait_return` | line 63: pop the innermost wait and resume its caller |
| `tick` | the timer |

`TimeoutTicks` is the code's arithmetic. `RequestedTicks` is the exact time the header promises ("tenths of a second").

### `XferPrintf.tla`
This module models a sender calling `xfer_printf` on an interface plugged to a receiver that appends what it gets to a stream. The receiver may unplug.
- `xfer_vprintf` measures the text with `vsnprintf(NULL, 0, ...)`, renders it again from the `va_copy` into `char buf[len + 1]`, and hands `len` bytes to `xfer_deliver_raw`.
- `vsnprintf` is not in the repository. It is modelled to C99: it returns the full length and writes at most `size - 1` characters and a NUL. Formats are sequences of literal characters and `%d`, rendered by the `RECURSIVE` operators `Render` and `DecimalDigits`.
- `xfer_deliver_raw` may fail with `-ENOMEM`. After the receiver unplugs, delivery gets `-EPIPE`.

### `HelloTest.tla`
This module models `test_hello_callback` as a `RECURSIVE` operator over a byte string. `char` is signed. `test_hello` is a state machine:
1. print the banner;
2. `say_hello` (not in the repository) hands chunks of the reply to the callback;
3. `async_wait` returns a status, and a failure prints a line.

The callback's output is checked against `Intended` applied to all the bytes delivered. `Intended` is the filter that the comment and the `'.'` branch describe.

### `Atl1eRegs.tla`
This module models the layout in `atl1e.h`. The driver code that uses it is not in the repository, so the module checks the layout under the use its MASK/SHIFT pairs and the `AT_READ_REG`/`AT_WRITE_REG` macros are made for.
- `Layout` maps each word to its cells. The words are the tpd words 2 and 3, rrs word 1 with its `pkt_flag` and `err_flag`, and 39 registers. Among the registers are the status words (`IDLE_STATUS`, `PHY_STATUS`, `BIST0/1_CTRL`, `SERDES_LOCK`), `ISR` and `IMR`, and nine MII PHY registers. `IMR` has no bits of its own and takes the cells of `ISR`.
- A cell is a field (`Field`/`Fld`, from a MASK and a SHIFT), a mask the header gives already in place (`Placed`: `MAC_CTRL_SPEED_MASK`, `MII_CR_SPEED_MASK`, the PBA, RSS-mode and MDIO clock values), or a flag (`Flag`). Each cell has the values the code names for it: `MAX_TX_BUF_LEN` for `TPD_BUFLEN`, `enum atl1e_dma_req_block` for the DMA burst lengths, `MAC_CTRL_SPEED_*`, `MDIO_CLK_25_*`, `TWSI_CTRL_FREQ_SEL_*`, and otherwise 0 and the full mask.
- A word is the set of its bits that are 1. TLC's integers stop at 2^31, so 32-bit words cannot be integers. `&`, `|` and `~` become intersection, union and complement within the word's width (8, 16 or 32 bits).
- `SetCell(r, n, v)` is one update: clear the cell's bits, OR in `v` shifted into place and cut to the width, and write the word back. `last` records the value written to each cell.
- `WriteWord(r, val)` is `AT_WRITE_REG` of a composite from `WordWrites`. The composites are `GPHY_CTRL_DEFAULT`, `GPHY_CTRL_PW_WOL_DIS`, `IMR_NORMAL_MASK`, `MII_AR_DEFAULT_CAP_MASK` and `MII_AT001_CR_1000T_DEFAULT_CAP_MASK`. Each one replaces the whole word, so every cell of the word then holds what the composite gives it. `OrFlags` is C's `A | B | ...` over named flags.
- `ISR_TX_EVENT` and `ISR_RX_EVENT` are the event groups over the same `ISR_*` bits as `IMR_NORMAL_MASK`.
- Words start all zeros or all ones. The header gives no reset values.
- Three names are not cells:
  - `TWSI_CTRL_SMB_SLV_ADDR`, because its mask is written `0x0x7F`;
  - the `SPI_FLASH_CTRL_STS_*` bits, which are the values of `DEV_STS`;
  - `MII_CR_SPEED_SELECT_MSB`/`LSB`, which are the two bits of `SPEED`;
  - `MII_AR_SELECTOR_FIELD`, which is the value 1 of the 5-bit selector that `MII_LPA_SLCT` gives the width of.

### MC modules
- `MCDownloader.tla` gives `File` concrete values: a 3-byte file, plus a 1-byte file for the small violation runs.
- `MCDownloader.tla` also gives the transports: three model values, or one for the small runs.
- `MCActivity.tla` gives two processes as model values, and the timeouts 5 and `ACTIVITY_TIMEOUT` (activity.h). There is no symmetry set, because `WaitReturns` is a liveness property.
- `MCAtl1eRegs.tla` gives the words of the two runs: every word but `TWSI_CTRL`, and `TWSI_CTRL` alone.
- `MCXferPrintf.tla` gives three formats and the `%d` arguments -7, 0 and 42.

## 3. Runs

| Run | cfg | Expect | What it shows |
|---|---|---|---|
| `dl_core` | `MCDownloader.cfg` | pass | `LifetimeSafe`, `NoLeak`, `RegisterOnce`, `RegisteredImageCorrect`, `JobOutcome`, `WriteInBounds`, `Completion` and the refinement `DownloadJobSpec` all hold. They hold over every interleaving of deliveries (stream, seek, reordered and duplicated datagrams), both allocation failures, up to two redirects in turn before any data, cancel, and re-entrant closes (~512k states). |
| `dl_rc_ignored` | `MCDownloader_RcIgnored.cfg` | violation of `RegisteredImageCorrect` | A growth failure reaches only the transport. A transport that ignores it closes with success, and an incomplete image is registered. In the shortest trace, a 1-byte file ends in an empty image. |
| `dl_redirect_hang` | `MCDownloader_RedirectHang.cfg` | violation of `Completion` | When the reopen fails, the error goes only to the old transport, which is already closed. The downloader is left unplugged, and its job never closes. |
| `dl_write_wrap` | `MCDownloader_WriteWrap.cfg` | violation of `WriteInBounds` | A datagram at offset 7 of a 3-bit `size_t` makes `pos + len` wrap to 1. `ensure_size` does not grow the buffer, and `copy_to_user` writes past it. |
| `activity` | `MCActivity.cfg` | pass | Without tick wrap, `TypeOK`, `WaitTrueMeansDone`, `TimeoutHonoured` and `WaitReturns` hold for every wait, nested waits included. |
| `activity_tick_wrap` | `MCActivity_TickWrap.cfg` | violation of `TimeoutHonoured` | Entering `activity_wait` near the top of the tick range wraps the deadline, so it returns 0 after no time at all. |
| `printf` | `MCXferPrintf.cfg` | pass | `TypeOK` and `StreamIsRendered` hold: the receiver gets exactly the rendered text of the successful calls, in order (~64k states). |
| `hello_filter` | `MCHelloTest.cfg` | violation of `PrintsOnlyPrintable` | The filter's `\|\|` condition is always true, so byte 7 is printed as is. |
| `atl1e_layout` | `MCAtl1eRegs.cfg` | pass | `FieldsReadBack` and `EventsUnmasked` hold for 43 words (337 cells) after any two field updates or composite writes, from either reset value (~497k states). Every cell reads back what was last written to it. While `IMR` holds `IMR_NORMAL_MASK`, every raised `ISR_TX_EVENT`/`ISR_RX_EVENT` bit is unmasked. |
| `atl1e_twsi_overlap` | `MCAtl1eRegs_Twsi.cfg` | violation of `FieldsReadBack` | `TWSI_CTRL_READ_FREQ_SEL` (bits 23-24) and `WRITE_FREQ_SEL` (bits 24-25) share bit 24. After writing 100K to the read frequency, writing 200K to the write frequency makes the read frequency 300K. |

Every property of a passing run has a mutant in `PROJECT.json`. The mutant is a plausible bug in the modelled code, and TLC finds the property violated under the run's cfg. Examples:
- `ref_put` freeing one reference early, or never running `downloader_free`;
- shutdown not nullifying the interface;
- the missing position reset for `SEEK_SET`;
- `~` written for `!`;
- `ensure_size` growing to `len - 1`;
- a missing `if ( rc == 0 )` before `register_image`;
- `char buf[len]`;
- a missing `va_copy`;
- `MAX_TX_BUF_SHIFT` one too large;
- `ISR_TX_PKT` left out of `IMR_NORMAL_MASK`;
- a field written with `AT_WRITE_REG` alone, without the read.

### Bounds and why they suffice
- **Downloader.**
  - A 3-byte file with chunk lengths {1,2} gives both split points.
  - `SizeBits = 3` (`size_t` of 8 values) is larger than the file, so wrap only happens with the offsets in `BadOffsets` (7 in `dl_write_wrap`).
  - `MaxDelivers = 4` allows a full stream plus a duplicate or a reordering, or a failure followed by more data.
  - `MaxDepth = 8` covers the deepest re-entrant shutdown chain: transport shutdown, downloader_finished, shutdown of xfer and job, requester close, and its own shutdown. A redirect adds `xfer_vredirect`, `xfer_vreopen` and the restart's shutdown on top of an empty stack.
  - Three transports allow two redirects in turn, each to a fresh transport, so a redirect can happen from an already redirected stream.
  - The violation runs use smaller bounds, so their traces are short.
- **Activity.**
  - Two processes, so one can stop while another still runs, or wait inside `step()`.
  - 4 ticks per second makes timeouts of 5 and 10 tenths (`ACTIVITY_TIMEOUT`) 2 and 4 ticks. 8 ticks and 3 waits allow a completed wait, a timed-out wait, and a wait nested in another.
  - `TickBits = 8` keeps the passing run free of wrap. The wrap run uses `TickBits = 5` and starts at tick 30.
  - `UintBits = 2` holds the two processes' activities without wrap.
- **Printf.** Up to 3 calls with the formats `n=%d\n`, `%d%d` and `\n`, and arguments -7, 0 and 42. These cover a negative number, a zero, two conversions and no conversion, with allocation failure and the receiver closing between calls.

- **Atl1e layout.** `MaxWrites = 2` updates per behaviour, over all cells of all words, from both reset values.
  - An update changes only the bits of its own cell's `pos`. A cell therefore reads back wrongly only when a later update to a cell sharing one of its bits changes it, or when its own value does not fit. Two updates reach every such pair, and one update reaches every value that does not fit.
  - `EventsUnmasked` needs two steps: the `IMR_NORMAL_MASK` write and the raising of an event bit, in either order.
  - `CHECK_DEADLOCK FALSE`: after the bound, no update is enabled.

### Fairness
- **Downloader.** `WF_vars(Step)`: a call once started runs to completion. It is straight-line C on one thread, and nothing inside it blocks. The transport and the requester get no fairness. The code does not oblige them to act, so `Completion` is conditional on the transports having closed or the requester having cancelled.
- **Activity.**
  - `WF` on `tick`: the timer interrupt keeps running.
  - `WF` on `activity_wait_return`: the loop re-tests its condition on every iteration.
  - Processes get no fairness. They may never stop, which is what the timeout is for.
- **Printf, HelloTest, Atl1eRegs.** Safety only.

## 4. What is not modelled, and the plan
Not modelled:
- `sanboot.h`. It holds declarations only.
- Parts of `atl1e.h`:
  - register addresses, including the 16-bit and byte registers at neighbouring addresses, because widths are not stated for most of them;
  - `MII_AR_SPEED_MASK`, a mask over four flags that no definition writes or clears;
  - the registers that the header defines only by address (DMA addresses, ring sizes, statistics);
  - the driver structures (`atl1e_adapter`, rings), which are used only by driver code that is not in the repository.
- The interface-contract readings `NullifyOnShutdown = FALSE` and `RedirectAfterData = TRUE` remain constants of `Downloader`, but no run in `PROJECT.json` sets them. `dl_core` fixes the code's reading: shutdown nullifies the interface, and redirects happen before any data.
- The banner formatting of `test_hello` (`inet_ntoa`, `ntohs`). No property is about it.
- `vsnprintf` conversions other than `%d`.
- Misuse of the activity API. Two cases are left out:
  - an `activity_stop` without its `activity_start`;
  - a process that waits from inside `step()` and then expects its own activity to clear.

  Both break the contract that `activity.h` and the specification state, so the model keeps the contract. Nested waits whose processes behave are still checked.
- No type invariant is checked for `Downloader`. Its domains hold by the shape of the actions, and no plausible change to the downloader's code breaks one without breaking a safety property first.
- `XferUsable` (the descriptor is restored after a redirect's restart) was a restatement of `intf_restart` in `open.c`, which is not in the repository. The redirect interleaving it was meant for is checked by `LifetimeSafe` and `NoLeak`.
- Reserved bits of the atl1e words. Their update is the model's own read-modify-write, not repository code, so a property about them would only check the model.

Plan for later sittings, in order:
1. **Pass-through lookup.** A pass-through filter object between the downloader and the transport, with the hop-bounded `intf_get_dest_op` walk as a `RECURSIVE` operator.
2. **Liveness in `DownloadJob`.** State `Completion` of the abstract spec, and check it through the refinement.
3. **Larger instances.** A 4-byte file with `MaxDelivers = 5`. `dl_core` already runs with three transports.
