# TLA+ models of arcan (event core, Lua dispatch, waybridge, GLES store)

This directory holds TLA+ models of the parts of this arcan snapshot that have
state worth checking, plus the TLC configurations that check them. Every
action is translated from the C source under `src/`. `PROJECT.json` maps each
definition to the lines it models. The one exception is the event queue and its shared-memory variant: their
implementation (`arcan_event.c`) is not in the repository, so their operations
are modelled from the prototypes and comments of `src/arcan_event.h` and from
`spec.md`. Where a comment in the header states what an operation does, `PROJECT.json` maps the action to that comment and prototype. The rest are marked `spec_modelled`.

## The system and its parts

| Part | Source | How it interacts |
|---|---|---|
| Event record and categories | `src/arcan_event.h` 34-307 | Every producer builds an `arcan_event`. Video and frameserver events carry the id of the object they concern. |
| Event context (`arcan_evctx`) | `src/arcan_event.h` 309-427 | A ring with `front`/`back` cursors. It supports enqueue (a full ring overwrites the oldest event), poll and poll_masked, the input mask, keyrepeat, `erase_vobj`, and `queuetransfer` from a frameserver's context into the engine's. |
| Shared context | `src/arcan_event.h` 29-32, 332-347, 357-362 | A context with `local` false is shared between the main process and one frameserver. The frameserver enqueues into its output ring and the main process polls it. The main process (`target_input`, through `arcan_frameserver_pushevent`) enqueues into the frameserver's input ring and the frameserver polls it. Each side holds the semaphore `synch.external.shared` for its call. The main side waits at most `DEFAULT_EVENT_TIMEOUT` and otherwise frees the frameserver through the killswitch. |
| Wire codec, analog filter | `src/arcan_event.h` | Prototypes only, with no implementation in the repository. |
| Lua binding: `arcan_lua_pushevent` | `src/arcan_lua.c` 1164-1431 | Turns each polled event into a call of the theme's `input`, `system`, `target_event` or `video_event`, or of a callback the script registered (a `luaL_ref`). |
| Lua binding: script operations | `src/arcan_lua.c` | `load_image_asynch`, `load_movie` and `launch_target` register callbacks and create objects. `delete_image` and `expire_image` with a lifetime of 0 remove them. `target_input` sends input to a frameserver. The movie and target control calls act only through the frameserver. |
| Key translation | `src/arcan_lua.c` 1120-1151, 2404-2473, 2636-2649 | `to_utf8` converts the UTF-16 unit of a translated key into the `utf8` field of the input table. `utf8kind` classifies a byte of a UTF-8 string. `decode_modifiers` names the modifier bits of a key event. |
| Video objects and transform masks | `src/arcan_lua.c` 237-250, 283-293, 545-572, 631-682, 732-751, 1514-1523, 1589-1615, 1866-1913 | `load_image`, `render_text`, `build_3dmodel`, `build_3dplane`, `fill_surface` and `random_surface` create an object or return `ARCAN_EID`. `delete_image` frees one. `link_image` gives the child the mask SCALE\|OPACITY\|POSITION\|ORIENTATION through `arcan_video_linkobjs`. `instance_image` gives a clone the mask SCALE\|OPACITY\|POSITION\|ORIENTATION. `image_mask_toggle`, `_set`, `_clear` and `_clearall` read and store an object's mask through `arcan_video_getmask`/`arcan_video_transformmask`. |
| Raw resources | `src/arcan_lua.c` 84-231 | `zap_resource`, `open_rawresource`, `read_rawresource`, `write_rawresource` and `close_rawresource` share the one `FILE*` in `lua_ctx_store`. |
| Waybridge `wl_subsurface` | `src/src/tools/waybridge/wlimpl/subsurf.c` | `position`, `place_above` and `place_below` update a viewport hint, which is sent to arcan with `arcan_shmif_enqueue`. |
| GLES texture store | `src/src/platform/agp/gles.c` 206-284 | `drop_vstore`, `resize_vstore` and `stream_prepare`/`commit` manage the raw pixel buffer. |
| pixman back-end, darwin video, TUI buffer window | `src/src/platform/...`, `src/src/shmif/` | Stubs, platform I/O, and declarations only. None has state to check. |

The flow through these parts:

1. Producers (frameservers, the asynchronous loader, input) enqueue events into a context.
2. A frameserver's events are transferred into the engine's context.
3. The main loop polls them and hands each to `arcan_lua_pushevent`.
4. Meanwhile the script deletes and creates objects. This is why an event can name an id that has since been deleted or reused.

## Modules

- **`EventTypes`** holds the event categories as constants, the source-carrying categories, `Event(ids, cats)` (a record of category, kind and source), and `WithSource`, the source rewrite that `queuetransfer` applies.
- **`EventQueue`** models one ring per context.
  - Its state is `ctx[c]` (`buf`, `front`, `back`, `maskInp`, `leaks`, `kbdrepeat`), as `struct arcan_evctx` has it.
  - Two ghost variables support the properties. `fate[i]` records what became of each event. `nextId` numbers the events so that each is unique.
  - Its actions are `Enqueue`, `Poll`/`PollMasked`, `MaskAll`/`ClearMask`/`SetMask`, `KeyRepeat`, `EraseVobj` and `QueueTransfer`. `QueueTransfer` scans with the recursive `TransferScan` and stops at the saturation ceiling.
- **`EventQueueAbstract`** is what a context promises: a FIFO sequence of at most `Cap` events that keeps the newest ones. `EventQueue` refines it through `Abs` (the unread region read as a sequence), and `AbsSpec` is checked as a property.
- **`MC_EventQueue`** instantiates the queue for TLC. It also defines `QueueView`, which forgets stale slots and absolute cursor values. No action reads either of them, so the view does not change which states are reachable.
- **`SharedContext`** models the two shared rings between the main process and one frameserver: the frameserver's output ring `q` and its input ring `inq`.
  - It reuses `EventQueue`'s ring operators (`Push`, `Used`, `Overwritten`, `InitCtx`) through `Q == INSTANCE EventQueue`.
  - Its other state:
    - `sem` is the semaphore's holder.
    - `peer` is the frameserver: alive, hung or freed.
    - `killswitch` records whether the killswitch still points at the frameserver.
    - `mpc`, `elapsed` and `fpc` are the two sides' control points and the clock of the timed wait.
    - `mop` and `fop` record what each side holds the semaphore for.
    - `fate`, `infate`, `nextId` and `inNext` are ghosts that follow each event and each input.
    - `ptr` and `pid` are the slot that `arcan_event_poll` returned and (ghost) the id it held.
  - The frameserver's actions are `FsrvLock`, `FsrvEnqueue` (enqueue and release), `FsrvPoll` (take the next input and release) and `FsrvHang`. The frameserver is untrusted and may stop anywhere, even while it holds the semaphore.
  - The main side's actions:
    - `MainWait` starts a timed wait.
    - `MainAcquire` takes the semaphore.
    - `MainTick` advances the clock while the semaphore is held elsewhere.
    - `MainTimeout` fires at the deadline. It drops the killswitch, frees the frameserver, and loses its context with the unread events in it.
    - `MainPoll` advances `back`, returns the slot and releases the semaphore.
    - `MainDispatch` reads the event through the returned pointer afterwards.
    - `MainPush` is `target_input`'s `arcan_frameserver_pushevent`. It enqueues an input and releases the semaphore.
  - The header calls the semaphore a lock ("a failure to get a lock within the set time"). `spec.md` §9 calls it a signal. The model follows the header.
- **`SharedChannel`** is what a shared context promises its two sides: two FIFO channels of at most `Cap` events (`out` and `inp`) that keep the newest events, and one lock (`holder`).
  - Only the holder changes a channel, and it releases the lock with the change.
  - The main side may revoke a frameserver that holds the lock. Revoking closes the channel and empties both directions for good.
  - `SharedContext` refines it through `Chan`. The mapping reads each ring's unread region as a sequence of ids and takes `sem` as the holder and `killswitch` as `open`. `ImplementsChannel` is checked as a property.
- **`LuaDispatch`** models the Lua side.
  - Its state per object id: `vobj` (the feed-state tag), `fsrv` (the life of the frameserver) and `ftag` (the callback ref stored in the frameserver).
  - Its global state: `loadref` (the ref of a pending asynch load), the event queue `evq`, the registry counter `nextRef`, the Lua `stack` depth, and `status` (`running`, or the crash that stopped the engine).
  - `lastCall` and `lastInput` record what the last dispatch or `target_input` did. The properties read them, and every other step clears them.
  - Dispatch has one branch per category of `arcan_lua_pushevent`: SYSTEM, IO, TIMER (`clock_pulse`), TARGET, VIDEO and AUDIO (`audio_event`).
  - Every `lua_pcall` goes through `arcan_lua_wraperr` (`PCall`, `WrapErr`). The script may raise an error, which ends in `arcan_fatal` unless debug is above 2.
  - `TargetLaunch` takes the code's inputs: a database match with a resolved resource, the internal flag, the resource's extension (`use_loader`), and whether the spawn or internal launch succeeds.
  - `SetLife`, `MovieControl` and `TargetControl` model `expire_image`, `pause/resume/play_movie` and `suspend/resume_target`. Apart from `expire_image(vid, 0)`, which is `delete_image`, they change nothing the model holds.
  - `Shutdown` (`shutdown`) enqueues `EVENT_SYSTEM_EXIT` on the engine's queue.
  - `CallVoidFun` is `arcan_lua_callvoidfun`: the main loop calls a theme function by name through `lua_pcall` and `arcan_lua_wraperr`. Its callers are outside the repository, so each call counts against `MaxEvents`.
  - The producers are spec_modelled. They are the engine events whose emitting code is not in the repository.
- **`Subsurf`** models the three subsurface handlers. `sent` is the hint that arcan last received. `broken` is the set of resources without a `comp_surf`. A request on one of them, or naming one as the sibling, takes the handler's early return: nothing changes and nothing is sent.
  `TraceOnly` models `destroy`, `set_sync`, `set_desync` and the shmif event handler. They only trace, so only `last` changes. `destroy` not destroying the resource, and hints being sent before the parent commits, are listed as hazards.
- **`KeyTranslate`** holds `to_utf8`, `utf8kind` and `decode_modifiers` as operators, and `RefUtf8` (RFC 3629) as the reference. `MC_KeyTranslate` checks all 65536 16-bit values. The `KMOD_` values come from SDL 1.2's `SDL_keysym.h`, which is not in the repository.
  It also holds the keyboard half of the input round trip. `Encode` is `pushevent`'s table for a translated key (`PushKeyTable`). `SendBack` is a script handing that table to `target_input`, which rebuilds the event (`TargetInputKey`). The key event comes from the same 16-bit value, so every field takes every value of its width.
- **`RawResource`** models the raw resource files.
  - `fs` maps each namespace (theme, shared) and name to an inode. `data` holds each inode's characters. `rfile` is the open handle: an inode, a mode and a position.
  - A zapped file that is still open stays reachable through the handle, as with POSIX unlink.
  - The order in which `arcan_find_resource` searches the namespaces is outside the repository, so the model leaves it open.
  - Three ghost variables support `RoundTrip`: `created`, `written` (what the script wrote with result true) and `readSince` (what it read since the last open).
- **`TransformMask`** models the live video objects and their masks.
  - The six object-creating calls are one action each. They share `Create`: a free id becomes live with the mask the engine's allocation gives it (any subset of `MASK_ALL`; `arcan_video.c` is outside the repository), or the call fails and nothing changes. `DeleteImage` frees a live id. `LinkImage` stores the link mask on a live child of a different live parent. That is how `arcan_video_linkobjs` is taken to behave; it is outside the repository. The bad-id path (a warning or `arcan_fatal`) is modelled in `LuaDispatch`.
  - A mask is an unsigned value, kept as the set of its one bits: the bits of `MASK_ALL` and the bits outside it. `~val` is the complement and `^` the symmetric difference.
  - `MaskAccepts` keeps the guard `(val & !(MASK_ALL)) == 0` as the code writes it. `!` is the logical not, so the guard is always true.
  - `alive` is the set of ids with a live object. `arcan_video_transformmask` on a free id changes nothing.
  - `last` (ghost) records the last call, for `ToggleFlipsGiven`.
- **`MC_VObject`** composes `VStore` and `TransformMask`, the two kinds of per-object state below and beside the binding. They share no variable, and each step is a step of one of them.
- **`VStore`** models the store's dimensions, `raw`/`s_raw`, and the heap as a set of numbered blocks, so that a buffer that is lost or freed is visible.

## Runs

| Run | Checks | Result |
|---|---|---|
| `queue` | TypeOK, NoLossNoDup, LeakAccounting, AbsSpec | pass. Two contexts with 2 slots each and 3 events. Every event is queued, delivered, skipped, erased, transferred or counted as leaked exactly once, through saturation, transfer in both directions and source rewrite, and each ring refines the FIFO. |
| `lua_dispatch` | TypeOK | pass. Every script operation and every `pushevent` branch is reached over two reusable ids. The feed tags, load refs and registry refs stay consistent. That an asynch completion reaches its own load's callback is not a separate property: the ref travels in the event (1364-1366), so it holds by the code's shape. |
| `lua_callback_identity` | CallbackIdentity | violation. A MOVIEREADY event for a deleted movie runs the callback of a new movie that reused the id. |
| `lua_stale_deref` | NoStaleDeref | violation. TARGET and FRAMESERVER_TERMINATED events dereference the feed state of a deleted object. |
| `subsurf` | TypeOK | pass. The order stays an `int8_t` at both ends of the range. At 127 and -128 the code keeps the order on purpose, so the request is not honoured. That is listed as a hazard, not checked. |
| `keys` | TypeOK, EncodesScalars, Utf8KindAgrees, KeyRoundTrip | pass. Every scalar value is encoded as RFC 3629 requires. `utf8kind` reads the result as one lead byte and then continuation bytes. `decode_modifiers` runs on every value, but no property is stated about it: one comparing it with its own bit tests would hold by construction, and one including AltGr fails (a hazard). A translated key's table, sent back through `target_input`, becomes the same event (press or release, every field). The button and analog branches of that round trip do not hold (see the hazards). |
| `vobject` | TypeOK, RawMatchesSize | pass. The raw buffer always has w·h·bpp bytes, while objects are created, deleted and instanced, and their masks toggled, set and cleared, beside it. |
| `mask_toggle` | ToggleFlipsGiven | violation. `image_mask_toggle` applies `mask ^= ~val`, so toggling 0 sets every bit, bits outside `MASK_ALL` included. |
| `rawresource` | TypeOK, ContentOnlyGrows | pass. In any order of calls, the handle stays within its file, and no linked file loses content. |
| `shared_context` | TypeOK, WaitBounded, EventuallyConsumed, InputDelivered, ImplementsChannel | pass. Even when the frameserver hangs while holding the semaphore, every timed wait of the main side ends. Every event the frameserver commits is eventually dispatched, overwritten, or lost with the freed frameserver. Every input `target_input` sends is eventually taken by a frameserver that does not hang. The rings, semaphore and killswitch together implement `SharedChannel`. |
| `shared_poll_pointer` | PolledIntact | violation. After `arcan_event_poll` returns, the frameserver can enqueue twice and wrap the 2-slot ring into the polled slot before the main side reads it (9 steps). Nothing in the header or `spec.md` says how long the pointer stays valid. |
| `rawresource_roundtrip` | RoundTrip | violation. Two lines written to a new resource come back as one line after reopening, because `write_rawresource` adds no newline. |

Each property of a passing run has a mutant in `PROJECT.json`. A mutant is a plausible bug in the mapped code, and TLC finds the property violated when the mutant replaces that code.

The models reach six more defects that have no run of their own, because the lines show them directly:

- The SYSTEM branch pushes three values and never calls or pops them, so `stack` grows.
- An internal `launch_target` that returns NULL has its tag written before the check, so `status` becomes `crash_launch`.
- `target_input` returns true for a launched target without delivering the input (`lastInput`).
- The mask guard `!(MASK_ALL)` is 0, so `image_mask_set` never reaches its "bad mask" warning.
- `agp_drop_vstore` clears the raw pointer without freeing the buffer, so the block stays in `heap`.
- `to_utf8` encodes a lone surrogate (0xD800-0xDFFF) as a three-byte sequence, which is not valid UTF-8. `EncodesScalars` checks every other code unit.
- `target_input` does not undo `pushevent`. On the untranslated digital path it never sets `kind`, so a release sent back arrives as a press. On the analog path it never sets `nvalues`, so the samples are lost. No run checks either, because LuaDispatch abstracts the event payload.
- `scaleimage2` falls back to the original size only when both scale factors are near zero. With only one of them near zero, it divides by that one. No run checks this, because the image properties come from engine code outside the repository.

`PROJECT.json` lists them as hazards.

## Bounds

- **Queue:**
  - A capacity of 2 is enough for the ring to wrap and overwrite within 3 events.
  - Two categories are used, one source-less and one carrying a source, so erase and rewrite have something to tell apart.
  - Two sources and two contexts give transfer a target and a source.
  - The saturation is 0.5, as in `spec.md` §8. With two slots the ceiling is one event, so a transfer both moves events and stops at the ceiling. A ceiling at or below 1 never lets a transfer overwrite, so larger values would add no behaviour.
  - One kind: `poll_masked` with the kind set empty or full still both matches and skips. A second kind, with two contexts, takes TLC past 15 minutes.
  - `MaxEvents` caps the ghost event numbering.
- **Lua:**
  - The two ids are a symmetry set. No operation tells them apart: the engine hands out any free id, and events and refs compare ids only for equality.
  - Target resources with extension `.so` and without one: one takes the loader branch and one does not. `.dll` and other extensions take the same branches.
  - Two ids, so that one can be deleted and reused while an event for the old object is still queued.
  - Two refs, so that two callbacks can be told apart.
  - Three events in flight.
- **Subsurf:**
  - Two surfaces. Any subset of them may start broken.
  - Orders range over the whole int8, so the edges at 127 and -128 are reached.
- **Key translation:** exhaustive over `uint16_t`.
- **Raw resources:**
  - One name, which can be linked in either namespace.
  - Two inodes, enough for an initial file and a created one.
  - The messages "", "a" and "a\n".
  - Files of up to four characters, enough to write two lines and read them back.
  - `LineBuf` keeps the code's 256, so the 255-character split is out of reach. It is listed as a hazard.
- **Transform masks:**
  - Three of the six flags, two of them in the instance mask, and one bit outside `MASK_ALL`. Bits are independent under `^`, `&`, `|` and `~`, so more bits repeat the same cases.
  - Two ids, one free for `instance_image`.
  - The values 0, one flag inside and one outside the instance mask, `MASK_ALL`, and an out-of-range bit.
  - The enum's numeric values are in `arcan_video.h`, which is not in the repository. The only value the code depends on is `MASK_ALL # 0`.
- **Shared context:**
  - Rings of 2 slots, with 4 events from the frameserver and 4 inputs from the script. Each ring saturates, overwrites and wraps twice. The pointer race needs only 3 events, so its run keeps 3.
  - A deadline of 2 ticks, so that a wait can both end in time and time out. The 500 ms of the header only scale the clock.
  - One kind, because the properties do not tell kinds apart.
- **VStore:**
  - Dimensions 1 and 2, so a resize changes the size.
  - Four allocations.

## Fairness

Only `SharedContext` states liveness. Its `Spec` assumes two kinds of fairness.

- **`WF_vars(MainStep)`:** weak fairness of the main side as a whole. The engine's main loop runs on every tick, and a timed wait returns when its deadline passes.
- **`SF_vars(FsrvStep)`:** strong fairness of the frameserver's lock, enqueue and poll steps. These are enabled only while the frameserver has not hung. A live frameserver keeps running its loop. When it waits on the semaphore it is the only waiter, so a post by the main side wakes it. That holds even though the main side may take the semaphore again on a later tick, so the semaphore is only intermittently free and weak fairness would not be enough.

`FsrvHang` has no fairness: a frameserver may hang or not. `WaitBounded` and `EventuallyConsumed` hold even without the frameserver's fairness (they held before it was added). `InputDelivered` needs that fairness, and it exempts a frameserver that hangs.

All other properties are safety properties. Some runs say `CHECK_DEADLOCK FALSE`. In `LuaDispatch` and `RawResource` this is because a fatal error or crash (`status` other than `running`) really stops the engine. In `SharedContext` it is because after a timeout the frameserver and its context are gone, so there is nothing left to wait on.

## Not modelled, and the plan for later

- **The wire codec and the analog filter.** The repository has only their prototypes. `spec.md` gives what they must do but not how, so there is no code to translate. The event queue is modelled from the spec and the header comments too, but there the header declares the state (`arcan_evctx`) and each operation's contract, and other code of the repository (the Lua binding, the shared context) uses them. The codec has no such user or state in the repository, so a model of it would check the spec against itself.
- **Other Lua operations:** video contexts (`pushcontext`/`popcontext`, and the `wraperr` loop), `target_suspend`/`resume`, movie play/pause, and `scale_image`'s aspect arithmetic.
  - The engine functions these call (`arcan_video_*`) are outside the repository. For context push and pop they carry all the behaviour.
- **A stream writer** that holds a buffer `resize_vstore` freed.
- **pixman, darwin and the TUI buffer window.** They have no state to model.
