# ARM-Linux-Drv in TLA+

The repository is a course of Linux 2.6.22 device drivers for an S3C2440 board
(`src/Drivers/`, one directory per lesson) and a set of larger drivers copied from the
kernel for study (`src/ex_source/`).  Each driver is a module of its own; drivers do not
call each other.  What makes them hard is the same everywhere: one processor on which
interrupt handlers and timers cut into system calls, files opened and closed while
handlers run, devices that disappear, and errors half-way through a probe.

This project models the drivers that have such behaviour, checks them with TLC and proves
their invariants with TLAPS, for every value of the constants.

## 1. Inventory

| part | source | state | operations | what is hard | what makes it correct |
|---|---|---|---|---|---|
| buttons_all | `7.buttons_all/buttons.c` | semaphore, irq_pd, timer, ev_timer, key_val, wait queue | init, exit, open, read, release, irq, timer | debounce timer against interrupts, readers, rmmod; blocking and nonblocking opens | exclusive open, lines owned by the opener, no lost wake-up, debounced and current keys, quiet exit |
| third, forth, fifth | `3.thirddrv`, `4.forthdrv`, `5.fifthdrv` | ev_press, key_val, wait queue, fasync list | open, read, close, poll, fasync, irq | several opens share the lines, poll against keys, time-out and signals | lines freed in the end, no lost wake-up, polls answered |
| buttons_inp | `8.buttons_input/buttons_inp.c` | irq_pd, timer, input device | init, exit, irq, timer | interrupts during init, exit and the timer function; timer before the first interrupt | the timer function uses nothing that is not there; debounced, current keys |
| touch screen | `11.ts/s3c_ts.c` (`ex_source/s3c_ts_ym.c`) | controller mode, cnt, x, y, timer | two irqs, timer, init, exit | the pen moves at any time; timer function interrupted | always something under way that will look again, a lift is reported, filter |
| usb-skeleton | `ex_source/usb-skeleton_ym.c` | kref, intfdata, interface, io_mutex, pm usage, URBs | probe, disconnect, open, release, read, write, callback | unplug against everything, error paths | no use after free, no I/O when gone, references balanced, unplug ends |
| ramdisk | `ex_source/ramdisk_ym.c` | pages of the block device's cache, bd_openers | requests, address-space operations, open, ioctl, init, cleanup | reclaim of pages and of buffers, partial pages, two writers, out of memory | it is a disk, but for what reclaim takes |
| s3c2410fb | `ex_source/s3c2410fb_ym.c` | resources held, palette buffer | probe, frame irq | every failure of the probe; the irq is live during it | nothing left behind, no colour forgotten |
| usb_mousekb | `12.usb/usb_mousekb.c` | static URB, buffer, input device, pre_val | init, exit, probe, disconnect, handler | a handler that resubmits its URB against kill and free; two mice, replug | the URB is killed before it is freed, keys follow buttons, disconnect ends |
| ramblock | `13.ramblock/ramblock.c` | memory, request queue | request, init, exit | requests served in pieces, unchecked allocation | it is a disk |
| lcd, lcd_4.3 | `10.lcd` | registers, frame buffer | init, exit, setcolreg | order of exit, no result looked at | nothing left behind, oopses explained |
| s3c_nand, s3c_nor | `14.nand`, `15.nor` | resources | init, exit, register access | unwinding | nothing left behind, oopses explained |
| first, second | `1.firstdrv`, `2.seconddrv` | mapped registers | init, exit, open, read, write | registered before mapped | what is registered is ready |
| led_dev, led_drv | `9.led_dev_drv` | platform device, mapped registers | probe, remove, open, write | the device goes while a file is open | what is registered is ready |
| templates | `ex_source/ex_blockdev.c`, `ex_mtd.c`, `ex_nand.c` | resources | init, exit | unwinding | nothing left behind; the rest has placeholders |
| test programs, `.bak` | – | – | – | – | the environment of the models; older copies |

`PROJECT.json` lists the hazards of this code at their lines, and the properties that
catch them.

Many files do not compile as they are (misspelt names such as `writeback_contorl`,
`vec_offser`, `wait_events_interruptible`, `s3c_regs` for `s3c_nand_regs`, `error` and `err` in `rd_ioctl`, or missing
semicolons).  The models read such a name as the one it is a misspelling of.  Two calls are repaired as well, since no
compiler accepts them and what they are for is plain: `free_irq` with a structure passed by value (`buttons.c:90-92`) and
with the five arguments of `request_irq` (`buttons_inp.c:101`) frees the line for the pin descriptor it was requested with.
One thing cannot be repaired without inventing code: `limit_sem` of usb-skeleton is declared as a pointer and used through
its address, as if the semaphore were in the structure (`usb-skeleton_ym.c:30`, 158, 176, 230, 268).  It lies over the
fields behind it.  `UsbSkel` assumes nothing of those: `down` may pass or block, a transfer may end in any way.  No property rests on
the limit, and `MaxUrbs` is a bound of the model only.

## 2. Modules

`X.tla` models a component, `MCX.tla` and `X*.cfg` are its instances for TLC,
`XProofs.tla` its proofs; those of `Ramdisk` and `Ramblock` are in `DiskProofs`.

### Conventions

*One processor.*  The S3C2440 has one core.  An interrupt handler runs to completion with
respect to the code it interrupts, so it is one action.  Timer functions run in a
soft interrupt, with interrupts enabled: in `ButtonsAll`, `InputButtons` and `S3cTs` the function is split wherever an
interrupt can come between two accesses to what the handler or the hardware changes.  No process runs until it has
returned (`ProcessRuns`).  System calls can be
interrupted and preempted between their accesses to shared data; each access is an action.

*wait_event_interruptible* queues the caller before it tests the condition, and `do_poll`
sets the task's state before it asks the driver.  A wake-up between the test and `schedule()`
makes the sleep end at once.  The models therefore take the test and going to sleep as one
step.

*Modules* are pinned by the `owner` field of their operations while a file is open, so exit
runs only when all files are closed.  Removing and inserting the module again gives its
static data their initial values.

*Interrupt lines.*  An edge on a line with a handler is latched; on a masked line it may or
may not be, and both are possible in the models.

*Mutants.*  A definition with the comment "mutant" stands beside the definition it
is a faulty variant of, and no specification uses it.  It documents a mistake that the
property named in `PROJECT.json` would catch; a parameterised operator (`OpenCounting`,
`UnlockOf`) is there to let the two share their text.

### ButtonsAll – `7.buttons_all/buttons.c`

`file[f]` follows a file through `buttons_open` (try-lock or `down`, then one `request_irq` per
line), use, and `buttons_release` (one `free_irq` per line, `up`); `pc[t]` follows a thread
through `buttons_read`.  `Irq` is the handler.  The timer function is `TimerExpire` (the kernel calls it), `FetchPin` (it
reads `irq_pd`) and `PublishKey` (it reads the pin and publishes the key); edges and interrupts fall between them, so that the
level published may be one that has not settled.  `FetchNull` is its run before any interrupt has set `irq_pd`, which reads
through NULL: the kernel stops (`Halted`).  `timer` counts jiffies down; `buttons_init` adds the timer with `expires` 0, which
relative to `jiffies` is long past or far ahead: `FirstExpiry`.  `quiet`, `missed` and
`unread` are history.

### IrqButtons – the third, forth and fifth driver

The three share handler, open, read and close; the forth adds poll, the fifth fasync.
One module models all operations.  There is no exclusion between files: a second `request_irq`
of a line fails and is ignored, and the close of any file frees the lines whoever requested them.
`PollStart` to `PollLast` are the kernel's `do_poll` around the driver's poll, with its three kinds of time-out: none, some, and no limit.
`answer` is what the poll returned.

### InputButtons – `8.buttons_input/buttons_inp.c`

Init and exit as the sequence of calls they are, with interrupts and the timer in
between; the timer function is `TimerExpire`, `FetchPin` (or `FetchNothing`, when `irq_pd` is NULL) and `ReportKey`.  Of the input core
the model keeps the device, with its one reference, and the set of keys it holds pressed.  `oops` records the calls that use
what is not there: `set_bit` when there is no memory (`RegisterNull`), `input_unregister_device` after a registration
that failed, and in every exit `input_free_device` after `input_unregister_device` has given the reference back (`FreeDevice`).

### S3cTs and TsFilter – `11.ts/s3c_ts.c`

`S3cTs` has the two handlers as actions, the timer function as test, report, mode, start, and
the hardware: the pen moves at any time and raises `IRQ_TC` in the mode that waits for that
movement, a running conversion ends and yields any coordinates.  `x` and `y` are the samples collected,
their length is the driver's `cnt`; `report` is the position a step sent to the input core.
`InitIrqs` and `InitTimer` are two steps: a sample completed between them arms a timer that is not initialised, which is a
`BUG_ON` of the kernel (state "oops").
`TsFilter` has `s3c_filter_ts` and the average as operators on the four samples.

### UsbSkel – `ex_source/usb-skeleton_ym.c`

A connection is one interface with the `usb_skel` that probe allocates; a user is an
open file with its thread.  `hub` follows khubd through probe and disconnect.  The USB core
(2.6.22) disables the endpoints of an interface and waits for its URBs before it calls
disconnect (`UnbindDisable`, `UnbindFlush`); open holds no lock that would keep khubd out.

### Requests, Disk and Ramdisk – `ex_source/ramdisk_ym.c`

`Requests` has the requests of the block layer, with which the two RAM disks and their specification begin: the
sectors a request covers and how its segments cut them.

`Disk` is what a RAM disk promises: sectors that begin as zeros, requests that transfer sectors
in any order and grouping, an end with "ok" only when every sector was transferred.  A sector is forgotten in three ways
only.  A flush, which the sole user starts (`FlushStart`), drops each sector once (`flushing`).  Unloading, which needs a loaded disk that nobody
has open, drops them all.  And memory reclaim may drop a sector that is `frail`: one where a file system had buffers
(`buffered`) that the kernel has freed.

`Ramdisk` has the driver: pages with their uptodate, dirty and buffer state, the page lock, the request
loop over segments and pages, the address-space operations, `bd_openers` and the ioctl; and
around it memory reclaim and a file system that writes buffers of the device.  The file system takes no page lock: its write may fall
between the test and the `memset` of `make_page_uptodate` (lines 35-37) and be zeroed (`FsBufferRaced`).  Reclaim
is `Evict` of clean pages, the call of `Writepage` on dirty ones, and `FreeBuffers`: `ramdisk_set_page_dirty` sets the page's bit
only and `ramdisk_aops` has no `releasepage`, so `try_to_free_buffers` finds clean buffers and clears the dirty bit of a page
that holds the one copy of its data (`cancelled`, until somebody writes the page again).  That is this driver's way of losing
data, and `Disk` names it.  Under the mapping `disk <- Contents`, `Ramdisk` implements `Disk`
(`IsDisk`).  No action of `Ramdisk` is a stutter that is always possible, so the deadlock check says that some step of
the system is.  `rd_init` is a single step here and is taken apart in `DriverTables`.  Once opened,
the driver never goes back to use count 0, so that `Cleanup` stands for a forced rmmod.

### Ramblock – `13.ramblock/ramblock.c`

The second implementation of `Disk`, under `disk <- ramblock_buf`.  Here the block layer keeps a queue and
the driver empties it under `ramblock_lock`, one segment at a time: `Transfer` is the `memcpy`,
`EndRequest` is `end_request`, after which the request is at its next segment or off the queue.
The elevator may pick any request; requests are not merged, which would only serve them in one of the
orders that are possible anyway.

### UsbMouseKb – `12.usb/usb_mousekb.c`

`probes` numbers the probes, and the static variables are those of the last one; `urb[n]` is the URB of
the n-th.  `Disconnect` and `FreeAll` are the two ends of `usb_kill_urb`, between which handlers
run and their resubmission is refused (`Rejecting`); `FreeAll` also frees the URB and the buffer and unregisters the input device.
`FreeInput` is the last call, `input_free_device` on a device whose only reference has just gone: a use after free in every
disconnect, that passes unnoticed or kills the hub thread.  `usb_register` may fail and init returns 0 all the same (module "deaf"); exit then
deregisters a driver that is on no bus (`ExitDeaf`).  `misuse` records the three.  The run checks no deadlock, because a thread that died
stops the driver.  `pipe` is used uninitialised, so that `usb_submit_urb` may
take the URB or refuse it.  `crossed` (two mice were there at once) and `stale` (bits another mouse left in
`pre_val`) are history: they are what the two invariants make an exception for, and the exceptions are needed.
Bits 0 and 2 of a report both drive `KEY_L`, as in the code, although probe announces `KEY_ENTER`.

### Bringup and DriverTables – init, probe, error labels, exit

What the remaining drivers have is set-up and tear-down.  `Bringup` is a machine for it: a driver has three
scripts, `init`, `undo` (its labels) and `exit`, of statements that take a resource and look at a refusal (`Get`)
or do not (`Want`), follow pointers (`Touch`) and release (`Put`, or `Free` where NULL does no harm).  Around it are
insmod, rmmod, the platform bus, open files, and the entry points (`serves`) that are reached as soon as what they
come `through` is registered.  `DriverTables` translates each function into its script, one statement per
call that matters; `early` (registers before it maps), `blind` (what a label releases whether it was taken or not), `twice` (what exit
releases a second time), `bus` (bound by a bus, so that files outlive it) and `forgets` mark what only some drivers do.
`missing` is what a pointer was followed to in vain; after such an oops the machine restarts.  `NothingLeft` says
nothing of what a driver `forgets`: the frame buffer's memory of `lcd.c` and what `nand_scan` took.

### S3cFb – `ex_source/s3c2410fb_ym.c`

Adds the palette to the s3c2410fb of `DriverTables`: the frame interrupt runs from `request_irq` on.
`SetColor` is the set-colour operation of the full driver, which this file does not contain.

## 3. Runs

| run | instance | shows |
|---|---|---|
| `buttons_all` | 2 files, 1 thread, 2 keys, delay 2, signals | `ExclusiveOpen` (the semaphore and the lines), clean exit (`Quiesced`), `NoLostWakeup`, `KeyCurrent`, `Debounced`; a key wakes a sleeping reader (`KeyWakesReader`) |
| `buttons_all_lost` | 1 thread | **violated:** `EventKept`; a key published between the copy and `ev_timer = 0` is lost |
| `irq_buttons` | 2 files, 2 threads, 1 key, signals | `LinesWillBeFreed`, `NoLostWakeup`; a key ends a sleeping read or poll (`KeyWakes`) and is what a poll under way answers (`PollAnswered`) |
| `input_buttons` | 2 keys, delay 2 | `NoTimerOops`, `Debounced`, `EdgeReported` |
| `s3c_ts` | 4 samples of 2 x 2 coordinates, limit 10 | `NeverStuck`, `LiftReported`, `ReportsJustified` |
| `s3c_ts_mixed` | the same | **violated:** `SamplesOfOneTouch`; cnt survives a lift that the timer or `IRQ_TC` saw |
| `usb_skel` | 2 connections, 3 files, 2 writes in flight | `RefsCounted`, `NoUseAfterFree`, `PmBalanced`, `NoIoWhenGone`; an unplug ends (`UnbindEnds`) |
| `usb_skel_open_race` | 2 files, 1 write in flight | **violated:** `OpenSeesInterface`; the interface is used after the lock is given back |
| `ramdisk` | 2 processes, 3 sectors, pages of 2, 3 requests, 2 openers | `CleanIsZero`, `LockHeld`; implements `Disk`, liveness included (`IsDisk`) |
| `ramblock` | 3 processes, 4 sectors, 4 requests, 2 openers | implements `Disk`, liveness included (`IsDisk`) |
| `usb_mousekb` | 2 mice, 3 probes | `KilledBeforeFreed`, `KeysFollowButtons`; `DisconnectEnds` |
| `bringup` | 14 drivers, 2 RAM disks, 2 files; 3 palette entries, 2 colours | `NothingLeft`, `PublishedReady`, `OopsExplained`, `NoColorForgotten` |

The three violated properties state what a comment of the repository says; `PROJECT.json` quotes
the lines under "findings".  All runs also check the module's `TypeOK`, except those of a single property.
`MCBringup` has two `ASSUME`s, that the tables are `Balanced` and `Ordered`: the premises of the theorems about them.

*Bounds.*  Two files are enough for the conflicts the semaphore and the interrupt lines decide
(owner and waiter, reader and closer).  `buttons_all` has one thread, because a second reader
only adds competition for `ev_timer` under an exclusive open; the proofs cover any number.  In
`irq_buttons` two threads compete, and one line is enough: the lines do not depend on each other.
The third file of `usb_skel` lets a reader, a writer and an opener meet a disconnect.  Two writes in
flight (`MaxUrbs`) let one complete while another is left for the disconnect.  Two connections let files of
an unplugged device live beside a new one.  A delay of 2 jiffies lets a bounce fall strictly
inside it.  Two pages of two sectors, the last sector beyond the capacity, give requests that start
inside a page, cross a boundary, or leave the disk; a file system and write(2) work on the first sector,
which shares its page with a sector of the requests (`CacheSectors`).  The requests of `ramblock`
overlap, and have one segment or two of different lengths.  Three probes let a mouse come back after
another one.  In `bringup` every call is refused in turn and two files can outlive a binding.  The coordinates of `s3c_ts` lie at the ends of the
10-bit range, just within `ERR_LIMIT` of each other on one axis and just beyond it on
the other; the proofs cover all of them.  No run uses symmetry.

*Fairness.*  Weak fairness of handlers, timer, ticks, conversions and of the steps of a
thread inside the kernel: the hardware delivers, the timer wheel runs, the scheduler is
fair to runnable tasks.  Programs and the pen are free to do nothing.  `Ramdisk` has strong fairness of `Grab`: waiters
for a page lock are queued, and each is woken in its turn.  `Ramblock` has weak fairness of the
request function and of unplugging, which the block layer does from a timer; `UsbMouseKb` of the hub
thread (`FreeAll`, `FreeInput`), of the unlinking of a killed URB, and of the disconnects that `usb_deregister` waits for.
Nothing is assumed of the time-out of a poll or of signals: a poll with a negative time-out has none, and `PollAnswered` holds
without.  A line that never stops
changing is excluded in `KeyWakesReader` and `EdgeReported`, because each edge restarts the delay.

## 4. Proofs

Every invariant that a run checks is a theorem, for every set of pins, files, threads, connections,
requests, mice and palette entries, every delay and bound, all coordinates and every error limit.
The assumptions are the named ones of the modules: numbers are numbers, `None` is nobody, pins fit the byte of a
key code, the files of `UsbSkel` are finitely many (`UsersAssumption`, for the counting), and the segments of a request
are not empty and together are the request (`BiosAssumption` of `Requests`, which is what `bio_for_each_segment` and `end_request` rely on).  TLC
evaluates each on a run.

**ButtonsAllProofs.**  `SafeInv` is inductive: types, `LockConserved`, `LinesOwned`, `Quiesced`,
`NoLostWakeup` and `ReadersInside` (a thread in `buttons_read` has its file open).
Exclusion is what bounds the semaphore in the type invariant and what gives the lines one
owner; without `ReadersInside` a module could be removed under a reader.  `KeyInv` adds
`TimerQuiet`: between an interrupt and the timer's run the jiffies gone and those left add
up to the delay.  It gives `Debounced` as an action property: the timer function starts only after a quiet delay, and when an
interrupt comes in while it runs, what it publishes may not be settled but the timer is armed again.  Theorems: `TypeCorrect`, `OpenIsExclusive`,
`CleanExit`, `WakeupsKept`, `KeyIsCurrent`, `DebounceHolds`.

**S3cTsProofs.**  An invariant ties the controller's mode, the timer function's place and
the conversion together; `TouchWatched` and `NotWedged`, the two parts of `NeverStuck`, follow.  The filter's properties rest on
lemmas about four numbers: the mean lies among them, samples within the limit are `Near`, a jump is not;
the types give that there are four.  Theorems: `TypeCorrect`, `ChainAlive`,
`ReportIsAmongSamples`, `FilterIsSound` and, from the two, `ReportsAreJustified`.

**IrqButtonsProofs.**  Two independent invariants.  `WakeInv` adds to `NoLostWakeup` that a sleeper, and a poller
about to test, is on the wait queue (`SleepersQueued`): otherwise the handler's wake-up could miss it.  `LineInv` adds to
`LinesWillBeFreed` that the module goes only with the last file (`GoneIsClosed`), which gives that no handler is left
after rmmod.  Theorems: `TypeCorrect`, `WakeUpsKept`, `QueueLeft` (a call that has ended is off the wait queue), `LinesAreFreed`, `NoHandlerAfterExit`.

**InputButtonsProofs.**  `Lifetimes` says what exists at each call of init and exit (the lines go before the timer, the
timer before the device), and `DelayLeft` that a timer set by an interrupt has as long to go as the lines have still to
be quiet, or is armed again.  `NoTimerOops` needs the first, `Debounced` the second.  Theorems: `TypeCorrect`, `TimerNeverOopses`, `ReportsDebounced`.

**UsbSkelProofs.**  `RefsCounted` and `PmBalanced` count files by cardinalities; a step of one file changes each
count by what it does to that file (`OneMoved`, `Counted`).  They are inductive only together with `HubInv` (what is
enabled, looked up and in flight at each place of khubd) and `OpenInv` (between looking the usb_skel up and `kref_get`,
open holds `skel_open_lock`, and disconnect has not got past it): a reference may be taken only while probe's own is still
counted.  `NoUseAfterFree` follows from the counts.  Theorems: `TypeCorrect`,
`ReferencesCounted`, `NeverUsedAfterFree`, `PmGivenBack`, `NoIoAfterDisconnect`.

**UsbMouseKbProofs.**  The statics belong to the last probe.  `LastIsFreed` says that when no mouse is bound, the last
disconnect has freed the URB; `OneMouse`, that without two mice at once the last URB is the only active one and is there while a
mouse is bound.  It says nothing of `input_free_device`.  Theorems: `TypeCorrect`, `UrbKilledBeforeFreed`, `KeysAreTheButtons`.

**DiskProofs.**  It is about both RAM disks.  In `Ramdisk` each page is valid by itself (`PageOK`: what a reader would
find in it is a value, and zero while the page is clean and its dirty bit was not `cancelled`), each process has its place in its request (`PlaceOK`: the sectors moved and those to go), and a page is
locked exactly by the process whose place is in it (`Locks`).  Lemmas about each operation say what a page reads as
before and after (`Holds`) and which marks it keeps (`SameMarks`, `FewerMarks`: buffers, and the dirty bit taken back), and lemmas about division that the sectors of a piece are consecutive offsets of one page.
On top of the invariant, `PageCacheIsDisk` is the safety half of the refinement `IsDisk`: initial states map to
initial states of `Disk` and every step to a step of `Disk` or a stutter.  `RequestQueueIsDisk` says the same of `Ramblock`, which the module takes as
the instance `RB`.  Its invariant `RBInv` is that a request on the queue lies on the disk, that `sector` is where its current
segment begins, and that what is left to copy begins there before the `memcpy` and one segment further after it (`Queued`,
`Copied`); and that the function is at a request of the queue or at none (`QueueInv`).  Without it `end_request` might report
success with sectors left.  The size of the disk is a hypothesis of the theorem, `SizeAssumption` of `Ramblock`.  Both proofs
rest on the same lemmas about requests (`BioFacts`, from `BiosAssumption`).  Theorems: `TypeCorrect`, `CleanPagesAreZero`,
`LocksAreHeld`, `PageCacheIsDisk`, `RequestQueueIsDisk`.

**S3cFbProofs.**  The theorems about the scripts have the premise `Balanced`: init functions only take, the
others only release, each label releases at least what was taken before the jump to it, and exit all but what the driver
`forgets`.  From it follows, for every set of drivers, that
nothing is left behind.  The invariant `BInv` is about where the function is: in `init`, what is held was taken
before `at`; in `undo` and `exit`, it is among what the rest of the script releases.  It needs facts about
`Takes` and `Gives` one statement apart, which are lemmas (`TakesNext`, `GivesNext`, ...).  A second premise, `Ordered`,
says that scripts register last, unregister first, and follow pointers only to what was taken and not yet released, but
for the drivers marked `early` and the resources marked `blind` and `twice`.  With it `OInv` is inductive: what the rest of a script uses is held or was
refused unnoticed, or is so marked (`UsesReady`), and open files have what they need (`FilesReady`).  TLC evaluates both premises on the tables.
Theorems: `TypeCorrect`, `LeavesNothing`, `EntryPointsReady`, `EveryOopsExplained`, `ColorsKept`.

*Only model-checked:* liveness under fairness, which is out of the prover's reach (`KeyWakesReader`, `KeyWakes`, `PollAnswered`, `EdgeReported`,
`LiftReported`, `UnbindEnds`, `DisconnectEnds`, and that requests end, in the two `IsDisk`).  Of every other
property of a passing run a theorem says the same without the bounds.

## 5. Not modelled

- data: which character a key is, pixel formats, partition tables;
- `printk`, and results of calls that the drivers ignore and that change nothing further;
- the colour arithmetic of `setcolreg` (whose bound `regno > 16` at `lcd.c:69` lets 16 through to an array of 16);
- of the templates, everything but init and exit: the device behind them is left open there;
- `remove`, `suspend` and `resume` of s3c2410fb, which the file names and does not have;
- what `limit_sem` of usb-skeleton, a pointer used as a semaphore, makes of the fields it lies over (section 1);
- what the kernel does after a use after free that it did not notice: the models record the use, and go on or stop;
- that an earlier key's edge within the delay is lost (`irq_pd` has room for one pin): the models do it, and
  `KeyCurrent` and `EdgeReported` speak of the last pin only;
- `kill_fasync`, which the fifth driver never calls: the fasync list is in the model, nothing reads it;
- what the timer of `buttons_init`, added with `expires` 0, does to a machine that has panicked: `FetchNull` ends
  the behaviour, and the properties of `ButtonsAll` name it where they must;
- what a read that a signal has ended returns: the step is in the models (`Interrupted`), the byte is not;
- that the close of one file of the third to fifth drivers silences another: the model does it,
  and no text of the repository promises otherwise;
- the timer that `adc_irq` may arm after `s3c_ts_exit` deleted it: the model does it (`TimerAfterExit`),
  and the invariants speak of the time the driver is in.

## 6. Plan

The drivers with the most concurrency came first (`ButtonsAll`, `UsbSkel`, `S3cTs`), then those that share
their patterns, then the second implementation of `Disk` and the tables of `Bringup`.  The proofs follow the same order.
Nothing of the plan is left: the safety properties are proved, and liveness stays with TLC.
