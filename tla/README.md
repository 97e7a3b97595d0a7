# linuxconsole in TLA+

A verification development for the multi-desktop console layer ("ruby",
`src/ruby-2.6`) and the tools of the linuxconsole repository. Specifications are
model-checked with TLC on small instances and the central invariants are proved
with TLAPS for every size.

## The system

The repository holds a modified Linux 2.6 console layer that lets several
displays, each with its own keyboard, run on one machine; small utilities for
input devices; an X input driver; documentation. There are no tests.

| Component | State it keeps | Operations | Interacts with |
|---|---|---|---|
| Virtual consoles (`vt.c`, `vt_ioctl.c`, `vt_kern.h`) | per display: the pool `vc_cons[]`, `fg_console`, `last_console`, `want_vc`, lock, blanking state and timer; per console: mode, `vt_mode`, controlling process, pending switch, tty | allocate, free, open, close, switch, wait for a switch, lock, blank, unblank, poke | keyboard (interrupts), work queue, tty layer, display drivers |
| Keyboard (`keyboard.c`) | shift state, LEDs, dead keys, per-console modes | key handlers | virtual consoles, tty flip buffers, input core |
| Terminal emulator (`decvte.c`) | cursor, scrolling region, attributes, parser | control functions | virtual consoles, display drivers |
| Tty layer (`tty_io.c`) | tty table, reference counts, line disciplines, flip buffers | open, release, hangup, read, write, line discipline change | all tty drivers |
| Input core (`input.c`) | devices, handlers, handles, key and LED state, repeat timer | register, unregister, open, close, event, grab | keyboard, other handlers |
| Unicode maps (`consolemap.c`) | translation tables shared between consoles | set, clear, copy | virtual consoles, emulator |
| Selection (`selection.c`) | selected console and range, buffer | select, clear, paste | virtual consoles, line discipline |
| Screen devices (`vc_screen.c`) | none beyond file position | read, write, seek | virtual consoles |
| inputattach, jscal (`utils/`) | device protocol state; axis corrections | initialise a serial device; calibrate | kernel |

What is hard in this code: switching is asynchronous (an interrupt sets
`want_vc`, a work item performs the switch, a process must agree to it and may
die instead); ioctls test state before they sleep on `console_sem` and act on it
afterwards; consoles are freed while pointers to them remain; one global flag
tells all displays that a key was pressed; two blanking ioctls take no lock.
`PROJECT.json` lists each such place as a hazard with the properties that watch
it.

What makes the parts correct, in a sentence: a console leaves the screen only
with the consent of its live controlling process; a lookup never returns a freed
console; nobody sleeps for something that has already happened; no seat sees
another seat's consoles; a lit screen always has a timer that will blank it and
a key always brings it back; the cursor never leaves the screen; a device
and a handler that match are connected; no modifier sticks unless an event of its
key was kept from the handler; text survives whatever is drawn over it and
wherever it is copied; a reference count is the number of references.

## Modules

| Module | What it is |
|---|---|
| `VtConsole` | The virtual consoles of all displays: pool, switching, blanking, and the keys, ioctls and escape sequences that drive them |
| `MCVtConsole` | Its instances for TLC |
| `VtConsoleProofs`, `SwitchProofs` | Its theorems: the pool and the semaphore; switching and seats, blanking and what interrupts leave to do. The second extends the first |
| `Tty` | The tty layer: opens, closes, hangups, line discipline, controlling tty, flip buffers |
| `Ldisc` | What a line discipline promises its users; `Tty` implements it |
| `MCTty` | The instance of `Tty` |
| `TtyProofs` | Theorems about `Tty`: types, and who enables a discipline; counts, sessions, what freed ttys leave, and the refinement of `Ldisc` |
| `InputCore` | Devices, handlers, handles, events and their filters |
| `Keyboard` | The keyboard handler; extends `InputCore` and is its composition with the VTs |
| `Emulator`, `EmulatorProofs` | The terminal emulator as the reader of a stream of bytes; its theorems |
| `KeyboardProofs` | Theorems about `InputCore` and `Keyboard`: registration, binding, the noise filter, modifiers |
| `MCKeyboard` | Instances of `Keyboard` and `Emulator`, the two ends of a console |
| `Keymap` | The tables of the keyboard that programs load |
| `FuncStrings` | What the strings of function keys promise; `Keymap` implements it |
| `TablesProofs` | Theorems about `Keymap` and `Vga` |
| `Unimap` | Unicode maps, shared and counted |
| `Attach` | The program inputattach |
| `MCTables` | Instances of `Keymap`, `Unimap`, `Attach` and `Vga` |
| `Screen`, `ScreenProofs` | The screen of one console: cursor, scrolling region, tab stops, character buffer, resizing and kernel messages; its theorems |
| `Vga` | The text of the consoles in video memory and in buffers |
| `Selection` | What is drawn over the text: selection, pointer, soft cursor |
| `Vcs` | The screen devices `/dev/vcs` and `/dev/vcsa` |
| `DisplayProofs` | Theorems about `Selection` and `Vcs` |
| `MCDisplay` | Instances of `Screen`, `Selection` and `Vcs` |

An MC module with several instances runs one of them in each behaviour (`part`);
the instances share nothing. They are different abstractions of one console: each
keeps the part of its state that its properties are about.

### VtConsole

*State.* `vc` maps the addresses `Obj` to the `struct vc_data` stored there.
Addresses are explicit because `fg_console`, `last_console`, `want_vc` and
`tty->driver_data` are pointers that `vc_disallocate` does not clear; a freed
object keeps its contents until `vc_allocate` hands its address out again.
`vc_cons` is the pool of all displays, indexed by display and place. `vt` and
`bl` are the switching and the blanking half of `struct vt_struct`; `poke` is
`do_poke_blanked_console`. `sem` is the holder of `console_sem`; `pc` and `arg`
are where each work item and each process inside an ioctl is, and its locals.
`driver_data` tells which tty is open on which object.

*Actions.* One per handler. A handler that sleeps is cut where it sleeps:
`VT_ACTIVATE` is the part up to `acquire_console_sem`, `VT_ACTIVATE_LOCKED` the
part under it. All ioctls run under the big kernel lock, which the kernel drops
only when the process sleeps, so these parts are atomic with respect to each
other; the keyboard and the timer are interrupts and may come anywhere between
them. `vt_callback` is cut in three, because the display's fields may be changed
by an interrupt between its unlocked test, the switch and the rest.

*What is abstracted.* Times and intervals (an interval is zero or not, a timer
is armed or not); the scroll distance (zero or not); colours, fonts, the screen
contents; error codes. A selection makes its console busy in `VT_BUSY`; that
term is left out; it can only keep more consoles alive. `console_blank_hook` is unset, as it is when no power management module
is loaded. In the initial state the displays have been mapped
(`vt_map_display`) and the ttys in `Opened` have been opened.

*External.* `kill_proc` (`Reachable`: succeeds exactly on a live process),
`schedule_work`, `wake_up`, the death of a process (`Exit`) and the file
reference that keeps a tty from its last close during an ioctl (`InIoctl`).

### Screen

*State.* `s` holds the fields of `struct vc_data` that say where the next
character goes and what a line feed does; `text` is the buffer, one row after
the other, by address. The code keeps the cursor twice, as `vc_x`, `vc_y` and as
the address `vc_pos`, and updates both by separate increments; `s.pos` is that
address in cells from `vc_origin`. `loop` is the loop over a parameter in which
a control function is, `prt` the locals of `vt_console_print`.

*Actions.* One per control function, named as in the comments of
`terminal_emulation`. Everything here runs under `console_sem`, so a control
function is one step; a tabulation with a parameter and a kernel message are
one step per iteration, with nothing of another kind between them. Parameters
are unsigned and reach `gotoxy` as an int: `ToInt` is that conversion, with the
width as the constant `Word`.

*What is abstracted.* A character is blank or not; attributes, character sets
and the calls that draw are left out. A driver's `con_scroll_region` is taken to
do what the code does without it (`Vga` is such a driver). The parser that
collects parameters is `Emulator`: here any parameter may come with any function. `vc_resize` is its
successful case; the failing ones change nothing. Sequences with several
functions' effects (`CTC`, `DECSTR`, IND, HPR...) are the functions they call.

### Tty and Ldisc

*State.* `tty` is the `tty_struct` of each slot of the drivers' tables; `file` and
`ctty` are a process's `filp` and controlling tty; `work`, `timer` and `wk` are the
work queue, the delayed flip work and the thread that runs them; `ldrefs` counts
the users of a discipline in the table; `pc` and `loc` are where each process is
and its locals.

*Actions.* Code under the big kernel lock is one step up to where it sleeps; `bkl`
is its owner when the same thread goes on without sleeping. What is done under
`tty_sem` or `tty_ldisc_lock` is one step. References to the discipline and the
flip buffer take neither lock and interleave with everything.

*Abstracted.* A flip buffer and an input queue are counts; a write is a number of
chunks. The reference count of `N_TTY` in the table is left out: it only grows
(every close leaves one reference) and nothing reads it. The second `down` of
`release_dev` is taken not to sleep (see the disagreements below).

*Abstract specification.* `Ldisc` says that a discipline is never closed or
replaced under someone who holds a reference, and that nobody gets a reference
while it is replaced. `LdiscPromise` is that specification under the mapping
`disc`, `users`, `usable`.

### InputCore and Keyboard

*State.* The lists of the core have no lock and `connect` sleeps in `kmalloc`, so
the registration of a device walks the handlers, and that of a handler the
devices, one node per step (`dpc`, `dcur`, `hpc`, `hcur`). A node removed by
`list_del_init` points at itself, and a walk that stands on it never gets off.
`Keyboard` adds the VTs' keyboards and speakers, the static variables of
`keyboard.c` (`kb`), each console's `kbd_struct` (`table`) and the effects of the
last event (`queue`).

*Actions.* Registration, removal, grabs, events with their filters (`InputCore`);
one key event or one request per step (`Keyboard`), with the whole chain from
`input_event` through the key maps to what the tty or the console is told.

*Abstracted.* Key codes, modifiers and symbols are small sets. A step through a
dangling pointer is an oops, after which the behaviour stops. `lost` remembers
the keys an event of which was kept from the handler: only for those may a
modifier stick.

### Emulator

*State.* The parser (`state`, `par`, `npar`, `priv`), the rendition and what is
computed from it (`attr`, `erase`), the character sets (`sets`, `font`), the
coding (`utf`, `utf_count`, `c8bit`, `decscl`) and the modes. *Actions.* A byte is
a step; the loops of SGR, SM and RM are a step per parameter. What a function does
to cursor and text is in `Screen`.

### Keymap and FuncStrings

Requests run under the big kernel lock, but `kmalloc` may sleep: a request that
needs memory takes two steps, the second with what the first one computed. Maps,
key codes and strings do not meet; a behaviour is about one of them (`task`). The
strings lie one after the other in a buffer of characters that grows; the mapping
to `FuncStrings` reads them up to their NUL. When a request goes on with pointers
into a buffer that another one replaced, the behaviour ends (`stale`): what the
code does then is undefined. It ends too when the strings were moved within the
same buffer, where what the code does is defined, but a string may be lost. A table of
key codes keeps whole codes; one with entries of a byte (keyboard.c:150 admits codes up
to `KEY_MAX`) would keep only the low byte of some.

### Unimap

The functions map a record of the state; a request is one step, and each
`kmalloc` in it may fail (`Shortages`). A console's pointer to its map is in the
console or, for the VGA driver, in one place for all (`shared`, with `users`).
A map that was freed keeps its contents until its memory is given out again, as the
slab allocator leaves it, and only maps are given that memory. The code frees one map
under its users (`UseDefault`, consolemap.c:535): the behaviour goes on with pointers to
free memory, `misfreed` remembers which memory it was, and ends only when the same
memory is freed twice or a NULL pointer is followed (`oops`).

### Attach

An event is what one `readchar` returns, a class of bytes or a timeout, or whether
a write was taken. The state is the line, the step of the init function and its
locals. The device may answer anything: right, wrong, late or never.

### Vga, Selection, Vcs

`Vga` counts video memory in rows; a row is blank, a picture or the console that
wrote it. The text of the foreground console is in video memory at an origin that
scrolling moves, that of every other one in its buffer. `text` is history: the
screen as programs wrote it. Graphics and scrolls may come to a screen that is
blanked, or whose blanking is off: the code then leaves the text of the foreground
console in memory that a graphics program draws into, or scrolls it to addresses in
front of its buffer. The model does the same and goes on; `Exposed` tells when a text is
in such a place and `lost` remembers the consoles whose text ever was. What is written
in front of a buffer falls to `OTHERS` and is not kept. Rows are copied as if source and
destination did not overlap, and the intervals of blanking are fixed for a behaviour. `Selection` keeps each cell's character and the
layers drawn into it (inverted, complemented, soft cursor), each of which is
undone later by other code. `Vcs` cuts a call where it drops `console_sem` to
touch user memory; between rounds the console is written, resized or switched. A
round may reach beyond a screen that has shrunk: what it would read there is `Foreign`,
and what it would write becomes a cell that the file's definition does not have
(`Touched`, `Extended`), so that `TransferExact` fails. The header's four numbers are
bytes, modulo 256. The console has a hardware cursor and is not in origin mode, in which
`gotoxy` would limit the cursor to the scrolling region.

## Runs

| Run | Properties | Result | What it shows |
|---|---|---|---|
| `switching` | `PendingIsForeground`, `NoLostWakeup`, `MutualExclusion`, `HandshakeRespected` | passes | Two servers on consoles of their own, a keyboard that switches between three consoles, mode changes, dying processes and VT_WAITACTIVE sleepers: the VT_PROCESS handshake, the semaphore and the wake-ups hold in every interleaving. |
| `pool` | `PoolSound`, `PendingSwitch` | passes | Two processes that allocate, activate, free, open and close the same consoles, with one address less than consoles could need: the pool never shows a freed or misplaced console, and a pending switch can always be answered. |
| `seats` | `DisplayIsolation` | passes | Two displays of two consoles each: no key, ioctl or open of one seat moves a console of the other seat onto its screen. |
| `blank` | `BlankStateSound`, `AutoBlankArmed`, `NothingForgotten`, `KeyUnblanks` | passes | One console with every operation that blanks, unblanks, pokes or arms the timer: the blanking state machine is consistent, nothing an interrupt leaves is forgotten, and a key brings the picture back. |
| `live_switch` | `SwitchServed`, `WaiterReturns` | passes | Under fairness of the work queue and the semaphore, a requested switch is granted, put to the controlling process or locked out, and who waits for a visible console returns. |
| `self_deadlock` | `NoSelfDeadlock` | violated | Switching between a text and a graphics console acquires console_sem a second time while holding it. |
| `freed_visible` | `VisibleKept` | violated | VT_DISALLOCATE from a console in the background frees the visible console. |
| `tty` | `CountsExact`, `NoDangling`, `EnableOwed`, `CttySound`, `LdiscPromise` | passes | Three processes of two sessions on a serial line and a pty pair, in six environments (job control, pty opens and closes with failures, changes of the line discipline, carrier loss, redirection of the console, the secure attention key): counts, references and controlling ttys stay exact, nothing refers to a freed tty, and every tty implements the promise of module Ldisc. |
| `ldisc_race` | `LdiscPromise` | violated | Two processes that change the line discipline of one tty: the second closes and replaces a discipline the first has already given free for use. |
| `input` | `NoMissedConnection`, `KeyboardBinding`, `NoStuckModifier`, `AxisFollows`, `CachesFresh`, `ParametersSound` | passes | Twenty scenarios of devices, keys, key maps and requests over the composition of the input core with the keyboard handler: unlocked registrations never miss each other, a VT's keyboard is live and its own, no modifier sticks unless a key's event was kept from the handler, the noise filter never overshoots. Whole escape sequences, byte by byte over twelve alphabets: the parameters stay in their array and none of an earlier sequence is taken for one of this, and the cached attribute and translation table follow every function. |
| `tables` | `KeymapCountExact`, `ProducedKeysPass`, `MapsCounted`, `InverseFresh`, `VerdictExact`, `TextKept`, `MonitorShows`, `StringsKept`, `ExposedOnlyLate` | passes | Four instances that share nothing. The tables programs load: key maps and function strings by two processes whose requests sleep for memory, key codes, and unicode maps shared between three consoles with failing allocations and a change of the driver. Counts and references are never too small, but for maps that PIO_FONTRESET frees under their users; inverse tables follow their map, and the one buffer of moving strings implements a table of independent strings (FuncStrings). inputattach accepts a serial device exactly when the device has shown what it is, whatever comes late, twice or not at all. The text of every console survives switches, graphics, blanking and hardware scrolling in video memory, and the monitor shows the foreground's, except for consoles whose text was left in memory that belongs to graphics or to a blanked screen, which happens only when graphics or a scroll come to a screen that is blanked or is never to be. |
| `display` | `CursorSound`, `RegionSound`, `LayersExact`, `BufferExact`, `TransferExact`, `ScrollConfined`, `WrapFromMargin` | passes | What is on a screen, in three instances: every control function, resize and kernel message in any order keeps cursor, region and text consistent; selection, pointer and soft cursor leave the text as it was written; a read or write of /dev/vcs that is interrupted in the middle transfers the bytes the file has. |

### Bounds

Three consoles let a request change its target while another one waits for its
answer; two processes give every race between two ioctls; with two displays a
key or an ioctl can name the other seat's consoles. `pool` has no more addresses
than consoles, so an address that is freed comes back for another console while
old pointers to it remain. Each run offers the operations its question needs
(`Ops`), and between them the passing runs take every action and every branch.
Symmetry over addresses is used in the runs without liveness properties;
addresses are only compared for equality.

`PendingIsForeground` and `HandshakeRespected` are checked without reopening a
display's first console, which moves the foreground by itself (see below).

`tty` has a serial line, a pty pair and three processes of two sessions; its six
environments (`MCEnvs`) each offer the operations that meet each other, and
`FlipMax` and `Chunks` are 1: a second character changes nothing. The environment
of carrier loss has no opens, because a hangup that clears `TTY_CLOSING` lets an
open join a tty that is being freed; that is a disagreement named below.

`input` has twenty scenarios, each a set of devices, keys, requests and key maps.
`Bounded` limits the typed number, the lost keys and a modifier held three times
over. The emulator's alphabets exercise one group of functions each, with
parameters of one digit, or two where a function knows the number; the array of
parameters has eight entries (16 in the code) and a word 128 values, so that both
limits are reached. `View` leaves out the effects of the last event, which no
action reads.

`tables` has two processes, four key maps of which two are compiled in and a limit
of three, and strings that make the buffer grow twice; three consoles and memory
for three unicode maps, `MaxRefs` 3, `MaxFailed` 1 and `MaxMisfreed` 1, after which no
allocation fails any more (`Short`); packets of three bytes, two
tries and at most three events (`MaxNoise`) that bring inputattach no further.
Video memory of eleven rows holds two screens of four and a part of one, so that the
text rolls over; each of its scenarios (`SomeUses`) offers an adapter the requests that
meet. A text is scrolled at most two rows in front of a buffer (`MaxFront`); it is
exposed then and stays so. `View` leaves out what no action and no property reads any
more: the contents of unicode maps that no pointer leads to, the user table once the VGA
driver is gone, and the rows of consoles whose text was exposed.

`display` has screens of four lines by one column, enough for a region two lines
below the cursor, and three by two, enough to insert within a line. Saved
positions and tab stops do not meet the text in any action, so they are explored
together only on a blank screen (`BoundedScreen`). A
selection meets a row of the past and two of the screen. `/dev/vcs` has up to
twelve bytes and moves them in rounds of six. `MaxWrites` (here and in `tables`) and
`MaxCalls` are 1: one write at any moment is enough for a stale copy to show.

`CHECK_DEADLOCK FALSE` is set where a behaviour ends with an oops, or when the
program or the device it models has nothing more to do; the runs of `VtConsole`
check for deadlock, but for the two that show a violation.

### Fairness

`FairSpec` assumes of the work queue that a scheduled `vt_work` runs (weak
fairness of `CallbackStart` and `CallbackFinish`), and of `console_sem` that it
wakes its waiters in turn (strong fairness of the steps that acquire it). An
ioctl that has started continues. Nothing is assumed of the keyboard, the timer
or the processes.

### What the failing runs show

- `self_deadlock`: complete_change_console calls acquire_console_sem() when the old and the new console differ in vc_mode, but both of its callers already hold that semaphore: vt_callback takes it at src/ruby-2.6/drivers/char/vt.c:884 and VT_RELDISP at src/ruby-2.6/drivers/char/vt_ioctl.c:1207. The semaphore is not recursive, so the switching thread sleeps for ever with console_sem held and every later console operation blocks. The comment at src/ruby-2.6/drivers/char/vt.c:873-875 says "Synchronization with other console code and prevention of re-entrancy is ensured with the console semaphore."
- `freed_visible`: VT_BUSY(tmp) contains IS_VISIBLE, which src/ruby-2.6/include/linux/vt_kern.h:44 defines as (vc == vc->display_fg->fg_console): the macro parameter does not reach it, so the variable vc of vt_ioctl, the caller's console, is tested and not tmp. A VT_DISALLOCATE issued on a background console frees the console on the screen when its tty is closed. The comments at src/ruby-2.6/drivers/char/vt_ioctl.c:1241 and 1251 say "Disallocate memory associated to VT (but leaves visible VT)" and "disallocate all unused consoles, but leave visible VC".
- `ldisc_race`: tty_set_ldisc clears TTY_LDISC, sleeps in flush_scheduled_work (which gives the big kernel lock away) and then closes and replaces the discipline. Nothing keeps a second TIOCSETD on the same tty out: it finds no references, passes the same point, and when the first one has set TTY_LDISC again, so that readers take references, the second one closes and replaces the discipline under them. The comment at src/ruby-2.6/drivers/char/tty_io.c:517-519 says "From this point on we know nobody has an ldisc usage reference, nor can they obtain one until we say so later on."

## Proofs

| Theorem | Module | What it establishes |
|---|---|---|
| `Invariance` | `VtConsoleProofs` | The conjunction of the type invariant, IoctlHoldsTty, PoolSound, PendingSwitch, BlankStateSound and MutualExclusion is inductive: every step of every callback, interrupt and ioctl preserves it, for any number of displays, consoles, addresses and processes. |
| `TypeCorrect` | `VtConsoleProofs` | The variables keep their types for every value of the constants. |
| `IoctlsHoldTheirTty` | `VtConsoleProofs` | An ioctl that sleeps on the semaphore or for a switch finds its tty still bound to a console when it goes on. |
| `PoolIsSound` (`PoolSound`) | `VtConsoleProofs` | find_vc never returns a freed console nor one with another number, although VT_DISALLOCATE tests before it locks. |
| `PendingSwitchAnswerable` (`PendingSwitch`) | `VtConsoleProofs` | A switch is pending only on a console in VT_PROCESS mode with a controlling process, so VT_RELDISP can answer it. |
| `BlankStateIsSound` (`BlankStateSound`) | `VtConsoleProofs` | A screen that waits for its blanking timer is never blanked already, though two of the operations run without the semaphore. |
| `SemaphoreExcludes` (`MutualExclusion`) | `VtConsoleProofs` | Exactly the holder of console_sem is between acquire and release, the self-deadlocked switch included. |
| `CursorStaysSound` (`CursorSound`) | `ScreenProofs` | Whatever the sizes, the width of an int and the parameters, the cursor stays on the screen and vc_pos is the address of its coordinates, or runs ahead by what a kernel message has stored. |
| `RegionStaysSound` (`RegionSound`) | `ScreenProofs` | The scrolling region lies on the screen, has two lines or all, and confines the cursor in origin mode. |
| `WrapStaysAtMargin` (`WrapFromMargin`) | `ScreenProofs` | Of all control functions, loops, resizes and kernel messages only the backward tabulation takes a pending wrap away from the last column. |
| `TextStaysWhole` | `ScreenProofs` | For any sizes and parameters the buffer has one character for each place of the screen: scrolls, insertions, deletions, erasures and resizes copy from inside the buffer only. |
| `ScrollStaysConfined` (`ScrollConfined`) | `ScreenProofs` | For any sizes and parameters a step changes the cursor's line and the lines of the scrolling region, or those from the cursor to its end when lines are inserted or deleted; only erasing in the display, resets, the alignment pattern and resizes change others. |
| `CountIsExact` (`KeymapCountExact`) | `TablesProofs` | For any number of maps and processes, keymap_count counts every key map still allocated, those two sleeping requests lost included, and a limit tested before kmalloc sleeps is passed by fewer than the processes there are. |
| `ProducedKeysAlwaysPass` (`ProducedKeysPass`) | `TablesProofs` | For any scan codes and key codes, no sequence of KDSETKEYCODE hides a key code that a scan code still produces. |
| `SeatsStayApart` (`DisplayIsolation`) | `SwitchProofs` | For any number of displays and consoles, while no console is freed, no console of one seat comes up on the screen of another, whoever asked for the switch. |
| `WakeupsReachSleepers` (`NoLostWakeup`) | `SwitchProofs` | While no console is freed, a process that sleeps in VT_WAITACTIVE sleeps for a console that is not on the screen, unless an agent has locked itself out between a switch and its wake-up. |
| `ScreenLeftByRelease` (`HandshakeRespected`) | `SwitchProofs` | While no console is freed and first consoles stay open, the console of a live controlling process leaves the screen by its VT_RELDISP and by no other step. |
| `PendingOnScreen` (`PendingIsForeground`) | `SwitchProofs` | With each console open in one process and without freeing, SAK and reopened first consoles, only the console on the screen can have a switch pending, so that VT_RELDISP answers the switch its process was asked for. |
| `BlankingStaysArmed` (`AutoBlankArmed`) | `SwitchProofs` | On one display with any number of consoles and processes, a lit text screen has a timer that will blank it or something under way that restores it, for every interleaving of blanking, switching, KDSETMODE and setterm. |
| `InterruptsAreServed` (`NothingForgotten`) | `SwitchProofs` | With all consoles open, an expired blanking timer, a scroll and a key that must unblank have a callback coming. |
| `ParametersStaySound` (`ParametersSound`) | `EmulatorProofs` | For any array of at least eight parameters, any width of an unsigned int and any bytes, vc_npar indexes vc_par, loops stay below it and a parameter not given is zero. |
| `CachesStayFresh` (`CachesFresh`) | `EmulatorProofs` | For any sequence of bytes, the attribute, the erase character and the translation table are those of the rendition, the modes and the character sets. |
| `CallsHoldTheirFile` | `TtyProofs` | For any number of ttys, pairs and processes, and without an assumption on the operations, every state is well typed and a process inside a call holds the file and the tty that its place needs. |
| `DisciplineComesBack` (`EnableOwed`) | `TtyProofs` | Without an assumption on the operations, a live tty whose TTY_LDISC is clear is being closed, or the change or hangup that cleared it will set it again. |
| `TerminalsKeepTheirSession` (`CttySound`) | `TtyProofs` | In gentle environments a controlling tty is live and belongs to the session of its process, through opens, thefts, hangups, exits and closes in any order. |
| `OpensAreCounted` | `TtyProofs` | In gentle environments tty->count is the number of files on the tty, and one more for the slave of an open master. |
| `NothingDangles` (`NoDangling`) | `TtyProofs` | In gentle environments no file, controlling tty, delayed or queued work, hangup or call refers to a tty_struct that release_mem has freed. |
| `UsersAreCounted` | `TtyProofs` | In gentle environments the reference count of a tty's discipline is the number of calls, hangups and flushes that use it. |
| `CountsAreExact` (`CountsExact`) | `TtyProofs` | In gentle environments where the processes that may change a discipline are at different ttys, the counts of files, of users of a tty's discipline and of holders of a discipline in the table are exact, and no discipline in use is unregistered. |
| `DisciplinesKeepTheirPromise` (`LdiscPromise`) | `TtyProofs` | Refinement, in the same environments: every behaviour of Tty is one of Ldisc; no discipline is closed or replaced under a user or while somebody could become one. |
| `RegistrationSound` | `KeyboardProofs` | The inductive invariant of the unlocked registrations: a walk of input_register_device or input_register_handler is ahead of the other side's node, or will meet it, or the two are connected; no handle outlives its device or handler. |
| `NoMissedConnectionHolds` (`NoMissedConnection`) | `KeyboardProofs` | For any number of devices and handlers, with walks of both registrations interleaved and devices and handlers leaving at any moment, a device and a handler that both finished and match are connected. |
| `BindingSound` | `KeyboardProofs` | Devices keep their types through every event, light, grab and registration, and handle->private agrees with vt->keyboard. |
| `KeyboardBindingHolds` (`KeyboardBinding`) | `KeyboardProofs` | For any number of keyboards and VTs, the keyboard of a VT is a live handle that sends its keys to this VT, however keyboards are connected, unplugged and rebound through /proc. |
| `AxisFollowsHolds` (`AxisFollows`) | `KeyboardProofs` | For any fuzz and any positions, the three tests of the noise filter leave the position between the old one and the one reported. |
| `ModifiersSound` | `KeyboardProofs` | The inductive invariant of the modifiers: each is counted down at most once for every handle that hears of a held key of it, unless an event of such a key was kept from the handler, and a key is down in the handler only while it is held or lost. |
| `NoStuckModifierHolds` (`NoStuckModifier`) | `KeyboardProofs` | For any devices, keys, key maps that agree on the modifiers, VTs and requests, shift_state holds a modifier only while one of its keys is held somewhere or after an event of such a key was kept from the translation. |
| `VcsSound` | `DisplayProofs` | The inductive invariant of /dev/vcs: the screen has the cells of its size, and the position, the counts of a call and the length of a round are what the next round needs, and nothing beyond the screen has become part of it, whatever changes between the rounds. |
| `TransferExactHolds` (`TransferExact`) | `DisplayProofs` | For consoles of any size, buffers of any even length and calls of any count, each round of vcs_read hands out the bytes the file has at that moment, each round of vcs_write leaves exactly the bytes it was given, and neither touches memory beyond the screen, even when it has shrunk in the middle of the call. |
| `SelectionSound` | `DisplayProofs` | The inductive invariant of what is drawn over text: every cell is the text with the layers that are due, the pointer and each display's cursor have saved what is under them without themselves, and a selection or a pointer is over a console in the foreground only. |
| `LayersExactHolds` (`LayersExact`) | `DisplayProofs` | For any consoles, displays, sizes, texts and rows of past text, and with output, messages, cursors, switches, scrollback and blanking in any order, nothing drawn over a console's text is left behind and no text is replaced by what was saved under a layer. |
| `VgaSound` | `TablesProofs` | The inductive invariant of video memory, along every behaviour: a foreground console whose text was never exposed has it there exactly when set_origin would give it the place, every other text is in its buffer, and a screen is off its colours or its sync signals only while it is blanked. Of a console that was exposed (graphics or a scroll came to a screen that was blanked or never to be) it says only which hardware state and view it has. |
| `TextKeptHolds` (`TextKept`) | `TablesProofs` | For any consoles, sizes of screen and memory and kinds of adapter, switching, hardware scrolling, both kinds of blanking, graphics and the view of the past in any order leave each console's text as its programs wrote it, unless that console's text was exposed at some time: left in memory that belongs to graphics or to a blanked screen. Exposing one console harms no other. |
| `MonitorShowsHolds` (`MonitorShows`) | `TablesProofs` | On the same machines, a text console on a screen that is not blanked is displayed at its view with the sync signals on and, unless its text was exposed at some time, from where its text is and with its colours, no row outside video memory being read for it. |

The three forms of every theorem are `Init => Inv`, `Inv /\ [Next]_vars => Inv'`
and `Inv => property`. `Inv` adds to the type invariant that an ioctl in
progress holds its tty, for without it the locked half of an ioctl could
dereference a closed tty and nothing could be said about the object it changes.
`PoolSound` needs the type of the locals: a `VT_DISALLOCATE` whose victim was
freed and handed out again in the meantime frees the new owner of the address,
and the invariant survives because `vc_disallocate` clears the slot the object
names *now*. `PendingSwitch` needs that every way of leaving `VT_PROCESS` goes
through `reset_vc` or `VT_SETMODE`, which both forget the pending switch. The
assumptions are those of `VtConsole`: at least one display and one console per
display, `NULL` is nobody's name, processes and displays are different things.
`Ops`, `Opened` and `Closable` are arbitrary, so the theorems hold for every
choice of operations at once.

For `Screen` the argument is about one screen record at a time. `Good(c)` says
that the region is sound, the cursor is on the screen and the address belongs to
it; every function maps a good screen to a good one, with `MoveGood` as the one
lemma that all movements reduce to. During a kernel message the screen is not
good but `Lagging`: the address is ahead of `vc_x` by the characters stored, and
one less when the last one left a wrap pending. `CaughtUpGood` shows that the
correction in `vt_console_print` makes it good again. `Exclusive` is needed
because a loop step assumes a good screen. The assumptions are at least one
column and one line, at most as many columns as there are tab stops, and a word
that is not empty.

What a function does to the text is bounded by addresses first (`Within`: cells from
one address up to another) and by lines then (`Edits`, by `LinesOf`); `ScrollPlaces`
and `LinePlaces` are the products of rows and columns that this takes, and
`StoreEdits`, `InsertEdits`, `ScrollUpEdits` and `ScrollDownEdits` the functions.
`TextStep` collects what a step does: lines of the region and the cursor's, lines
from the cursor to the end of the region, or a rewrite. The text needs the cursor's
invariant, because the address a character is stored at comes from it.
`WrapStaysAtMargin` needs it too, for the column a kernel message ends in.

For `Keymap`, `keymap_count` is tested before `kmalloc` sleeps and raised after it,
so the bound on it is not inductive. What is: the count and the requests asleep
together stay below the limit and the number of processes (`CountInv`). A request
that starts to sleep saw a count below the limit and finds at most all processes
asleep; one that wakes adds to the count what it takes from the sleepers. The
assumptions are finitely many maps and at least one process. `ProducedKeysPass` is
inductive with the type of `keycode`.

For `Emulator`, `ParInv` adds to the bounds on `npar` that the entries of `par`
beyond it are zero, and for the second theorem `CacheInv` splits into what each
function keeps: the rendition with its two attributes (`LookInv`) and the
character sets with the translation table (`CharsInv`). Only the loop of SGR lets
an attribute fall behind, and the step that ends it computes it anew. `Sizes`
asks for eight parameters, for the seven digits of a palette sequence.

### Switching and blanking

These theorems go on from `Inv`. Their hypotheses say what kind of machine they are
about, and TLC finds a counterexample without them, with one exception: for
`NoLostWakeup` and `PendingIsForeground` it found none with freeing on small
instances, and there `NoFreeing` serves the proof, whose invariant has every console
that a seat names allocated.

- `NoFreeing`: `VT_DISALLOCATE` is not called. It frees consoles that
  `fg_console`, `want_vc` and `last_console` still point to (the run
  `freed_visible`), after which a pointer of one seat may name a console of
  another. The other way to lose a console, the reset of its last close, is
  covered.
- `FirstKept`: the first console of a display is not closed, for opening it again
  moves the foreground without a switch (see below).
- `OneOwner` and `NoSak`: a process that has a console open can call `VT_RELDISP`
  and `VT_SETMODE` on it without controlling it, and SAK resets a console its
  process is about to release; either leaves a pending switch on a console that is
  not on the screen.
- `OneDisplay`: `ignore_poke` is one flag for all displays.
- `AllOpen`: `vt_callback` returns without a look at the rest of its work when the
  console it is to show has no tty.

`SeatInv` carries the first two theorems: whatever a display, a pending switch or an
ioctl asleep on the semaphore names is an allocated console of that display; it
is inductive because every operation derives its target from the tty or keyboard
that asked. `NoLostWakeup` needs in addition that a console comes to the screen by
`complete_change_console`, which wakes everyone before it gives the semaphore
back, or by an allocation, and nobody sleeps for a console that is not there.
`HandshakeRespected` is an action property: `ConsoleStep` lists what a step can do
to the switching state of a console, `HandInv` what it needs of the state before.
`OwnInv` ties a process inside `VT_RELDISP` to the console it controls. `ArmedInv`
(`Watched`) adds to `AutoBlankArmed` the two states in between, a `KDSETMODE` that
has set the mode and not yet taken the semaphore and a switch that has locked
itself out.

### The tty layer

`CallsHoldTheirFile` and `DisciplineComesBack` have no hypotheses beyond
`TtyAssumption`, what the slots and pairs of a driver table are. `Placed(p)` says
for each place in a call which file and tty the process holds there; it also says
that a redirection or a redirected write keeps a file open (`Held`), without which
`tty_release` could take it away. `EnableOwed` is inductive with it: each of the
ways to clear `TTY_LDISC` leaves somebody who will set it, and that somebody keeps
his debt until he pays (`DebtsStay`).

The counts need more, and two hypotheses.

- `Gentle`: carrier is not lost where ttys are opened, because the hangup clears
  `TTY_CLOSING` and an open may then join a tty that is being freed (see below);
  and a driver whose `hangup` sleeps is not combined with exits of session
  leaders, during which another leader could take the tty that is given back.
  Every environment of the run `tty` is gentle.
- `Apart` (only for the table of disciplines and the refinement): two processes
  that may change disciplines are at different ttys. Two changes of one tty break
  the promise, as the run `ldisc_race` shows.

`LockInv` says what the big kernel lock keeps still between two steps: the closing
flags of `release_dev` still agree with the counts. `CountInv` counts files
instead of reading `tty->count` of the master, so that it is inductive across the
two halves of a pair; `CloseInv` says that nobody is left on a tty that is about to
be freed and that `TTY_CLOSING` bars everyone else; `CttyInv` adds to `CttySound`
that a leader on its way out still owns what it gives back. The three together
(`HomeInv`) are inductive, none alone is: the count decides who frees, freeing
must find nobody, and an exit opens what a count closed. `WorkInv` and `FlushInv`
follow the work queue through `flush_scheduled_work`: no input may be delayed once
the discipline is disabled, and after the flush nothing is queued.

A step is looked at one tty at a time: it `Counts` a user that comes or goes and
`Keeps` the rest, or the tty is `Born` or `Freed` (`CallFields`, `DrivenFields`).
From that lemma follow the count of users (`UsersStep`), the table of disciplines
(`TableInv`: the old discipline a change remembers is still the tty's) and the
refinement: a step that changes a discipline finds it unused and disabled
(`ReadyInv`), one that takes a reference finds it enabled and the tty reachable
(`TakesEnabled`), and one that frees finds no user because the count is exact.
`PromiseStep` turns this into a step of `Ldisc`.

### Input core and keyboard

The hypotheses are what the names of `Keyboard` mean (`VtAssumption`,
`ScenarioAssumption`) and that devices and key codes are finite in number, for the
keys that are down are counted.

*Registration.* `RegInv` speaks of the two walks of a device and a handler that
match. If neither has met the other, then each list contains the other's node at
or behind the place where the walk stands (`Ahead`), or the walk stands on a node
that is gone and never ends: `Met` is the disjunction. What makes it inductive is
that a walk shows its own node before it looks. `Kept` is the operator behind all
lists of this module, and the first lemmas say that a list loses elements without
changing the order of the rest (`KeptList`, by induction over the places).

*Binding.* `private` and `vt.keyboard` are written by `kbd_connect`,
`kbd_disconnect` and `write_kbd_phys`. `Bindings` adds to the property that the
handles with a VT are live and the keyboard's own. `kbd_bh` walks all handles;
`AllLedsOnly` shows by induction over the walk that it changes lights only.

*Modifiers.* `NoStuckModifier` is far from inductive. `ModInv` counts: while no
event of a key of modifier `m` was kept from the handler, `shift_down[m]` is at
most the number of triples of a device, a key of `m` held on it and a handle that
hears it (`Held`), because one key goes once through every handle of its device.
The bound must hold for what `compute_shiftstate` would count as well, so a key
in `key_down` must have such a holder (`Witnessed`, `Heard`). The lemmas follow one
event through each function of `keyboard.c` (`KeycodeStep`: what `kbd_keycode` does
to the counts, whatever the key, the map and the mode), then through the loop over
the receivers (`RunCounts`, by induction over them), and compare the result with
the holders before and after (`HeldAfter`, `CountAfter`). All other steps stay
within `Frame`. TLC checked `RegInv`, `BindInv` and `ModInv` as invariants of the
instance of the run `input` before they were proved.

### Screen devices

`Vcs` keeps the same screen twice, as the rounds of `vcs_write` leave it and as the
definition of the file does, and `VcsInv` says that the two are equal, that the
screen has the cells of its size, and that the numbers a call takes over from round
to round (position, what is left, what was done, the bytes of the round) are
naturals with no more bytes in a round than are left. That is enough because every
round looks at the size again: from that, `TouchesScreen` shows that the memory a round
of `vcs_write` touches is the screen's. The work is in two lemmas about one round:
`RoundIsFile`, that the bytes `Round` cuts out of whole words are `ByteAt` of the
position, wherever it starts (`HeaderRound`, `WordRound`), and `PushedIsWithBytes`,
that half a word, whole words and half a word make what `WithBytes` says byte by
byte (`AttrWriteCell`, with the places a cell can have in `CellPlaces` and `Cases`).
`VcsAssumption` says that consoles have rows and columns and that the buffer is even
and longer than the header, as `BUF_SIZE` is.

### Video memory

`TextKept` says that each console's text is where the console's origin points; to
keep it one must know where that is. `OriginSound` ties the place to the flags of the
driver: the console in the foreground has its text in video memory exactly when
`vgacon_set_origin` would agree to put it there, that is without graphics and without
a screen blanked by erasing it, and its view is then what the adapter displays.
`PlacedIn` adds that no other console is there and that origin, end and view lie
inside. `FlagsSound` is what blanking leaves behind: graphics and black colours only
while blanked, never both, and the registers of a suspended monitor saved. The four,
with the shape of the record (`Formed`), are `ViewInv`; `VgaInv` adds the colours,
which every request sets last.

In the middle of a request `ViewInv` does not hold: `do_blank_screen` and
`unblank_vt` change the flags first and the origin afterwards. What holds there is
`BufferedIn`: the text of every console is in its buffer, because
`vgacon_save_screen` has put the foreground's there, or because it was never
elsewhere. `Restored` takes such a state through `set_origin` and `vgacon_switch`
back to `ViewInv`. A write or a scroll is the other exception, in which memory is
ahead of the history (`NowShows`); `HardShows` is the case of the moving origin, with
and without the copy to the other end of the memory, and `ViewRowInside` the
arithmetic of the view on a ring.

All of this is said of the consoles outside `lost`. `Exposed(vga) \subseteq lost` is part
of the invariant: a foreground console with its text in memory that the driver may not
use is in `lost` from that moment on, and `OriginSound` leaves it alone. The invariant is
first kept with the larger set of consoles that are exposed after the step
(`MoreExposed`), so that each request is looked at with one set; a picture drawn over an
exposed text, or its origin moving below its buffer, then disturbs nothing that is
claimed of the others. Consoles, rows, memory, margin, colours and
adapters are any (`VgaAssumption`: a lowest console, and memory for one screen at
least). No behaviour is cut off: what the theorems leave out is the text and the
colours of consoles in `lost`, and `ExposedOnlyLate`, which the run `tables` checks, says
when a console can get there. TLC checked `VgaInv` as an invariant of the instance of the run `tables` before it was
proved.

### What is drawn over text

`LayersExact` says what every cell holds; to keep it, what was saved must be right
when it is written back, which is what `SelInv` adds. What is saved under the pointer
is the cell as it is due without the pointer (`PointerSound`), and what is saved
under the cursor of a display is the plain text of its foreground console at the
cursor (`OriginalSound`). A selection or a pointer is over a console in the
foreground only (`DrawnSound`), so that a switch, which clears what is over the old
console, finds nothing over the new one. The rest are shapes: the view lies in the
memory, a range is one, each display shows a console of its own. None of the parts is
inductive alone.

The functions of `Selection` map a state to a state, and there is a lemma for each:
what it leaves alone (`Frame`, `SameViews`, `SameRange`), and that `SelInv` of the one
gives `SelInv` of the other. The order in which the code undoes things is in their
hypotheses: the view moves, a soft cursor is drawn or removed and text is written
only while neither selection nor pointer is over the console (`Clear`: `ViewMoved`,
`AddedCursor`, `RemovedCursor`, `CharPut`), which is what `hide_cursor` and
`set_cursor` see to first (`CursorHidden`, `CursorSet`). A mutant that moves the view
first breaks `LayersExact` in the run `display`. A selection is set in one lemma about
one inverted range (`OneRange`) for the four ways in which an old and a new range can
differ (`Rehighlighted`). A request is a chain of these functions. Memory, text,
displays, words and sizes are any (`SelectionAssumption`); `NoneAssumption` says that
the value for nothing is not a cell. TLC checked `SelInv` as an invariant, with one
seat and with two, before it was proved.

### Only model-checked

- Liveness under fairness (`SwitchServed`, `WaiterReturns`, `KeyUnblanks`), which
  TLAPS does not do.
- The refinement of `FuncStrings` by `Keymap`: the strings are read up to their NUL.
- Everything about `Unimap`, whose requests for all consoles recurse over them.
- `VerdictExact` of `Attach`, which compares with the whole history of what the device
  said, for a SpaceBall by recursion over its lines.
- `BufferExact`: the copy of a selection is a recursion over its places.

## Disagreements seen while modelling

Besides the findings above, these places were met while the code was translated.
No run is about them. For each, one of three things holds: the module keeps clear of it,
as its section or the entry here says; the model reproduces it and no property reads
what it changes; or the model reproduces it and a property names it as an exception.
The last are two: `MapsCounted` excepts the memory of maps freed by the inverted test of
`con_set_default_unimap`, and `TextKept` and `MonitorShows` except consoles whose text
was exposed.

Consoles
- Opening a display's first console takes the screen from a `VT_PROCESS` console
  (vt.c:1027; the comment at vt_ioctl.c:644 promises a signal first).
- `VT_ACTIVATE` of a console without a tty never switches (vt.c:881).
- With a blanking interval of zero, or on a screen that is blanked already, graphics
  mode leaves the screen as it is (vt.c:738, 745; vt_ioctl.c:904 says it blanks). The text
  is not saved, and what is drawn stays on the screen when the text is to come back.
- `vt_map_display` admits one console beyond the limit (vt.c:1724); `VT_RESIZEX`
  walks slots that are not allocated (vt_ioctl.c:1330); ESC[12;n] uses the result
  of `find_vc` without a test (decvte.c:837); `kmalloced` belongs to the display but
  tells how one buffer was allocated (vt.c:1135); tab stops end at column 256
  (decvte.c:171).

Ttys
- `release_dev` computes its closing flags in one critical section of `tty_sem` and
  uses them in another (tty_io.c:1611); the model takes the second `down` not to
  sleep. If it does, `NoDangling` fails.
- A hangup clears `TTY_CLOSING` (tty_io.c:835): an open may join a tty that is being
  freed.
- The secure attention key kills only the tty's session (tty_io.c:2414).
- When `ptmx_open` fails after `release_dev` has freed the pair and its number, it gives
  the number back a second time (tty_io.c:1934), when another open may already own it;
  that pair's number would then be handed out twice. The model leaves the second
  `idr_remove` out.
- Registering a discipline that is defined already resets its reference count
  (tty_io.c:262). In the model each discipline has one module, which registers it once
  before it unregisters it.

Keyboard and input
- `kbd_disconnect` leaves `vt->beeper` behind (keyboard.c:1196).
- `kbd_refresh_leds` compares with the lights of the VT, so that a second keyboard
  on one VT does not get them (keyboard.c:869); `write_kbd_phys` does not refresh
  them.
- The shift state, `key_down`, dead keys and typed numbers are common to all seats,
  although each seat is to have a keyboard of its own.
- A SysRq operation that is disabled leaves the log level at 7.
  `input_devices_poll` never reports.
- `KDSKBENT` and `KDSKBSENT` sleep in the middle; `KDSKBDIACR` sets the size of its
  table before it copies the table.
- `KDSETKEYCODE` admits codes up to `KEY_MAX` for tables with entries of one byte
  (keyboard.c:150) and tests the key bits of the truncated code later; the model's tables
  keep every code.

Emulator and maps
- `do_con_write` tests the opposite of its comment (vt.c:1252, 1251): UTF-8 and the
  translation table are read inside control sequences and nowhere else. The model does
  so too, and no property is about half-read characters.
- RIS does not reset `decnkm`; DECRQM reports modes that are never set.
- `con_set_default_unimap` releases the map that is still in use and keeps the other one
  (consolemap.c:535, an exception in `MapsCounted`); the copy in
  `con_set_unimap` counts only the pages that exist; `vgacon_deinit` leaves a
  reference to the default map with every console freed; `take_over_console` drops
  pointers uncounted; a failed `vc_allocate` leaves the driver's count raised;
  `update_user_maps` reaches only its own display's maps.

Display
- Scrolling on a blanked EGA moves the origin from the console's buffer through whatever
  memory is beside it (vgacon.c:1011-1047), although a comment says that blanked screens
  are not written (vgacon.c:988).
- Scrolling back after reverse scrolling shows rows of another console, and on a
  blanked EGA computes a view outside video memory.
- `con_get_cmap` stores the same entry three times.
- `vcs_write` under a highlight leaves the cell inverted, and on a background
  console's cursor cell uses the saved cell of the display.
- Resizing does not look at the selection or the soft cursor; `set_selection` uses
  the caller's size with the foreground's screen; `paste_selection` reads its buffer
  again after it slept.

inputattach
- The reset of the EasyPen writes from address zero and is never sent; `errno` is
  not cleared after `EINTR`, so that the loop goes on when a later read succeeds
  (inputattach.c:933).
- `spaceball_waitchar` stores a line in `r[64]` without a look at its length
  (inputattach.c:118), and `easypen_init` takes a partial write for a whole one
  (inputattach.c:554). The model's lines have no limit; partial writes are in it.
- The axis range that a comment gives for the Zhen Hua (inputattach.c:503) is not tested.

## Not modelled

- joystick calibration: Arithmetic on readings a person takes at a terminal, written straight to the driver; no state of its own.
- joystick and force feedback test tools: Interactive test programs: input and output without state worth a model.
- code generator: Prints tables.
- X input driver tuntitko: Event forwarding inside an X server that is not part of the repository.
- patched copies of kernel files: Near-verbatim copies of kernel files that carry a few lines of the project's changes.

Of the components that are modelled in part, fonts (`KDFONTOP`, the glyphs of
`vgacon`), the paste of a selection, `VT_RESIZEX`, `KDSKBDIACR`, the detection of an
adapter, the proc files and the modem ioctls are left out; `PROJECT.json` says so
for each.

## Plan

Done: consoles, screens, the tty layer, input core and keyboard, the emulator's
parser, key maps and strings, unicode maps, video memory, selection, `/dev/vcs` and
inputattach; two abstract specifications with their refinements, one of them
proved; theorems about consoles, screens, key maps, the emulator, the tty layer, the
input core, the keyboard, video memory, selections and `/dev/vcs`.

Next, in this order:

1. An account of `Unimap` without the recursion over its consoles,
   so that `MapsCounted` can be proved.
2. An abstract specification of the switch handshake (asked, agreed, refused,
   abandoned) that `VtConsole` implements.
3. Fonts of 512 glyphs and the mask they need in every console; pasting with a
   buffer that is replaced while it sleeps; `VT_RESIZEX`.
4. The composition of `Tty` with `VtConsole`, where a `vt_open` that returns a
   nonzero index is undone by `tty_open`.
