# waltex in TLA+

waltex is a small preemptive kernel for i386: a keyboard behind an interrupt, a
round robin of tasks, a VFS with mounts over a minix v1 filesystem on an ATA
disk, and a shell. This directory models the parts of it whose correctness
depends on order, interleaving, limits and failures; the models are checked with
TLC on small instances, and some results are proved with TLAPS for all of them.

1. [Inventory](#inventory) 2. [How the parts interact](#how-the-parts-interact)
3. [Modules](#modules) 4. [Runs](#runs) 5. [Fairness](#fairness)
6. [Proofs](#proofs) 7. [Disagreements found](#disagreements-found)
8. [Not modelled](#not-modelled) 9. [Plan](#plan)

## Inventory

| component | state | operations | what is hard | what makes it correct |
|---|---|---|---|---|
| ring buffer (`kernel/ring.c`) | `buf`, `head`, `tail` | `ring_push`, `ring_pop`, `ring_empty` | two sides, no lock, an index each | a bounded FIFO; no slot read while written |
| keyboard (`kernel/keyboard.c`) | the ring, `skip_next`, `shift_pressed` | the IRQ 1 handler, `keyboard_getchar`, reads of `/dev/kbd` | interrupts inside the reader; decoder state across interrupts; a full ring | every accepted key is delivered once, in order; every stream of bytes has one meaning |
| tasks (`task.c`, `switch.S`, `timer.c`) | the table of tasks, `current_task`, the stacks | `task_init`, `task_create`, `schedule`, `task_switch`, `task_yield`, the tick | a tick at any instruction, also while a task is being created; the interrupt flag crosses a switch | any task the tick may choose can be resumed, with its own flag; nobody starves; the clock never stops |
| interrupts (`idt.c`, `isr.S`, `pic.c`, `irq.h`) | the flag, the PIC's request and service registers | `isr_handler`, `pic_eoi`, `irq_save`, `irq_restore` | end of interrupt against a switch that does not return; nesting | no interrupt inside a critical section |
| VFS names (`vfs.c`) | the mount table, the trees below | `vfs_resolve`, `vfs_mount`, `vfs_mkdir`, `vfs_open` with `O_CREAT` | stacked mounts, cycles of mounts, `..`, several spellings | what was created or mounted is what the path names; the covered side is never written |
| VFS open files (`vfs.c`) | `files[]`, `fds[task][fd]` | `vfs_open`, `vfs_read`, `vfs_write`, `vfs_lseek`, `vfs_close` | several tasks opening at once, failure between two allocations, limits of both tables, a pointer held across a call | one owner per slot, nothing leaked, each descriptor a file of its own |
| minix filesystem (`minixfs.c`) | bitmaps, inodes and zones on disk, the inode cache, static buffers | mount, lookup, read, write, create | writes that fail half way, a full disk, a cache that never evicts | bitmaps, inodes and directories agree |
| ATA (`ata.c`) | the registers of a channel, the drives found | identify, read, write | a protocol of polls with timeouts, errors that stick | no transfer on a channel that is not ready |
| registry, device I/O (`dev.c`, `devio.c`) | the registry | register, byte reads and writes over sectors | ends, partial sectors, short transfers; names and numbers shared by two kinds | one device per name and per pair of numbers; the bytes asked for, and no others |
| devfs (`devfs.c`) | the pool of inodes, filled when asked for | lookup, readdir | two tasks fill one inode with no lock; drivers that register late; places not shown | an inode handed out is whole; a listing is complete |
| procfs (`procfs.c`) | none: made from the table of tasks | lookup, readdir, read | the table changes between two calls | one text to its end; a listing is complete |
| output (`vga.c`, `serial.c`, `kprintf.c`) | `cursor`, the text memory, the cursor registers, the UART | `vga_putc`, `vga_clear`, `serial_putc`, `kprintf` | shared by all tasks, hardware written outside the critical section, a test and a write in two steps | no character lost on the screen or in the UART; the cursor catches up; every call returns |
| line editor (`lineedit.c`) | the line, the sink | one call per key | the limit of the line; two copies of it, one on the screen | the line is the one seen |
| shell (`shell.c`) | | split, numbers, one function per command | a command by what was left of another; the wrong disk; a descriptor kept | what is executed is what is on the screen; commands end and give back what they took |
| boot, GDT, exceptions, panic, RTC, memory, self tests | | | | straight-line code or pure functions |

`PROJECT.json` lists the same components with their files, and every hazard at
the line where it bites with the properties that watch it.

## How the parts interact

The timer and the keyboard enter through the same gate: the CPU turns the flag
off, `isr_handler` tells the PIC first and calls the handler then. The timer's
handler calls `schedule`, which may go to another stack in the middle of the
handler; the keyboard's pushes at most one character into the ring. The shell
task polls the ring, directly or through `/dev/kbd`, and is the only user of the
VFS after boot, though the VFS is written for several (`task_current` picks the
row of descriptors, `file_alloc` is a critical section). The VFS calls the
filesystems through the `ops` of an inode.

In the models a critical section or an interrupt handler is one step wherever
the scheduler is not the subject. Module Scheduler is what entitles the others to
it: `NoPreemptionInCritical` and `FlagBelongsToTask` say that nothing else runs
between an `irq_save` and its `irq_restore`, nor inside a handler.

## Modules

| module | models | remarks |
|---|---|---|
| `BoundedQueue` | what `ring.h` promises | abstract, no source lines |
| `Ring` | `ring.c` | one step per access of shared memory: check, store, publish; check, load, release |
| `RingProofs` | | theorems about `Ring` |
| `Keyboard` | `keyboard.c`, the polling loop of `shell_task` | composes `Ring` by `INSTANCE`: the handler is a whole `ring_push` in one step, the reader keeps the three steps of `ring_pop` |
| `KeyboardProofs` | | theorems about `Keyboard`; instantiates `RingProofs` |
| `Scheduler` | `task.c`, `switch.S`, `timer.c`, `irq.h`, the interrupt path, the end of `kmain` | a stack is the sequence of its open activations |
| `SchedulerProofs` | | theorems about `Scheduler` |
| `VfsNames` | the path half of `vfs.c` | a path is a sequence of slashes and names |
| `NamesProofs` | | theorems about `VfsNames`, `Devfs` and `Shell` |
| `Descriptors` | what a task may expect of its descriptors | abstract, no source lines |
| `VfsFiles` | the open-file half of `vfs.c` | |
| `VfsFilesProofs` | | theorems about `VfsFiles` |
| `MinixFs` | `minixfs.c` from `minix_create` and `minix_write` down to one block | |
| `MinixFsProofs` | | theorems about `MinixFs` |
| `Ata` | `ata.c` | a step is one `ata_wait` with what the code does when it ends; the drives are external |
| `DevIo` | `blk_read` and `blk_write` of `devio.c` | extends `Ata` |
| `DevIoProofs` | | theorems about `Ata` and `DevIo` |
| `Vga` | the two halves of `vga_putc` | operators over the text memory and the cursor |
| `Terminal` | what `vga.h` promises of the screen | abstract, in lines and columns |
| `Console` | `vga.c`, `serial.c` and the sink of `kprintf` | extends `Vga`; the UART and the registers of the cursor are external |
| `ConsoleProofs` | | theorems about `Console`, `LineText` and `Prompt` |
| `LineText` | split and the readers of numbers of `shell.c` | operators over `Vga`'s characters |
| `Prompt` | `lineedit.c`, `shell_task`, `shell_exec` and five commands | extends `LineText` |
| `Devfs` | `dev.c`, the wrappers and `devio_fill_inode` of `devio.c`, the pool of `devfs.c` | a task fills an inode one store at a time |
| `Procfs` | `procfs.c`, the cut of `snprintf` | operators over the slots of the task table |
| `Shell` | `ls` and `cat`, and what they make of `devfs.c`, `procfs.c`, `devio.c` | extends `Devfs` and `Procfs` |
| `MC*` | | values for TLC |

**Ring.** `head` and `tail` are volatile, so each access of the other side's
index or of the buffer is a step. This is the contract `ring.h` states, which is
wider than what the kernel needs.

**Keyboard.** `sent`, `accepted`, `refused` and `delivered` are histories: the
bytes the controller delivered, the characters pushed, how many found the ring
full, the characters handed to the caller. The meaning of a stream (`Spells`) is
defined on the whole history, without the handler's two flags, which is what makes
`DecodesStream` a check of the flags. A shift counts from its press to its release
(`ShiftHeld`), as the plan of m5 has it. For the keys that come after another byte under
the same shift (`HeldOver`) the code does otherwise, so `DecodesStream` lets each be read
either way and `HeldShiftApplies`, which does not, is refuted by TLC (see the disagreements). A refused key
is a character less and nothing else: which ones are gone is existentially quantified, how
many is not.

**Scheduler.** Each activation on a stack carries the interrupt flag it puts back:
an open critical section, a `task_yield`, an interrupt, the frame of a
`task_switch` (the only thing on the stack of a new task, with the flag on).
`esp[t]` is the stack `tasks[t].esp` points into; before `task_create` writes it,
nowhere. `task_init` and `task_create` are broken up at each store another task
can see; the build has no optimisation flag, so the stores are in source order.
A tick that comes while the line is still requested is lost, as on the PIC.
`task_yield` has no caller in the kernel today; it is modelled because it is the
interface of `task.h`, and because without it no task would ever leave the CPU
inside a critical section.

**VfsNames.** A call is one step: the tree and the mount table have no lock, and
today one task names files. The filesystem below is a tree; the create of
`minixfs.c` succeeds, fails without a trace, or fails with the entry of a new
directory in place and its own `.` or `..` missing. `last` is a history of the last
call that changed a name; of a mount it keeps whether the path met the place it covers
only at its end.

**VfsFiles.** `call[t]` is where task `t` is inside a call and the locals it
carries; between two steps every other task may run. `file_alloc` is one step
because it is a critical section; everything else is not. A read or a write is
checked, holds its slot while the filesystem works, then moves the position.
Positions are modulo `OffWidth` (2^32 in the code) and negative in their upper
half. Descriptors outside the row are refused by `get_file_from_fd`; no caller
passes one to `vfs_close`, which does not check the upper end.

**MinixFs.** A step writes one block of the disk, and computes what the code
computes from one write to the next. The disk is the two bitmaps, the table of
inodes and the zones; `cache` is the code's, slot by slot; `call` is where the call
under way is and its locals. A zone is seen both as places of 16 bytes and as
pointers, so that an indirect block that was not cleared shows. Every block is
read before some of its bytes are changed, so `Rewrite` says all that can happen
to it: written; or refused, by a read or a write that fails, in which case the
disk may have changed all the same. `Crash` keeps the disk, and puts the root in an
otherwise empty cache; what `minixfs_init` checks of the superblock is left out.
The disk is fresh from mkfs or holds what earlier files left behind: a deleted
entry, old inodes, old zones. `made`, `lost` and `half` are histories: the entries
created by calls that answered 0, the zones taken and not assigned, the directories
without their own entries. `Accounted` needs the last two because the code does
leave such things behind.

What one failed block may do is not hidden: with `faults > 0` the disk may end up
with a name twice (a failed read looks like a missing name), with an entry naming
an inode given back (the entry was written, the size was not), with a zone replaced
(an indirect block that cannot be read looks like a hole). Hence the premise
`faults = 0` in the properties about entries and accounts. `NoZoneShared` and
`ReferencedIsMarked` have no premise: whatever fails, and whenever the machine is
switched off, no two files share a zone.

**Ata, DevIo.** The drives are the environment: a drive obeys a command when it is
neither busy nor holding data and ignores it otherwise, goes on by itself when it
likes or never, may refuse a command at any sector, and keeps ERR until the next
command. A wait of the driver ends on what it waits for, on ERR, or because its
limit is over; the last is possible whenever the state is not there yet, which is
what a slow drive is. `was` and `before` are histories of what the disks held when
the call began; `late` says that some wait was given up. A sector is a function of
bytes, and each byte says where it came from, so that a byte in the wrong place
shows whatever its value. `Direct` is a call of several sectors, as minixfs makes
them. What a drive does between two calls is not bounded by them: a command
abandoned half way goes on while the next call begins. The size of a disk in bytes
wraps at 4 GiB in the code (`devio.c:412`, a debt it declares); the disks of the
models, as those of the build, are far below.

**Vga, Console.** A character on the screen is: store the cell, move the cursor
and scroll (together the critical section, while which nobody else runs), then the
four port writes of `set_cursor`, each a step. The port writes reach the register
that the index register, which is shared, names at that moment. A character on the
serial line is a poll of the transmit bit, as often as it takes, and then the write.
`kputc_console` does one after the other. A string is as many calls as it has
characters; `kvprintf` and the two `dev_write` keep nothing shared, and what they
print is any character at all. `vga_clear` has no critical section: it homes the
cursor, wipes the cells one at a time and points the hardware, with other tasks
printing in between. `alone` is a history. `ScreenIsTerminal` maps the text memory
to lines and columns, an open critical section counting as already done, and is the
refinement of `Terminal`.

**LineText, Prompt.** A key is one step, with its echo, on the real screen of `Vga`.
A line is the array of the code with its NULs, and `split` writes NULs into it, so
that what a command sees of the line before it is what the code would show. The
names of the five commands and of the disks are sequences of the same characters as
the rest of the line, and so are the digits, so that any line of the keys may turn
out to be a command. `seen` (the words on the screen at Enter), `last` (what was run
and put out) and `sector` (what was asked of a disk) are histories; what the disk
then does is `Disk`'s. The wording of messages is left out: an error prints the name
of the command.

**Devfs.** `prepara` runs from its test to the store of `ino` one store at a time,
several tasks inside it at once and on the same inode. A registration is one step:
the drivers register one after the other, and `dev_register` copies an entry in place
before it counts it. The registry knows its entries by a pointer to what a driver
has; an entry with none can only come from `dev_register` itself, and is the one that
`readdir` must step over.

**Procfs.** A name is a sequence of digits, a text a sequence of items, as long as
what it says makes it; a task's own status is longer than the same read by another.
`PROC_STATUS_MAX`, the cut of `snprintf` and its answer are the code's. Tasks never
end in this kernel, so the branches for a task that is gone are there and not reached.

**Shell.** A command is a task's: resolve, open (which resolves again), one step per
place that a `readdir` looks at or per `read`, close. Around the tasks a driver
registers, a task is created, a stack pointer is saved, a key is typed; `MaxEvents`
bounds how often, a new task counting one and the others two. `due` is a history of what an `ls` must show, taken when it begins.
Keys go to `cat` as `kbd_dev_read` gives them, whole; how it takes them out of the ring is
`Keyboard`'s. The path before `/dev` and `/proc` is `VfsNames`'. A read of a disk goes
sector by sector (`Reaches`), and at each the drive may refuse one: the bytes before it are
a short read, none is an error. Which sector was refused is kept in the call as a history,
for `CatExact` to say that the error was met at the very next byte. An open may always
find the table of open files full, since what the other users of the VFS left in it is
`VfsFiles`'.

Definitions whose comment begins with "mistake" belong to no specification: they
are the plausible slips against which each property is shown to have teeth
(`PROJECT.json`, "mutants").

## Runs

| run | bounds | what it shows |
|---|---|---|
| `Ring` | 4 slots, 2 values, any initial `buf` | the ring is a bounded FIFO at every interleaving. Four slots wrap, fill and empty; two values tell bytes apart |
| `Keyboard` | ring of 3, 5 bytes out of letter, release, shift, release of shift, prefix; reads of 2 | 45 000 states: no accepted key lost, streams decoded, every key reaches the reader. Five bytes overflow the ring of two places with a key to decode after the one refused, hold two prefixes around a key, and a shift over two keys |
| `Scheduler` | 3 slots, 3 creations (one too many), two sections or yields nested, both lines | 10 000 states: all safety, and liveness. Three slots are the least where one can be passed over; two levels the least that nest |
| `VfsNames` | a disk of three directories, one left without its `..` by a failed mkdir, and a free inode; 4 roots, 4 mount slots as in the build, 11 paths | 78 000 states: creation and mounting through stacks, cycles, `..`, doubled and trailing slashes, names and paths too long. Four roots fill the mount table with a chain without a cycle; two in turn close a cycle in three slots and the fourth meets it; a root that holds a directory can be mounted inside itself |
| `VfsFiles` | 2 tasks with 2 descriptors, 3 slots | either table may be the one that is full; positions wrap at 4 |
| `MinixFs` | 4 inodes, 3 cache slots, 4 zones, 1 direct and 2 indirect pointers, 3 places per block, 2 names; writes of 2 places at 2 offsets; one fault, one crash | 683 000 states. Zones, inodes and cache can each be what runs out. With 4 zones a mkdir is left half way and an indirect block finds no room; 3 places per block make a directory begin in its first block and go on in another; the writes reach a hole, the middle of a block, the indirect pointers and past them |
| `Disk` | every combination of disk, CD-ROM or nothing at the two positions; disks of 3 sectors of 2 bytes; a count register of 2; one refusal; two calls, of 0, 1 or 3 bytes at 3 offsets or of 0 to 3 sectors anywhere | 399 000 states. Two bytes are the least with a part of a sector; three bytes from offset 1 begin in the middle of one sector and take the next whole, from offset 4 they are cut at the end of the disk, one byte ends in the middle, and offset 6 is the end; a count of 2 is the one the register writes as 0; two calls are the least where the second meets what the first left behind |
| `Console` | 2 tasks, of which one clears; a screen of 2 by 2; a queue of 2; a low byte of the cursor that counts to 2 | 2 rows of 2 make every second character meet an end, and every position use both halves of the cursor's registers; two tasks overlap at every step |
| `Prompt` | 6 keys of 8, from 6 lines typed before and two places on a screen of 3 by 5; lines of 10, 4 words, numbers in base 3 and 4 up to 15, one letter that is a digit and has a capital, disks `x` and `xx`, sectors of 3 bytes | a prompt and a full line are two rows and scroll in the last; 15 is three digits in base 3, so that 16 and more are one key away; the lines typed before are the beginnings of `wrsect` and `rdsect`, with and without a disk |
| `Shell` | 2 tasks: one runs eight commands over `/dev` and `/proc`, the other lists `/dev`; 4 places of the registry, 3 filled; 4 slots of tasks, 2 taken; 1 descriptor each; reads of 7; two tasks created, or one other event | 352 000 states. Two new tasks are the least that make a listing of `/proc` show one of them twice. The entry without an implementation is between the others; one descriptor makes one that is not given back show at the next command; a disk of 8 bytes is two reads, and one of its sectors may be refused to either; a status is 6 or 7 items in a buffer of 8 |
| `VfsClose` | 1 task | expected violation, see below |
| `MinixFull` | as `MinixFs`, no faults, no crash | expected violation, see below |

Several of the properties are conjunctions of named parts: `KeysKept` is the type, no
accepted key lost and no key refused unless the reader is a whole ring behind;
`ReaderServed` that every key is delivered and every read returns; `TasksProgress` that
the clock never stops and no task starves; `MountTableSound` the type, that mounts are seen, that
the cap on their chains is enough and that none is shadowed; `DrivesSound` the type and
the table of drives; `ZonesSound` that no zone is shared and what is referenced is
marked; `TreeSound` that entries are sound and every bit is accounted for;
`CreatedIsSaved` that what was created survives and what is in the cache is on the
disk. Each part has a mutant of its own.

`VfsNames` stops when inodes and mount slots are used up (there is no unlink and no
umount), `MinixFs` when the disk is full and `Disk` when the calls are over, so these
are run without the deadlock check; `Prompt` is too, since the keys end. `MaxBytes`, `MaxNest`, `MaxSize` (of `VfsFiles`), `MaxFaults`, `MaxCalls` and
`MaxCrashes`, `MaxKeys` and `MaxEvents` are the only bounds in guards: bytes delivered, activations open in a
task's own code, the size a write may extend a file to, blocks or
commands that fail, calls, times the machine is switched off, keys pressed, things
that happen around the commands. `ticks` and positions wrap
as in the code, at a smaller width. `Creations` is what `kmain` asks for.

## Fairness

*Keyboard.* The reader keeps polling (weak fairness): `shell_task` never waits for
anything else, and `NoStarvation` of Scheduler (in `TasksProgress`) gives it the CPU again and again.
Keys need never come.

*Scheduler.* The timer keeps raising its line. A line offered again and again is
taken (strong, because the flag goes off and on: the hardware looks at every
instruction boundary). Code that runs with the flag off goes on, `kmain` goes on
when it has the CPU, and a task ends the critical sections it opens, however it
nests others in them: those of the kernel are loops with a bound. Nothing else is
asked of a task; in particular none has to yield.

*Disk.* The driver goes on (weak fairness); the drives need not, since every wait has
its limit.

*Console.* Every task goes on (strong fairness: while another is in the critical
section it cannot, and the bit it polls goes on and off), by `NoStarvation` of
Scheduler. The strong part matters for the poll of the transmit bit: a turn lasts
10 ms, and in that time the UART, at 38400 baud, sends more than it holds, with nobody
else filling it; so a task that polls for a turn sees the bit. The UART sends (weak).
Nobody has to print or to clear.

*Shell.* Each task goes on with the command it is in (weak fairness), for the same
reason. Nobody has to type, and a `cat` of the keyboard is excused for waiting.

## Proofs

`RingProofs` proves, for every `RING_SIZE` of at least two and every set of values:

* `RingInvariant`: `IInv` is an invariant. It is the conjunction of the types,
  "what the check established still holds" and "the value in hand is the one in
  the slot"; each needs the others, since the room the producer found can be
  relied on only because the consumer moves `tail` alone, and by one.
* `RingNoSlotRace`: by `IInv`, a store and a load in flight are on two slots.
* `RingImplementsQueue`: the refinement. Publishing `head` appends the value stored
  before (`PublishAppends`), storing is invisible (`StoreInvisible`), giving `tail`
  back drops the oldest (`ReleaseDropsHead`), every other step leaves the contents
  alone. The arithmetic of the wrapping indices is in `NextSlotValue` and
  `CountFacts`.

`SchedulerProofs` proves, for every number of slots, of creations and of nested
sections:

* `SchedulerInvariant`: `IInv` is an invariant. None of the properties the run
  checks is inductive alone. That a ready task can be resumed says nothing of what
  happens when it has been; so `StacksWellFormed` says, of every stack, that the
  lowest activation found the flag on and the others found it off, that an
  interrupt can only be the lowest, and that the frame of a switch is on top of
  a stack the CPU is not on. `TableSoFar` says for each point of `kmain` how much of the table is
  built: while a slot is being filled it is still `FREE`, so a tick cannot choose
  it. `TurnComes` adds, for a ready task, the times it was passed over and its
  distance from the running one: together never more than one turn.
  `OwnStackStep` reduces every step that stays on its stack to two facts about that
  stack; `ScheduleStep` is the one step that changes stack.
* `SchedulerCurrent`, `SchedulerResumable`, `SchedulerFlag`, `SchedulerBypass`: parts
  of `IInv`, or arithmetic away from one.
* `SchedulerCritical`: an action property. A switch is made from a `task_yield`, or by
  a tick whose activation is alone on its stack: had a section been open below it,
  the flag would have been off and the tick not taken.

`VfsFilesProofs` proves, for every number of tasks, slots and descriptors:

* `VfsFilesInvariant`: `IInv`. `OneOwner` counts owners; `NamedOnce` says the same
  with no counting and includes the open that is between `file_alloc` and
  `fd_alloc`, `NamedInUse` that what is named is in use. With them, and because a
  task is in one call at a time, the slot held across the filesystem is still the
  task's own (`HeldFileIsOwn`).
* `VfsFilesOneOwner`, and `VfsFilesNoLeakOnFailure`: the orphans change by one at a
  `vfs_close` and at no other step (`OrphanStep`).
* `VfsFilesImplementDescriptors`: the refinement. `Seen(t, d)` is what a descriptor
  shows; a step is invisible (`Invisible`) or changes what one descriptor shows
  (`Visible`).

What is proved of `vfs_close` is what it does, the leak included.

`NamesProofs` proves of `VfsNames`, for every tree, every number of mount slots and every
set of paths:

* `NamesCreatedIsFound`: what a create puts on the disk is found by the path it was given.
  The walk of the whole path passes where the walk of the parent did
  (`ParentIsOnTheWay`, with `Cut` for what `spezza_path` takes off); it was somewhere at
  every component, so it never looked at the entry that was missing nor into the inode
  that was free, and the create changes only those (`StepKeeps`); and no mount is over an
  inode that was free, because what a mount covers stays a directory (`Covers`).
* `NamesMountTable`: a chain still on a mount after `MAX_MOUNTS` turns has been through
  `MAX_MOUNTS + 1` places, so through one slot twice, and the slots between lead only to
  each other: a cycle (`CapHolds`). Then a path never resolves to a place that has a
  mount, and the next one hides none (`MountStep`): `NamesInv` says so together with the
  types and `Covers`. So a mount changes the turns at one place, where chains ended
  (`HopMounts`); those that ended there now end where those of the new root do
  (`SubstituteMounts`, which needs the cap of the new table too), and the walk that led
  there, which had not met the place before, does the same (`MountSeen`).
* `NamesCoveredUntouched`, an action property: the parent of what is created is where
  some chain of mounts ended (`Lands`), and a chain that ends on the disk never began
  (`SubstituteOnDisk`: the roots of the mounts are other filesystems'). It needs no premise
  on cycles.

`Substitute` and `Walk` are recursive functions. `ChainExists` builds the sequence of their
values and `Counting` compares two of them: induction, with a set where the library's
theorems take an operator.

It proves of `Devfs`, for every number of tasks, of drivers and of places:

* `DevfsInvariant`: `DInv`. The heart is what a task inside `prepara` has stored so
  far, which is relied on only because whoever else fills the same inode stores the
  same values: an entry, once registered, does not change, and that is part of the
  invariant too.
* `DevfsInodeWhole` (the claim of `devfs.c:85-97`, that no critical section is
  needed), `DevfsOneNamespace`, and `DevfsPlacesAreStable`, an action property: what
  was handed out or pointed at does not change. They are about `DSpec`, the registry
  and the pool by themselves; `ShellInodeWhole` is the first again, with the commands that
  look up, list and read what is being filled.

It proves of `Shell`, for every number of tasks, of drivers, of slots of tasks and of
descriptors, and whatever is typed, registered and created meanwhile:

* `ShellHolds`: `ShellInv`. What lies around a command is the registry and its pool
  (`DInv`), the table of tasks, filled from its first slot up (`SlotsFill`), and the keys;
  of these nothing is ever taken back (`Grows`). `CallFits` says what a task knows at each
  point of its command: that its node is what its path leads to (`Fits`), that what it must
  show was there when it began (`DueFits`), what it has shown (`Listing`), what it has
  printed (`Printing`). It is said so that it stays true while the rest grows
  (`CallKept`); so one task's step disturbs no other's, and each step of its own has a lemma
  (`AskFits`, `ResolveFits`, `OpenFits`, `ListFits`, `ListEndFits`, `ReadFits`).
* `ListingsAreComplete`. In `/dev` a place that a listing has passed is either shown or
  never to be shown before the end (`DevScan`): an entry registered late goes behind, and the
  one before an inode that is filled late is filled by the listing itself, before it looks.
  In `/proc` the entries shown are the tasks in order, as long as those created meanwhile are
  one at most: those there at the beginning come first, each in its place (`ProcLines`), and
  the scan never counts one of them less than its slot (`ProcScan`). That a name shown leads back is that
  of the first slot with that name, unique in the registry (`DeviceFound`), and that the
  digits of a number are read as that number (`TaskFound`).
* `CatsAreExact`. Each read is a cut of one text at the place where the last one ended
  (`CutsJoin`, `CutOfCut`). The text of a status depends on the task that runs and on
  `esp`, and both may differ from the read before; but `BUF` holds the longest text, so
  the first read has all of it and the next finds nothing (`StatusPrints`). A disk is
  read up to a sector refused (`ReachesIs`, `BlkReadIs`); if that leaves no byte, the position
  is in that sector and what has been printed is all there was before it (`BlockPrints`,
  `ErrorFits`), which is what an error means (`ErrorMeans`).

`ConsoleProofs` proves, for every number of tasks, every size of the screen and every
width of the cursor's low byte:

* `ConsoleInvariant`: `IInv`. The cursor stays on the screen through newlines, scrolls
  and backspaces (`AdvancedType`, with the arithmetic of rows in `SizeFacts`). `Fits`
  adds the tasks that saw the queue empty to what is in it. `CursorFollows` says how
  far the port writes of the only task that carries a position have come (`Written`):
  `CursorKept` is for the steps that touch none of it, `CursorTaken` for the two that
  take a position.
* `ConsoleNoOverrun`: from `Fits`, with no more tasks than the UART has places (8 and 16
  in the code). `ConsoleCursorCatchesUp`: from `CursorFollows`.
* `ConsoleScreenIsTerminal`: the refinement of `Terminal`, for a screen of any size.
  `DivModIs` makes cells and places of lines one thing (`PlaceIs`, `CellIs`), and one lemma
  per kind of character says what a `vga_putc` is in lines and columns: `PutSeen`,
  `NewlineSeen`, `BackspaceSeen`, `IgnoredSeen`, with `ScrolledSeen` for the end of the
  screen. `CompletedIs` and `LeftIs` follow the two mapped variables through a step: the
  store of a character is the step of the terminal, and the move that follows it none, as
  nobody else runs in between. That one clear at most is under way (`OneClear`) is from the
  assumption that one task, the shell, is the only one to clear (`shell.c:448`).

It proves of `Prompt`, for every alphabet, prompt, length of a line, number of arguments,
base, set of disks and size of a screen that holds a full line above its last row:

* `PromptHolds`: `PInv`. There is one text `s` of which the buffer is the array with a NUL
  behind (`LineOf`), which stands on the screen behind the prompt (`EndsWith`), and which
  is what was seen at Enter (`Holds`). An echo adds to what the screen ends with, scrolls
  included (`EchoedEnds`); the echo of an erasure takes one character away, across the end
  of a row too (`Erased`). `Ran` says what the last command did as a function of the line
  seen alone. `ScreenShowsLine` follows (`SeenFollows`).
* `RunsWhatIsSeen`: `split` walks the array and writes NULs into it, `Words` cuts the text
  where a word begins. `Splitting` is the invariant of one turn (`TurnKeeps`): the words
  taken so far are the first ones, in order, and each is whole under its NUL. `SplitIs` counts
  the turns. `JoinedWords` is the converse: `echo` puts out words that, split again, are the
  same.
* `NumbersAreExact`: the two readers accumulate from the left and refuse before they wrap;
  `Value` adds places from the right. `ValueIs` makes one of the other (Horner's rule), and
  `DecStepIs` shows that the check by division refuses exactly what no longer fits (`FitsIs`).
* `SectorsAreThoseTyped`: what `disco_da_argv` takes for a disk is what the line names
  (`DiskIs`), the number is by the theorem above, and bytes out of the two hexadecimal digits
  by `ByteIs`.

`KeyboardProofs` proves, for every pair of tables, every size of the ring and every
length of a read, two theorems. `KeyboardKeepsKeys` is an action property. `KInv` is the types,
"nothing is lost" and `IInv` of the ring: that the interrupt may fall between any two
steps of `ring_pop` is all in the last, which says that the slot about to be loaded or
released is still there. The steps of the reader are those of `RingProofs`, cited from
there; a push in one step is new (`PushAppends`). That a refusal means a whole ring
follows from the length of the two sequences.

`KeyboardDecodesStream` is about the two flags of the handler, for any stream of bytes.
`FlagsTell` is what they mean: `skip_next` is the parity of the run of prefixes that ends
the stream so far (`RunIsOne` says that it has one length), and `shift_pressed` is
`AfterShift` of the byte to come. `LatestByte` says what one more byte does to either,
`Earlier` that it changes nothing about those before it. `QueueTells` is what the queue has:
the characters of the bytes that type one, the bytes right after a shift shifted, less as
many as were refused; `SpellsOn` counts them, each at its place. `TellsDecodes` makes of
this the property: of the keys under a held shift those it is held over are the ones that
`DecodesStream` lets be plain.

`MinixFsProofs` proves, for disks, tables of inodes, caches, files and directories of
any size, all that the run `MinixFs` checks. There are three invariants, each over the one
before.

`ZInv`, whatever fails and whenever the machine stops, gives `MinixFsZonesSound`:

* a file has two copies of its inode, one on the disk and one in the cache, which a
  failed write may leave different. `Copies` is both, for every inode a call can still come
  to (`Known`: the root and every number in a place of a zone, in the cache or in `made`,
  whether a directory reaches it or not), and `Refs` the zones they hold, each with its place.
  `Owned` says that no zone has two places in them, `Marked` that each is in the bitmap;
* `InFlight` is about the call under way: the zone it has taken, and the indirect block it
  may have taken for it, are two, marked, and nobody's (`Fresh`) until they are assigned; the
  indirect block points nowhere by then;
* `SlotsOK` says that a free slot holds nothing and that the slots a call uses are in use.
  `LinksBound` is why no counter of links wraps, which the code does not check: it has at
  most as many links as there are inodes marked, and one more outside a create.

`Rewrite`, the step every block goes through, is taken apart once (written, refused with
the disk changed, refused with the disk as it was), and so each operation of the code
has a lemma for what it does to `Refs` and one for what it does to the marks. A crash forgets
copies and so only removes from `Known`.

`SInv`, while no read or write has failed, however often the machine is switched off, is
about what the directories say (`Tells`: which directory, at which place, which entry).
`MinixFsCreatedIsSaved` and the entries of `MinixFsTreeSound` follow from it:

* `Whole`: an entry leads to an inode that is marked and of a type, no directory says a name
  twice, and no inode has two names but the dots; `Told`: what `made` remembers is said;
  `Saved`: the cache and the disk agree between any two steps, and no inode is in two
  slots; `Reached`: what is in the cache has a name, but for the inode being created;
* `Asked`, `Placed` and `Zoned` are what a call knows on its way. A create has seen that its
  name is not said, or that the cache is full, and then `inode_alloca` refuses: this is what
  makes a lookup that failed for want of a slot harmless. An entry is written where nothing
  is in use, and shows only with the size if it is at the end. A new zone reads as the hole
  it fills until the block is written.

Of each step that only moves blocks it is proved that no place of a known inode reads
otherwise (`Calm`); of the two that put a new entry in sight, that it is that entry alone
(`Grows`). `MinixFsOnlyTargetChanges` comes from the same two facts, with `Keeps`: a slot
changes its inode only through being free.

`AInv`, while moreover the machine has not been switched off, is what `fsck` counts, and
gives the rest of `MinixFsTreeSound`:

* `Bits`: an inode is marked if it has a name or is the one being created; `Spaces`: a zone is
  marked if it is in use by a file with a name, lost, or on its way; `Links`: an inode has as
  many links as names (`NamesOf`, whose cardinality the lemmas count up by one entry at a
  time), but for a `..` whose link is not added yet and the `.` a new directory is born
  counting; `Newborn`: the inode being entered holds nothing, and the block its `.` was given
  is where its `..` goes, so that the second cannot run out of space. A call that breaks off
  in between leaves its mark in `lost` or in `half`, and nothing else.

`DevIoProofs` proves, for sectors, disks, transfers and calls of any size, any drives on the
channel and any number of refusals:

* `DevIoDrivesSound`: `DInv`. `Found` is the table so far; `Probed` says that a position
  not yet looked at has never been given a command, and that while a disk is being
  identified its drive is on that, which is why an answer means a disk. `Phases` says who
  is in a call of whom.
* `AtaTransferExact`: `TInv`. When no wait has been given up the drives do what the call
  has asked for: all but the selected one are at rest (`Rest`), and the selected one is at
  the sector the call is at, with as many left (`Reading`, `OnWrite`), or has refused. In a
  write the last sector given may not be stored yet (`Pending`); a refusal is the one other
  way for it to be missing, and the flush hides it: the exception of `TransferExact`
  is in `Writing` for every sector that is the last so far.
* `DevIoBytesExact`: `BInv`. `SoFar(D)` says of a copy of the disk what the finished chunks
  have made of every byte. It holds of the disk between two chunks and of `was` inside one;
  `SectorWritten` turns the one sector of `TransferExact` into bytes, and `ChunkPlaces` is
  the arithmetic: the bytes of the chunk are those of one sector, from `Skip` on.

`KInv`, `ZInv`, `SInv`, `AInv`, `DInv`, `TInv`, `BInv`, `PInv` and `ShellInv` were checked by TLC on the instances of the runs
before they were proved, and each was strengthened when it turned out not to be inductive.

The proofs assume what the modules' ASSUMEs say of the constants, and nothing else. Those
of `Prompt` and `Shell` say of the build what the code relies on and nobody checks: that no
two commands have one name and no disk's begins with a digit; that a prompt and a full line
leave a row of the screen free; that the tasks at the start have the first slots, that no
name of a device is longer than a dirent holds, and that a status fits `PROC_STATUS_MAX` and
one read of `cat`.

Every invariant and every action property that a run checks is also proved; what stays with
TLC is liveness (`ReaderServed`, `TasksProgress`, `CallReturns`, `PutcReturns`,
`CommandReturns`), which is out of the prover's reach, as is whatever speaks of ENABLED. What
a recursive function computes is proved here only where it is a chain of steps over a
sequence of known length (`ChainExists`); such are all those of the models.

`Ring`, `Scheduler` and `VfsFiles` check the same `IInv` that is proved, so that TLC
looks at the inductive invariant before the prover does, and at each ASSUME.

## Disagreements found

Places where the code does not do what its comments or plans say. Two are runs that
TLC is expected to refute:

* `VfsClose`: `vfs_close` leaks the global slot, against the comment of `vfs.h`
  that describes precisely this mistake. After 32 opens the kernel opens nothing
  more. `FailedOpenLeavesNothing` is therefore stated as "as many orphan slots as
  closes".
* `MinixFull`: a mkdir that finds no zone for the new directory's own block leaves
  the directory in its parent without `.` and `..`; the comment over the undo of
  `minix_create` says that everything after the allocation is covered by it.

The others have a configuration to see them with, `tlc -config X.cfg M`, and are kept
out of the list of runs:

* `KeyboardHeldShift.cfg` with `MCKeyboard`: a held shift is forgotten after one key
  (`keyboard.c:108`), so that shift, a, a types "Aa". The plan of m5
  (`docs/superpowers/plans/2026-07-28-waltex-m5-tastiera.md:209`) has the state change on
  the bytes of a shift alone; the plan of m7 (`2026-07-29-waltex-m7-shell.md:148`) already
  notes that the code does not do so. `DecodesStream` therefore leaves the later keys under
  one shift open, and `HeldShiftApplies` is what TLC refutes.
* `VfsAccess.cfg` with `MCVfsFiles`: the access mode is compared with flags that may hold
  `O_CREAT` (`vfs.c:476`, `vfs.c:507`; `include/vfs.h:209` warns of it).
* `VfsSeek.cfg` with `MCVfsFiles`: `SEEK_END` accepts a negative position (`vfs.c:571`;
  `include/vfs.h:235`).
* `ProcNames.cfg` with `MCShell`: `/proc/03` is a second name of `/proc/3`. The comment at
  `procfs.c:83` says that "03" is not, and so does
  `docs/superpowers/plans/2026-08-02-waltex-m11d-funzioni.md:237`; `indice_da_nome`
  refuses only what is not a digit.
* `ProcListing.cfg` with `MCShell`: two tasks created while `/proc` is listed may make the
  listing show the second of them twice and the first never. `root_readdir` starts again
  from slot 0 for each entry, and counts the tasks it meets: a call that has passed the slot
  of the first before it is taken counts one less than the next call does.
  `tests/host/test_procfs.c:219` expects exactly the tasks there are. The boot does create
  two tasks after the shell, with interrupts on (`kernel/main.c:188-191`). `ListComplete`
  excepts it, and was stated without the exception until the proof failed there.
* `ConsoleCursor.cfg` with `MCConsole`: two tasks that overlap in `set_cursor` may leave the
  cursor anywhere, since each writes two halves through one index register;
  `vga.c:126-127` says one character behind. The next call by itself puts it right, as
  the same comment says: `CursorCatchesUp`.

Observations that are not runs. A cycle of mounts (D, P and D again on one
path) is accepted, and from then on a mount made there is not what the path shows, since
`risolvi_mount` stops after `MAX_MOUNTS` turns on a place that is covered already.
A root mounted inside itself (`/proc` on `/proc/3`) makes a path meet one inode twice: a
mount on `/proc/3` then also covers `/proc`, and the path leads nowhere. `Acyclic` and
`MetOnce` except the two: without either, TLC finds `MountIsSeen` violated. `vfs_close` indexes
`fds[t][fd]` without an upper bound. A position past what `zona_assegna` can write is
reached with `vfs_lseek` and no large file, whatever the comment at `minixfs.c:687`
says, and each write there loses a zone for good; so does one that finds a zone for
its data and none for the indirect block.

Of the disk. `ata_dev_write` commands the flush without waiting for the last sector:
a drive still busy ignores it (and the call then waits for the sector alone, without
a flush), and a drive that has refused the sector by then drops its ERR for the new
command, so the call answers its whole count; `TransferExact` excepts that sector.
ERR stays until the next command and `ata_prepare` sends none while it is on, so
after one refused command both drives answer -1 until the machine is reset; a CD-ROM
as slave, which refuses IDENTIFY, has that effect from boot. After a wait that was
given up the next call may be served the sector of the abandoned one: `late` is in
the premise of `TransferExact` and `BytesExact` because of it.

Of the output. A `vga_clear` that other tasks print into wipes what they wrote behind
it and leaves what they wrote ahead of the wiping for it to reach; the screen is still
a terminal's. Of `/dev` and `/proc`: a name of 15 characters fits the registry and is
cut to 14 in a listing, after which it leads nowhere; none of the build's is as long. `cat` of a character device
reads up to 64 keys and prints up to the newline: those typed after it are lost. A
hexadecimal number of more than 8 digits is refused, zeros ahead of it included.

## Not modelled

The list with reasons is in `PROJECT.json`. Boot, GDT, exceptions, panic, RTC and
the helpers over bytes have no behaviour that a model would show better than the
host tests. Of `minixfs.c`, the checks of the superblock and reads through the double
indirect block, which the kernel never writes. The other commands of the shell are
formatting over what they read, as are the formats of `kvprintf`; `mkdir`, `mount` and the
rest of `write` are calls of `VfsNames` and `VfsFiles`. Memory
consistency is not modelled: one CPU, volatile fields, no optimisation.

## Plan

Done: the ring, the keyboard over it, the scheduler, the VFS, the writing half of
the minix filesystem, the disk and its view as a file of bytes, the registry and
devfs, procfs, the screen and the serial line, the prompt, `ls` and `cat`.

The invariants and the action properties of all the runs are proved. Left:

1. An abstract filesystem (a set of names and contents) that `MinixFs` without
   faults implements, and the same for `VfsNames`.
2. The reads of `MinixFs` as steps of their own, so that a read and a write of one file
   by two tasks can be interleaved; today one task uses the filesystem.
