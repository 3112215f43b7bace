# A TLA+ verification project for YishiOS

YishiOS (`src/code`) is a small x86 micro-kernel in C and assembly. The kernel
proper does four things: it schedules, it passes messages, it runs interrupt
handlers and it keeps timers. Everything else - keyboard, screen, disk, files,
memory, terminals - is a server process that talks to the others by
`sys_sendrec`. This directory holds TLA+ modules for the parts whose
correctness depends on the order of events, TLC configurations for small
instances, and TLAPS proofs for the scheduler and its linked lists, message
passing, the keyboard ring, the life of a program, the disk and file system servers,
the terminal and the game. Paths below are relative to `src/code`.

## 1. Inventory

### 1.1 The parts and their state

| Part | Source | State | Operations |
|---|---|---|---|
| Scheduler | `lib/interupt/irqhandler.c`, `include/interupt/irqhandler.h`, `kernel/global.c`, `lib/process/proc.c` | `p_proc_ready_head`, `p_proc_pause_head`, `p_proc_wait_head`, the links and `ticks` of each PCB | `clock_handler`, `schedule`, `start_proc` |
| Message passing | `lib/syscall/ipc.c`, `syscall.c` | per PCB `flags`, `send_to`, `recv_from`, `sending_to_this`, `next_sending`, `has_int_msg`; `timers[7]` | `sys_sendrec` (SEND, RECEIVE, SENDREC), `sys_set_timer`, `deadlock`, `block`, `unblock`, `inform_int` |
| Interrupts | `lib/interupt/*`, `kernel/kernel.asm`, `include/base/kernel.inc` | `k_reenter`, `ticks` | clock, keyboard and disk lines |
| Keyboard and INPUT | `irqhandler.c:120`, `lib/process/input/*` | `key_buffer` (ring, flags, head, tail, count), shift and lock keys, `t_present_terminal` | `keyboard_handler`, `input_keyboard` |
| Memory server | `lib/process/memory/memory.c` | `PCB_stack_status`, `PCB_USED`, `MM_mem_bitmap` | `execute`, `exit` |
| Terminals | `lib/process/terminal/*` | command line `in_buf`, `in_head/tail/count`, cursor, `child_pid`, descriptors of directory and file | `terminal_main`, commands `root ls cd open run cls` |
| Output server | `lib/process/output/output.c` | `console_table`, video memory | display, scroll, clear, draw |
| Disk server | `lib/process/disk/disk.c` | `disk_buffer`, the controller | read, write, info |
| File system | `lib/process/filesystem/filesystem.c` | super block, inode table, index block buffer | root, read, cd, open |
| Snake | `snake/snake.c` | ring of positions, direction, ball, screen | key and timer messages, exit |
| Boot | `boot/*.asm`, `kernel/kernel.asm` | disk image, page tables, descriptors | start-up, once |
| Library | `lib/base/*`, `lib/display/*` | none | copies, formatting, ports |

### 1.2 How they interact

* A process runs while its PCB heads the *ready* list. A slice that ends moves
  it to *pause*; when *ready* is used up, *pause* becomes the next round. A
  process in a SEND or RECEIVE without partner is in *wait*.
* `inform_int` lets a handler wake a process that receives from ANY or
  INTERRUPT, or record the interrupt in `has_int_msg`.
* keyboard -> ring -> INPUT -> terminal -> running program. Terminal -> memory
  server (`run`) -> file system -> disk server -> disk interrupt. Program ->
  terminal and memory server (exit). Programs and terminals -> output server.
* Servers share memory with each other beyond messages: the PCB table, the
  console table, and `va2la` addresses inside messages.

### 1.3 What is hard

The clock preempts anywhere between two system calls; the lists keep stale back pointers;
messages have no queues, so both orders of a rendezvous and every pair of
senders count; interrupts come before or after the RECEIVE that wants them; the
ring is written by a handler between any two statements of its reader;
`exit` is a conversation of three processes, each of which may be preempted in
the middle of it. System calls themselves run with interrupts enabled
(`kernel.asm:122`). `PROJECT.json` lists each hazard with its line and the
properties that would catch it.

### 1.4 What makes each part correct

| Part | Correct means |
|---|---|
| Scheduler | each PCB is in one list at most; no idling while somebody can run; a full slice per round; FIFO within rounds; nobody starves |
| Lists | the linked lists behave as sequences; every back link that is followed is the right one |
| Messages | a message goes from its sender to a receiver that asked for it, once; nobody misses a partner, or an interrupt but one that comes inside its own RECEIVE; blocked = in the wait list; no circle of senders |
| Timers | an armed timer fires and frees its slot; a sleeper wakes |
| Keyboard | codes are taken in typing order and as long as there are any, extended keys are never split, no wake-up gets lost outside RECEIVE, the count is right |
| Life cycle | the child gets keys only while it lives; no block is lost, or freed in use, unless two programs share it; an exited PCB is in no list; exit never stops the kernel; a run request is answered |
| Terminal, output | line editing keeps the line; the cursor stays in the console's memory |
| Disk, files | one interrupt per sector is consumed; a read returns the blocks of the file; a time-out is not waited for |

## 2. Modules

| Module | Models | Uses |
|---|---|---|
| `ProcQueues` | the three queues as sequences, one operator per list function | - |
| `Sched` | who may change the queues and when: the abstract scheduler | `ProcQueues` |
| `PcbLinks` | the same functions on `next_pcb`, `pre_pcb`, heads and sentinels, and the queues they spell | `ProcQueues` |
| `PcbList` | the scheduler on the linked lists; implements `Sched` | `PcbLinks`, `Sched` |
| `Rendezvous` | what message passing promises: a send and a receive meet | - |
| `Ipc` | `ipc.c`, interrupts and timers; implements `Rendezvous` and `Sched` | `ProcQueues` |
| `IpcIrq` | message passing on the linked lists, statement by statement, with interrupts between | `PcbLinks` |
| `KeyBuffer` | the scan code ring, handler against server | - |
| `Lifecycle` | INPUT, terminal 0, memory and file servers and programs on the linked lists | `PcbLinks` |
| `Disk` | the disk server and the ATA controller | - |
| `FileSystem` | the file system server over the disk server, and its clients | `Disk` |
| `Console` | the first console, the video memory and the OUTPUT server | - |
| `LineEdit` | what a command line promises: a text, a position, two words | - |
| `Terminal` | the first terminal over the console; implements `LineEdit` | `Console`, `LineEdit` |
| `Snake` | the game over the console, with its timers | `Console` |
| `QueueProofs`, `SchedProofs`, `PcbLinksProofs`, `IpcProofs`, `LifecycleProofs`, `DeviceProofs`, `TerminalProofs`, `SnakeProofs` | proofs; `PcbLinksProofs` is about `PcbList` and `IpcIrq`, `DeviceProofs` about `KeyBuffer`, `Disk` and `FileSystem` | |
| `MCSched`, `MCPcbList`, `MCIpc`, `MCIpcIrq`, `MCTimers`, `MCLifecycle`, `MCFiles`, `MCTerminal` | instances for TLC | |

`PcbList => Sched` and `Ipc => Sched` meet in the middle: one shows that the
pointer code does what the sequences say, the other that message passing uses
the queues only as the scheduler allows.

### 2.1 ProcQueues and Sched

`q.ready`, `q.pause`, `q.wait` are the lists from head to sentinel, `q.ticks`
the slices. The empty task is `q.ready = <<>>`. `Schedule`, `Block`, `Unblock`,
`Enqueue` and `Dequeue` are the functions `schedule`, `block`, `unblock`,
`shedule_pcb` and `free_pcb`. `clock_handler` has two steps, `ClockBegin`
(charge the slice) and `ClockEnd` (maybe `schedule`), because it serves the
timers in between, and other handlers may interrupt it; `ClockNested` is a tick
that finds `k_reenter # 0` and returns after charging. `free_pcb` is modelled
here by what it is meant to do; `PcbLinks` has what it does.

### 2.2 PcbLinks and PcbList

A state is a record of heads, links and slices. `pre_pcb` of a first node and
of an empty list's sentinel are stale in the code and here. `Chain` reads a
list back; one that does not reach its sentinel is no sequence of PCBs, so a
broken list breaks the refinement. `Exit` of the head of the pause list moves
the wait list's head (`memory.c:136`): the refinement holds without that case
(`FreePauseHead = FALSE`), and `MCPcbListFree.cfg` shows what it does.

### 2.3 Rendezvous and Ipc

`Ipc` keeps the PCB fields under their names. A system call is one step of the
running process; the clock handler is one step per timer slot, with disk and
keyboard interrupts and nested ticks between. `deadlock()` is evaluated on the
fields as they are. Its second loop follows `recv_from` without checking for
ANY (20) or INTERRUPT (-10), which are no table indices: what it reads there is
not defined, and `WildWalk` lets it end or not. `kernel = "hang"` is a
`while(1)` or endless walk in the kernel, `"fault"` a null pointer followed:
page 0 is mapped, so the kernel would go on with a corrupted page; the model
stops there. A process that sends to itself, and interrupts to a hanging kernel,
are not followed. Left out: the `message` pointers, the global tick count and
the calls that only read it.

RECEIVE runs with interrupts enabled. A keyboard or disk interrupt between its look
at `has_int_msg` (`ipc.c:105`) and `recv_from = src` (`ipc.c:182`) is recorded for a
process that then goes to sleep over it. `ReceiveLater` may therefore record any of the
process's lines while it blocks; `late` remembers which. `NoMissedInterrupt` is that
what is pending for a process asleep on interrupts is what came so late, and nothing
else; the next interrupt wakes it.

`Rendezvous` has no lists or flags: a send and a receive that match are one
exchange, an interrupt is either delivered or kept, until it is asked for or a later one
wakes its process. `Ipc` is shown to be that, except where it faults.

`IpcIrq` opens these calls: `sys_call` runs with interrupts enabled, so `todo` holds
the statements of `block`, `unblock` and `schedule` still to come, `k.pc` stands
between those of `msg_send` and `msg_receive` that a handler can tell apart, and
`inform_int` may come between any two. Four kinds of moment do harm (`BadMoment`):
between the look at `has_int_msg` and `recv_from = src` the interrupt is recorded for
a process that then sleeps on it; between the two clearings of `has_int_msg`
(`ipc.c:112`, `118`) it is erased; while a message is copied to the process, it is
woken twice; while queues are relinked, a handler that relinks too leaves them in
pieces. `HarmlessElsewhere` says that there are no others, and fails if any of the
four is left out of `BadMoment`. The model ends with the call that was struck.
Bodies, slices, timers, handlers inside handlers, and a second sender are not in it.

The first of the four moments is also in `Ipc`, `KeyBuffer` and `Disk`, the second in
`KeyBuffer`. `Lifecycle`, `Terminal` and `Snake` have RECEIVE as one step. The game's
interrupts come from the clock only, and `clock_handler` serves no timers while a
system call is interrupted (`irqhandler.c:11`); so do the terminal's. INPUT is driven
by the keyboard in `Lifecycle`, where it owes nothing and may stay asleep for ever;
`KeysTaken` of `Terminal` begins with what INPUT sends.

### 2.4 KeyBuffer

The handler is one step, the server is one step per statement that touches the
ring, `key_count--` a load and a store (the makefile compiles without `-O`).
`key_flag[-1]` is the last byte of `key_buf`, which lies in front of it. Flags
other than the first are uninitialised before `input_server_init` and arbitrary
here. `unread` is a history variable: what is in the ring and not yet taken.
Codes are abstracted to make, break (everything that decodes to nothing) and
0xE0. The server's loop ends at the first code that decodes to nothing, so it may
sleep with readable codes left (`input_keyboard.c:33`). It also does when a code comes
after RECEIVE's look at `has_int_msg` (`Sleep`; `missed` remembers it), or between the
two clearings of a pending interrupt (`ClearAgain`), which the drain loop that follows
makes up for. `EmptyWhenAsleep` says that there is no third way.

An interrupt inside `key_count--` is lost from the count; `CountNotAbove` says that the
count errs in no other direction. Such a loss has a second effect: with a count of 0 the
handler does not set the flag of a 0xE0 when the code behind it comes
(`irqhandler.c:139`), the server never passes it, and nothing behind it is ever read.
`EarliestFirstLap` therefore has two parts: no code is taken out of order or twice
(`TakesHead`); and `get_code` finds a code whenever the ring has one, but for a 0xE0 at
the tail whose second code is still to come, or after a lost increment (`FindsAll`).

### 2.5 Lifecycle

Five kinds of process run on the linked lists of `PcbLinks`. A step is a system
call with the work on private data before it; steps on shared data (drain,
load, exit) are steps of their own. `Preempt` may come between any two: slices
are not counted. `st` is the rendezvous state (`flags`, `send_to`, `recv_from`
and the sender list in one), `used` is `PCB_stack_status`, `bitmap` the blocks
marked in `MM_mem_bitmap`, `base` the block in a program's descriptors, `job`
the memory server's local variables. `kernel` gains two values, `"broken"` (a
queue no longer leads to its sentinel) and `"stray"` (a freed PCB has been put
back into a queue); the model stops there, as for `"hang"` and `"fault"`. `Script` bounds the run: the command lines and keys the user types, in order, at
any time once the servers wait for work. Left out are drawing and game timers,
which move a program in the queues as a preemption does, the disk behind the
file server (`FileSystem` has it), the command line (`Terminal` has it), and what
`terminal_handler` makes of a message from a process that is not its child.

`BlocksAccounted` is about the server's bitmap: if the blocks marked beyond the kernel's
are those of the programs, then a step that leads to no two programs in one block keeps
it so. With one program it says that `exit` frees what `execute` took. Two programs
in one block, which `memory.c:160` allows, are the step it excepts: there the first to
leave frees the block of the other. `RunAnswered` has two exceptions: a kernel that has
stopped, and a memory server in a SEND to a PCB that is not in use (`AnswersTheDead`).
The second belongs to a second run: `exit` frees the PCB of the program, and the answer
to it (`memory.c:48`) waits for a RECEIVE which the program, preempted before it, may
never reach; the memory server answers nobody any more.

### 2.6 Disk and FileSystem

`Disk` is `disk_server`, `disk_read`, `disk_write` and `disk_info` as one record of
the locals, and the controller as another: it becomes ready, raises its line once
per sector, and hands out or takes one sector through the data port. `int` is
`has_int_msg` of the server: an interrupt is remembered, not counted. One that comes
inside the server's RECEIVE, before `recv_from` is set, leaves it asleep over the
interrupt until another comes: `disk.missed`. `Slow = TRUE`
lets the drive stay busy beyond `HD_TIMEOUT`, so that `disk_cmd_out` returns
without having written the command (`disk.c:79`) and `disk_write` gives up
(`disk.c:131`), which leaves its command in the drive; `disk.late` remembers that
one of the two happened in the request at hand. A unit stands for the bytes of one
directory entry, inode, group descriptor or block number, so that sectors and
blocks hold a few of them and a request may begin, end and straddle anywhere.
Not followed: `disk_buffer` has 512 bytes, yet 1024 of them are cleared and
`disk_info` writes its text from byte 512 on; what lies there is up to the linker.

`FileSystem` adds `FS_init` (super block, groups, bitmaps), `FS_get_inode`,
`FS_search_file`, `FS_read_file` and the four requests. `FS_CD` goes on into
`FS_OPENFILE` (`filesystem.c:44`), as there is no `break`. `FS_read_file` is a loop
over blocks with one disk request each, through the direct numbers, then the
indirect block, read into a buffer of its own; the comment at `filesystem.c:86`
speaks of 12 blocks only. The search looks at a directory's first 20 entries, by the
directory's *size*, in a buffer that keeps what a larger directory left there. The
rest of what the code does to callers is kept too: the result of a read is 0 when
the file is not longer than what was asked for; the last inode is refused
(`filesystem.c:185`); a name that fills its record has no zero behind it and is not
found. The clients are the terminal's commands and `read_elf`; a client waits for
its answer, and there is one terminal, so requests come one at a time.

### 2.7 Console, LineEdit and Terminal

`Console` is the record of the first console, the video memory byte by byte (a cell
is a character and a color), the CRT registers and OUTPUT. The terminal's display
functions and OUTPUT change the same record without a lock, so every statement on it
is a step, where a character, its color and the cursor's move behind them are one: `todo` and `out.todo` are the statements still to come, where a text that
the terminal displays is one entry per character until its turn comes
(`Statements`). OUTPUT's DISP
keeps a pointer of its own that a newline does not move and a backspace moves by one
byte, half a cell (`output.c:36-60`). An update that is lost *within* a statement
(two reads of `cursor` before two writes) is not followed.

`Terminal` has `in_buf`, `in_head`, `in_count`, the keys, the words of a command
(`split` with its zero bytes), the welcome screen with its timer, the start of a
program and what happens while it runs. Any step of OUTPUT may come between two
steps of `todo`. Kept: `cd` and `open` without an argument use what an earlier line
left in the buffer; a welcome timer that fires late ends up as a key; ALT makes the second terminal
present, which never receives. Left out: a bound on the cursor at the end of the
console's memory, which the code has not (`notes/6`), the functions of the display
library that nobody calls, and keys of value 0.

`LineEdit` has no ring: a text of limited length that is overwritten at a position,
and the command is its first two words. `Terminal` is shown to be that; a command
typed without an argument leaves the argument open there, as the code does.

### 2.8 Snake

One step of `Snake` lies between two system calls of the game: move, draw, set the
timer, take a key. OUTPUT copies `video_mem` row by row meanwhile. The terminal writes
on the same console: its prompt after `run` (`terminallib.c:94`), which may fall into
the clearing of the screen and into the first pictures, and the one after the exit
message (`terminallib.c:63-66`), over the blank picture. `tty` is what is left of a
prompt, `fresh` that the terminal has written nothing since the game sent its last
DRAW. `ScreenIsPicture` is about a `fresh` screen: a prompt stays on the picture until
the next drawing covers it, and the one after the exit stays for good. It does not
presuppose where the screen begins, which depends on how prompt and clearing meet. `timers` is how
many slots hold a timer of the game, `int` its `has_int_msg`. Positions are a ring
of `LENGTH` entries with `head`, `tail` and `now`, as in the code. C's remainder
keeps the sign (`snake.c:102`), so a snake that leaves at the top has a negative
position, and writes in front of `video_mem`: the model stops there (`"astray"`).
Leaving the pause arms a timer although the one from before may still be armed
(`snake.c:139`): `OneTimer` does not hold, the game then runs faster; `StaysTicking`
says that the opposite, a game that stands still, cannot come about. A key that
comes during the exit stops the kernel; that is `Lifecycle`'s subject, and `Snake`
ends without it.

## 3. Runs

| Run | Checks | Shows |
|---|---|---|
| `sched` | TypeOK, Partition, NoIdleWhileRunnable, FullSliceAhead, NoOvertaking, NoStarvation | the queue discipline |
| `pcb_list` | BackLinks, ImplementsSched | pointers implement sequences |
| `ipc` | TypeOK, QueuesOK, BlockedAreWaiting, OneSender, NoMissedRendezvous, NoMissedInterrupt, NoSendCycle, ImplementsRendezvous, ImplementsSched | message passing |
| `irq` | HarmlessElsewhere | where in a system call the kernel would have to keep interrupts out, and that it need not anywhere else |
| `timers` | TimersFire, SleepEnds | liveness of timers |
| `key_ring` | NoSplit, EmptyWhenAsleep, CountNotAbove, EarliestFirstLap | the ring: nothing out of order, twice or left behind on its first lap, but for what a lost increment does; on any lap, the two ways of sleeping over a code |
| `run_exit` | BlockedAreWaiting, ChildLives, BlocksAccounted, RunAnswered | starting and leaving a program |
| `files` | InterruptMeansSector, ReadDelivers, KeepsToBuffer, OpensNamed, Answered | a read returns the file, whatever its size and position and however slow the drive is; each interrupt is the one for the sector at hand; every request is answered, except those whose command or data the drive never got, or whose interrupt came inside the server's RECEIVE |
| `terminal` | ShowsLine, ImplementsLineEdit, KeysTaken | the ring buffer is a line editor, and the screen shows its line |
| `snake` | TypeOK, NoTrace, StaysTicking, ScreenIsPicture | the picture is the snake, the screen is the picture where no prompt is on it, the game never stands still |

These runs find statements of the code or its comments that do not hold:

| Run | Property | What happens |
|---|---|---|
| `exit_linked` | ExitedStaysOut | the answer to an exit wakes the freed PCB, and the program runs on. The wake-up unlinks the PCB from the wait list a second time, by links that are stale, and whoever has blocked behind the same predecessor in between is cut out; `notes/11` mentions errors after leaving and reopening the game several times |
| `key_late` | NeverHangs | `snake_exit` sends to the terminal while the terminal sends it a key: `while(1)` in the kernel |

Eight further configurations show smaller things of the same kind; each ends with the
behaviour described.

| Module, configuration | Property | What happens |
|---|---|---|
| `MCPcbList`, `MCPcbListFree.cfg` | FreedIsUnlinked | `free_pcb` of the pause list's head leaves it linked |
| `MCIpc`, `MCIpcSenders.cfg` | SendersListed | a second sender is not put on the receiver's list (a null pointer is followed) |
| `MCIpcIrq`, `MCIrqLost.cfg` | NobodySleepsOn | an interrupt between the look at `has_int_msg` and the sleep (`ipc.c:105-186`) wakes nobody: the disk server would wait for ever |
| `MCIpcIrq`, `MCIrqTorn.cfg` | QueuesWhole | an interrupt in the middle of relinking leaves the queues in pieces |
| `MCTerminal`, `MCClearRace.cfg` | ScreenOnRow | OUTPUT's clear and the terminal's prompt change the cursor between each other's statements: the screen begins in the middle of a row |
| `KeyBuffer`, `KeyWrap.cfg` | TakesEarliest | after a wrap `key_flag[-1] = ...` overwrites the last code |
| `MCLifecycle`, `MCRunTwice.cfg` | BlocksDisjoint | `get_mem` returns bit 0 of a byte whether it is free or not: the next program is loaded over the one still leaving |
| `MCFiles`, `MCOpenFile.cfg` | ListShowsDirectory | `open` reads the file into the directory's buffer, and `ls` shows what lies there as names |

### 3.1 Bounds

* `sched`: three PCBs, one with two ticks and two with one, two of them started
  at boot and one spawned: rounds with full, partial and no slices, all three
  lists non-empty, and the empty task. `MaxOverrun = 2` lets the running
  process be charged past zero twice by nested ticks; below that nothing
  changes but the number. Three list members are enough for first, middle and
  last position, which is what the pointer code tells apart.
* `pcb_list`: the same three with `MaxOverrun = 1`.
* `ipc`: three processes give every pair and a circle of three; two interrupt
  lines, one of them on a process that also communicates, each of which may come
  inside a RECEIVE. One message body: contents are never looked at. No timers: they are `timers`' subject.
* `irq`: three processes, two of them informed by handlers, without slices: any tick
  may end one. Each queue can be empty, have one member or more while it is relinked.
* `timers`: two processes, two slots, times up to 3, so that slots fill, are
  reused, and fire in either order; without nested ticks.
* `key_ring`: four slots and six codes, so that the first lap has room for two
  extended keys, the ring fills and turns codes away, and both indices wrap. The
  size is 128 in the code; nothing depends on it but the length of the lap.
* `Lifecycle`: two PCBs and a bitmap of three bytes of two bits, the first two
  bytes the kernel's as in the code. The passing script is one start and
  one exit key. The first line is typed when all servers wait for work; their
  start-up orders are `sched`'s and `ipc`'s subject. Three inputs are what
  `MCRunTwice.cfg` and `key_late` take. With the script of `MCRunTwice.cfg` the four
  properties of `run_exit` hold as well (1,714,584 states, in 17 minutes, which is why it
  is not among the runs).
* `files`: two block groups of four inodes, blocks of four units in sectors of two,
  two direct block numbers. The medium holds files that end in a partial block,
  files that use the indirect block, and one beyond its reach, a directory in a
  directory, a name that fills its record, and an entry for the last inode; the
  clients make every request in every order. `MaxCount = 2` cuts a block
  into as many commands as the larger reads into. Nobody in the code writes to the disk or asks for its
  identification yet; the runs do, with requests that end inside a sector, before
  the clients' first request, and the clients stop once something is changed.
* `terminal`: a screen of 4 by 2 cells, a line of three characters, so that it fills
  after half the keys; six keys, the n-th from a set of its own, chosen so that
  typing, moving, erasing, running and listing meet in each position. Three of the
  keys may come during the welcome screen. The timer's 100 ms are taken to suffice
  for OUTPUT to draw. While a program runs one key stands for all.
  `MCClearRace.cfg` is the same with a program that clears the screen.
* `snake`: a screen of 3 by 2 cells, so that five moves can cross an edge, meet the
  body, eat, and wrap the ring; two cells for balls; two timer slots and three keys,
  which is a pause, its end, and a turn or the exit. 19 cells of video memory are what
  two prompts and the clearing can use up before the picture begins.
* All runs but `sched` and `pcb_list` turn deadlock checking off: the kernel may
  hang, the bound on the input is reached and everybody sleeps, the server waits
  for an interrupt that does not come, or the model ends with a struck call.

### 3.2 Fairness

* `Sched`: weak fairness of `ClockBegin` and `ClockEnd`. The timer chip ticks by
  itself and its handler has no unbounded loop.
* `Ipc` (`timers`): weak fairness of the clock handler's steps, for the same
  reasons. Nothing is assumed of processes.
* `Lifecycle` (`run_exit`): the clock goes on preempting, and a server that gets
  the processor again and again makes its next step, since a slice is one to
  five ticks of a millisecond and a step some instructions. These are `WF(Preempt)` and
  `SF(Step(p))` for the terminal, the file and the memory server, with ENABLED
  written out. INPUT and the programs may stop anywhere, even on the processor.
* `FileSystem` (`files`): weak fairness of the file server, the disk server and the
  controller: servers always run again (`NoStarvation` of `sched`), and a drive
  becomes ready in the end, though perhaps after `HD_TIMEOUT`. Clients owe nothing.
* `Terminal` (`terminal`): weak fairness of the terminal, the servers and OUTPUT,
  and of a program's receiving keys; a program need not leave or draw. That the file
  and memory servers answer is taken from `Answered` and `RunAnswered`, and fails where
  these have their exceptions: a drive that timed out, an interrupt that came inside the
  disk server's RECEIVE, an answer to a program that has left.
* All of them presuppose lists that are whole: a handler that relinks in the middle of
  another's relinking (`MCIrqTorn.cfg`) is outside `Ipc`, `Lifecycle`, `FileSystem` and
  `Terminal`.
* `Snake` states no fairness: its properties are of safety.

## 4. Proofs

The theorems hold for any set of processes, any priorities, any boot table, any
number of timers and interrupt lines, any size of the key ring, the command line and
the screen, any medium and any requests to the disk; they use the named assumptions of
the modules: priorities are natural numbers, the boot table has no repetitions, special
values and sentinels are not processes, there are finitely many processes, sizes are
not zero, the console's memory has room for two prompts, the clearing and the picture
(`CELLS >= 3 * WIDTH + 4 + LENGTH`; the code has 16384 cells), and what is displayed are texts.
`FilesAssumption` says of the medium that it is an ext2 file system: super block, group
descriptors, inode tables and the blocks of every file where their numbers say, as
numbers; of its groups that they are full, since `FS_init` rounds their number down; of
the buffers that they are as large as what is read into them, and of other processes
that they write to none of these blocks. TLC evaluates it on the medium of `files`.
What a theorem needs beyond that is in its statement, and named below.

* `QueueProofs`: each queue operator keeps the queues well formed
  (`WellFormed`: sequences without repetition or overlap, work-conserving) and
  says which process it moves where. The same for the functions on links, each shown to
  be its function on sequences: `Lists` says what the links are a spelling of, namely
  that from each head, `next_pcb` runs through the queue to its sentinel, inside a queue
  `pre_pcb` is the node before (`Linked`), the nodes of two queues are apart, and the
  sentinel's `pre_pcb` is the last node unless the queue is empty, when it is whatever it
  was. It also holds the facts about least elements and orbits (`LeastNumber`, `Orbit`)
  that stand in for induction.
* `SchedProofs`: `TypeCorrect`, `PartitionHolds`, `WorkConservation`,
  `FullRounds`. The invariant is `TypeOK /\ Partition /\ NoIdleWhileRunnable /\
  FullSliceAhead`. The parts need each other: a queue operator moves the process
  it is asked to only when there is one copy of it, and `Schedule` grants slices
  to the whole pause queue only when that queue is the next round. `FifoRounds`
  (`NoOvertaking`) rests on one lemma per queue operator about the order of two
  processes in `ready \o pause`.
* `PcbLinksProofs`, whole functions: `ListsAreQueues` (`PcbList` implements `Sched`), `BackLinksAgree`
  (`BackLinks`) and `FreedOtherwise` (`FreedIsUnlinked`), each where `free_pcb` is not
  called on the head of the pause queue (`~FreePauseHead`), the case `MCPcbListFree.cfg`
  shows to go wrong. The invariant `ListInv` is that the links spell queues (`Lists`).
  `Chain` is the queue that is spelled (`Spells`), so each function on links
  is its function on sequences, first, middle and last node apart.
* `PcbLinksProofs`, statement by statement: `InterruptsHarmless` (`HarmlessElsewhere`).
  The invariant `IrqInv` is `Orderly`, as long as no handler has struck. Between two
  statements of `block`, `unblock` or `schedule` the links spell nothing, so the
  invariant does not say what the lists are but what they will be: `Rest(l, todo, W)`
  holds if the statements left in `todo` make of `l` lists that are whole and in which
  exactly `W` sleeps. It has a form for each place in the three functions, and each
  statement leads from one form to the next (`RestKept`). The link lemmas of
  `QueueProofs` are needed where a relinking begins; from there on a statement only does
  the next of the assignments that its form names. `Relinked` takes for `W`
  the processes that are blocked by their flags, but for the two places of a call at
  which flags and wait list disagree (`Sleepers`): a partner whose flags are cleared and
  who is not unblocked yet, and a receiver that is marked and not asleep yet. At the
  first a handler that comes finds flags that await no interrupt any more, at the second
  a `recv_from` that does not yet, so it calls no `unblock` and `Sleepers` stays true;
  what it may do instead, record an interrupt for a process that then sleeps on it, is
  one of the moments `struck` names. `Calls`, `SenderListed` and
  `ReceivesFrom` give that the partner that a call finds is in the wait list when
  `unblock` is reached, `Interrupts` that an interrupt and a sleep for it never pass
  each other outside these moments.
* `IpcProofs`: `TypeCorrect`, `QueuesStayOK`, `BlockedWait`, `SingleSender`,
  `RendezvousMet`, `InterruptMet`, and `SchedImplemented` (`Ipc` implements
  `Sched`). The invariant is `TypeOK`, `WellFormed(q)`, `BlockedAreWaiting`,
  `OneSender`, `NoMissedRendezvous`, `NoMissedInterrupt` and `ArmedPositive`.
  Why it takes all of them: `unblock` is correct only for a process in the wait
  list, which `BlockedAreWaiting` gives; that RECEIVE finds the sender it should
  wake takes `OneSender`; that a SEND which blocks leaves nobody waiting for it
  takes `NoMissedRendezvous`. The refinement of `Sched` needs only that each step
  changes the queues by one operator, on a process that is where the operator expects
  it. `InterruptMet` keeps the books on what came inside a RECEIVE: `late` is set when
  the process goes to sleep and emptied by whatever wakes it. `RendezvousImplemented` maps
  each step to an exchange, an interrupt kept or delivered, or a stutter, except one
  that faults.
  `SendersUnwind` (`NoSendCycle`): a step that closes a circle of senders would have
  to be a SEND of its last member, whose walk in `deadlock()` would come back to itself.
  The walk has no bound in the theorem; of the numbers of hops after which it is back
  the least one is taken, and in between nobody was the sender.
* `LifecycleProofs`: `WaitingIffBlocked` (`BlockedAreWaiting`), `ChildIsAlive`
  (`ChildLives`), `NothingLost` (`NoBlockLost`), `BlocksAreAccounted`
  (`BlocksAccounted`) and `MemoryIsAccounted`, for any script, any number of program slots and any order of
  start-up. The invariant `LifeInv` (`LifeAlways`) has two halves. What stays true when
  the kernel has stopped: the types (`Ranges`), `ChildInv` and `MemInv`, which says that
  `get_mem` only ever gives out the first block behind the kernel's. And while the
  kernel runs (`RunInv`): the links spell queues that agree with the rendezvous (`Order`), where the
  PCB that `free_pcb` took out of its queue is in none until the memory server's answer
  to it; each process is blocked, if it is, in the call its code stands at (`Blocked`),
  so that a message that arrives is from whom the receiver thinks it is (`Served`,
  `Requested`); a program that leaves has told the terminal (`ToldInv`), or else
  `child_pid` would outlive it; the memory server loads for the terminal only
  (`JobInv`), which waits meanwhile and has no child (`TtyWaits`); and the PID in its
  answer is of a program that has not begun to leave (`AnswerInv`). `ChildLives` needs
  all of these: a program cannot be freed between the memory server's answer and the
  terminal's taking it, because the key that ends it would come through the terminal. `BlocksAreAccounted`
  needs no hypothesis, as the step that puts two programs into one block is excepted in
  it; `MemoryIsAccounted` follows for behaviours without such a step
  (`[]BlocksDisjoint`).
* `DeviceProofs`, keyboard ring: `NoForgottenKey` (`EmptyWhenAsleep`), `NoRoomLost`
  (`CountNotAbove`), `FirstLapInOrder` (`EarliestFirstLap`) and `FirstLapWhole`
  (`NoSplit`). The invariant `KeyInv` has, beside the types (`KeyTypes`), three parts. `SleepInv`: a readable code
  behind a decision to sleep is announced by a pending interrupt, until RECEIVE has
  looked, and after that it is `missed`. `CountInv`:
  `key_count` is one ahead of the truth only between the load and the store of
  `key_count--`, otherwise never. `RingInv`: on the first lap, with h codes put and t
  taken, the slots from t to h hold what was typed, flagged, with both halves of an
  extended key. It needs `CountInv`, because a count too high would let the handler
  set the flag of a code that has been taken. Its last part, `Stuck => Behind`, says
  that a 0xE0 whose second code has come can only be left unreadable by a count that
  has lost an increment; `EarliestFirstLap` excepts that case.
* `DeviceProofs`, disk server: `BufferKept` (`KeepsToBuffer`) and `SectorOfInterrupt`
  (`InterruptMeansSector`), for a disk server that anybody may ask for anything
  (`DiskSpec`, not only the requests of `FileSystem`). The invariant `DiskInv` says
  that what is done and what is left add up to what was asked for
  (`off + bytes = call.off + call.count`), so a last, partial sector ends at the end.
  The invariant `SyncInv` relates the server to the drive: at each place of the
  server's code the drive is idle, or busy with the sector that is due (`InStep`), or
  has it ready and has said so once; only after a time-out may the drive be left with
  a command. The hypothesis `[]OnMedium`: no write goes beyond the end of the medium,
  of which the model says nothing.
* `DeviceProofs`, file system server: `ReadsDeliver` (`ReadDelivers`), `OpensByName`
  (`OpensNamed`), and the two theorems of the disk server again for the system of file
  server, disk server and clients (`FilesKeepToBuffer`, `FilesSectorOfInterrupt`), where
  the requests are known and no hypothesis is needed. The invariant `FilesInv` has a
  lower and an upper half. `Lower`, on top of `DiskInv` and `SyncInv`: what a
  READ has moved so far is what the medium had there (`MoveInv`), and the blocks that
  nobody else writes are as they were (`Undisturbed`, `DriveKeeps`), also when a WRITE
  was given up and its command is still in the drive. `Upper`: the tables that `FS_init`
  has read so far are the medium's (`TablesRead`), descriptors have inodes of the
  medium (`InodesInv`), what looks like an entry in the directory's buffer is from the
  medium, though perhaps of an earlier directory (`BufferInv`), and `FS_read_file` keeps
  `off + left` to what is to be read, with the first `off` units in the buffer, less the
  one block under way, and the index block read before its numbers are followed
  (`FileInv`). Both halves need each other at each answer: a block counts as read only
  because the disk server answers with nothing left to do.
* `TerminalProofs`: `LineIsEdited` (`ImplementsLineEdit`) and `LineIsShown`
  (`ShowsLine`). For the first, the invariant (`IsLine`) keeps `head <= count <=
  TTY_BUFFER_NUM - MARGIN`, so that no remainder is ever taken of anything larger than
  the ring, and the 0 behind the line when its command is read. The hypothesis `NUL
  \notin Keys`: the key map has 0 for some codes, and such a key types the 0 that
  ends a string, which is no editing of a line. For the second, the invariant is about
  the statements still to come. `StartInv`: after each change of where the screen begins
  the registers are still to be set. `PictureInv`, unless OUTPUT has been at work: the
  line is on the screen (`LineShown`), or a prompt is to come (`PromptToCome`), or the
  echo of one key is, and the line is on the screen that its statements lead to
  (`EchoToCome`). `ChildInv` keeps the line empty while a program runs, or else the
  prompt after it would hide what was typed. The hypothesis `[]InMemory`: the cursor is
  in the memory that is followed. Nothing in the code keeps it there (`notes/6`); in
  the instance that TLC checks it never leaves its 80 cells.
* `SnakeProofs`: `Ticking` (`StaysTicking`), `Types` (`TypeOK`),
  `NothingLeftBehind` (`NoTrace`) and `ShowsPicture` (`ScreenIsPicture`). The invariant
  `PictureInv` gives the ring of positions a length: after e balls, `now` is the e-th
  entry from the tail and `head` the one after it, and each drawn cell is the position
  of an entry between, or the ball. The lemmas on remainders (`Wrapped`, `Added`,
  `Distinct`, `Further`, `Ahead`) say that fewer than `LENGTH` steps along the ring
  never meet. `ScreenInv` says how far OUTPUT has come: the rows it has copied show
  `video_mem`, if the picture has not changed since, and if it has, the game is on its
  way to ask for another drawing. The terminal's prompts move the cursor under OUTPUT's
  clearing; `PromptLeft` counts the cells a prompt may yet take, and `Within` that
  prompt and clearing together bring the beginning of the screen no further than two
  rows and two cells, so that the picture lies in the memory.

Only model-checked: the temporal properties under fairness (`NoStarvation`,
`TimersFire`, `SleepEnds`, `RunAnswered`, `Answered`, `KeysTaken`), which are beyond
the proof system. Every other property of a passing run is stated by a theorem.

No module with a theorem uses a RECURSIVE operator.

## 5. Not modelled

* Boot code and descriptor set-up: sequential, deterministic, byte layouts.
* The base library and `lib/display`: pure helpers; what the callers need of them
  (copying, comparing, splitting) is in the callers' models.
* The register save area of `kernel.asm`; `kernel_get_ticks` and `kernel_get_pid`,
  which change nothing.
* What comes of a system call that an interrupt has done harm to: `IpcIrq` ends with
  it. `Ipc`, `KeyBuffer` and `Disk` follow a sleep over a recorded interrupt; nothing
  follows lists that are torn, or a message that wakes its receiver twice.
* The second terminal and its console: it is created but never receives.
* INPUT's tables from scan codes to characters.
* The text that `disk_info` formats.

## 6. Plan

Done: `ProcQueues`, `Sched`; `PcbLinks`, `PcbList`; `Rendezvous`, `Ipc`, `IpcIrq`; `KeyBuffer`;
`Lifecycle`; `Disk`, `FileSystem`; `Console`, `LineEdit`, `Terminal`; `Snake`; and the
proofs of section 4.

Open: a composition of INPUT and both terminals (terminal switching), and of `Snake`
with `Lifecycle` (a timer of a program that has left).
