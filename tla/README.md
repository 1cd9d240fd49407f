# A TLA+ model of the alien-shooting game (`proj/`)

The repository holds the exercises of a Minix driver course (`lab2` to `lab5`)
and a game built from them (`proj/src`): aliens appear on a 7 x 11 board, the
player shoots them with the mouse, and an alien that lives for 300 frames kills
the player.  This directory models the game: what its handlers do to the shared
global variables when mouse, keyboard and timer interrupts arrive in any order
and any grouping, and what the table of best scores keeps.  Below the game it
models the drivers port access by port access: the bytes that mouse and keyboard
send through one buffer, the commands to the mouse and their answers, and the
clock that ticks while it is read.  Around the game it models a whole run of the
program, with the set-up and clean-up calls that can fail, and where each screen
draws into the frame buffer.  The course's own programs are modelled too: the
timer tests of `lab2`, the scanning functions of `lab3`, the packet and the idle
test of `lab4` and the moving sprite of `lab5`.

## Inventory

| Component | State | Operations | Talks to |
|---|---|---|---|
| game loop, game logic (`game.c`, `game.h`) | `game_state`, `points`, `game_matrix`, `game_over_counter`, `killer_alien`, the spawn clock, `frame_counter` | `game_loop`, `game_initialize`, `game_ih`, `game_step`, the alien scan, spawning, `game_leaderboard`, `game_save_and_display_lb` | calls every driver; all its state is global and written by the mouse and keyboard handlers too |
| mouse (`mouse/mouse.c`) | `nbytes`, `arr[3]`, `button_was_raised`, `mouse_x`, `mouse_y` | `mouse_ih` (packets from bytes), `mouse_event_handler`, `mouse_check_*`, the enable/disable commands with their ACK | reads the i8042; writes `game_state`, `points`, `game_matrix` |
| keyboard (`keyboard/keyboard.c`) | `flag2Bytes`, `name` | `kbc_ih`, `keyboard_event_handler`, the command byte | reads the i8042; writes `game_state`, `name`, `LB`, calls `game_initialize` |
| leaderboard (`leaderboard/`) | `LB`, `savefile.txt` | `readSaveFile`, `writeSaveFile`, `compareScore`, `addScore`, `getLeaderBoard` | called by the game |
| video card (`video_card/`) | the buffer, sprites, the places of buttons | `vg_ih` and the `vg_draw_*`, set-up and clean-up | reads the whole game state once per frame |
| real-time clock (`rtc/`) | six time fields, registers A and B | `read_time`, `wait_valid_rtc` | called before the loop and in each frame of the menu |
| timer (`timer/`) | `timer_global_counter`, the hook; the chip's modes and divisors | (un)subscription; `timer_get_conf`, `timer_display_conf`, `timer_set_frequency`, `delay_seconds`, which `lab2` and `lab5` use | delivers 60 interrupts a second |
| entry (`proj.c`) | - | `main`, `proj_main_loop` | graphics set-up, `game_loop`, clean-up |
| sprites, Minix and LCF headers | data; vendored | - | - |
| `lab2` .. `lab5` | each its own | the course's test functions | separate programs |

What is hard here:

* **Interleaving.** One notification carries any set of interrupts.  The mouse
  handler, the keyboard handler and the frame then run in this order, each on
  what the one before it left, also after one of them has set `EXIT`.
* **Order inside a frame.** The scan of the board stops in the middle when an
  alien kills; the rest of the board is condemned; then the spawn part of the
  same frame still runs.
* **Unsigned counters** that are decremented and then tested, an interval that
  shrinks by 5, scores narrowed to 8 bits, C's truncating division.
* **State that survives**: a second game runs in the process of the first, and
  a second process on the file of the first.
* **Progress**: the screens that must end by themselves, merged notifications.
* **Devices**: bytes of two devices in one buffer, damaged bytes, a status
  register that changes between two reads of it, a clock that ticks between two
  register reads, answers mixed with data, and an answer that is read from an
  uninitialized variable before any came.
* **Partial failure**: every port access and every set-up call can fail between
  two others, and some results are not looked at.
* **Someone else's handler**: while the program has not subscribed the mouse's
  interrupt exclusively, the system's own handler empties the buffer too.

`PROJECT.json` lists each hazard at its line with the properties that cover it.

## Modules

| Module | Models |
|---|---|
| `Aliens` | one alien's life, the row-major scan with its early return, `kill_other_aliens`, where a new alien can appear.  Pure functions of a matrix |
| `Pointer` | clamping the crosshair, the cell under it (with C's division), the buttons, where a cell is drawn.  Pure |
| `Leaderboard` | the table with its 8-bit scores, `addScore`, and what the save file is read to and written from.  Pure |
| `Game` | the state machine: `game_loop`, its messages, and the handlers as actions |
| `GameFlow` | abstract specification: screens, score, and the table as a bag of scores |
| `GameRefinesFlow` | the refinement mapping from `Game` to `GameFlow` |
| `MCGame` | values for TLC |
| `InputPath` | the output buffer of the i8042, and `mouse_ih` and `kbc_ih` down to `keyboard_event_handler` and `mouse_event_handler`, one action per port access |
| `Rtc` | `rtc_ih` with `wait_valid_rtc` and `read_time`, port operation by port operation, and the clock chip |
| `MouseCmd` | the commands to the mouse and `read_ACK_byte`, with the controller's two buffers |
| `Lifecycle` | a whole run of the game (`proj_main_loop`) or of `lab4`'s `mouse_test_packet` around `MouseCmd`: set-up, subscriptions, clean-up, and the handler of the system |
| `Screen` | where every screen draws its sprites, and the walk of `vg_draw_sprite` through the buffer |
| `Timer` | the timer driver and the three programs of `lab2`, access by access, and the i8254 |
| `MCTimer` | values for TLC |
| `ScanLoop` | what the programs of `lab3` and `lab4` share: the device, the timer, the loop, and the accesses with which a handler begins |
| `KbdScan` | `lab3`: `kbd_test_scan`, `kbd_test_poll`, `kbd_test_timed_scan`, `kbc_ih` and `enable_interrupts` |
| `MouseScan` | `lab4`: `mouse_test_packet`, `mouse_test_async` and `mouse_ih` |
| `LabScans` | the composition of the three, and their properties |
| `MovingSprite` | `lab5`: `vg_draw_moving_sprite`, its two kinds of speed and the border |
| `MCMovingSprite` | values for TLC |
| `GameProofs` | proofs about `Game` and its refinement of `GameFlow`: lemmas on the operators, type correctness, the safety properties, the steps of the refinement |
| `InputProofs`, `RtcProofs`, `CmdProofs`, `TimerProofs`, `LabProofs`, `ScreenProofs`, `SpriteProofs` | proofs about `InputPath`, `Rtc`, `Lifecycle` with `MouseCmd`, `Timer`, `LabScans`, `Screen`, `MovingSprite` |

### How `Game` corresponds to the code

`irqs` is the set of handlers the current message still has to run; `Receive`
is `driver_receive` returning any non-empty set; `Handles(irq, first)` keeps the
order of `game.c:62-76`.  Each completed mouse packet or key is an action:
`MousePacket` is `mouse_event_handler` with what it calls, `KeyEsc`, `KeyP`,
`KeyLetter`, `KeyDel`, `KeyEnterName`, `KeyEnterMenu` are the branches of
`keyboard_event_handler`.  An interrupt that completes nothing (the first bytes
of a packet, an overflow, a break code) is `MouseIgnored` or `KeyIgnored`.  A
timer interrupt is `NoFrame`, or a frame: `PlayFrame` and `KilledFrame` are
`game_step` without and with a death, `GameOverFrame` is that branch of
`game_ih` with `game_leaderboard` at its end, `IdleFrame` is every other screen.
`Finish` is the end of the loop with `writeSaveFile`; `Start` is a new process:
static variables at their initial values, `game_initialize`, `readSaveFile`.

Abstractions: a name is a sequence over a set of letters; `frame_counter` is
kept modulo the number of interrupts per frame, which is all the code uses;
random positions are a nondeterministic choice, and an attempt that hits an
occupied cell can leave the board unchanged; the time a file line takes to
parse, `input_message`, drawing and the clock of the menu are left out.
`mouse_x + moveX` cannot leave an `int16_t` (the crosshair is on the screen and
a displacement is below 256), so coordinates are integers.  The save file is
assumed to hold lines of the form the program writes, best first
(`FilesAssumption`), and `fopen` for writing to succeed.

### How `InputPath` and `Rtc` correspond to the code

In `InputPath` a value of `pc` names the port access that comes next.
`MouseCheck`, `MouseFull`, `MouseRead` are the accesses of `mouse_ih` in the
order of the code (source first, then full), `KbcFull`, `KbcCheck`, `KbcRead`
those of `kbc_ih` (full first); `MouseAssemble` and `KbcHandle` are the read of
the error bits with everything that follows it, which makes no further access.
Between any two of them `MouseSends` or `KeyboardSends` may fill an empty
buffer.  The status bits keep the values of the last byte after it was read, as
in the controller.  `Receive` delivers all latched interrupts in one message and
`Return` is the way back into `game_loop`, which runs the next handler of the
message; the frame that may follow touches no port of the i8042.  `Game` starts
where `InputPath` ends: a completed packet is its `MousePacket`, every other run
of `mouse_ih` its `MouseIgnored`, and likewise for keys.

The first byte of a packet has bit 3 set; a second or third byte, a displacement,
may have it too (left and down moves of one to eight pixels do, for example), and
`marked` counts those; a damaged byte is received with any value of it.

Left out there: the value of a packet (`Game` has it), failing port accesses
(a status that cannot be read counts as "full", "damaged" and "not the mouse's",
`keyboard.c:23-25`, `34-36`, `45-47`; `kbc_ih` could then take a byte of the
mouse for a key), and the commands before the loop, of which only a latched
interrupt remains.  A byte that arrives between the commands and
the subscription is a byte that arrives just after `Init`, since the controller
keeps the line raised until it is read.

In `Rtc` the operations of one call are numbered; those that matter have an
action of their own and the others are `Plain`.  `Update` is the chip's update,
which can come after any operation.  The chip is assumed to show its registers
in the format register B asks for, and to raise `UIP` for `Lead` of the
program's port operations before it changes them (244 microseconds in the
data sheet).  Seconds and the date are read and shown nowhere.

### How the other modules correspond to the code

In `MouseCmd` the command functions are `PollFree`, `PollFull`, `GiveUp` (the
wait of at most ten polls for the input buffer, after which the command is
written all the same) and `WriteCommand`; `read_ACK_byte` is `StatusFails`,
`StatusEmpty`, `StatusFull`, `GetByte` and `GetFails`, and `Judge` is what it and
its caller do with `ack_byte`, which is judged in every turn of the loop whether
a byte came or not.  `Answered` is the caller: an error of `STREAM_MODE` ends the
function, an error of `DATA_REPORT` does not.

Every access can fail.  A status that cannot be read ends the wait with -1
(`mouse.c:120`) and makes the input buffer look free (`keyboard.c:54-59`); a byte
that cannot be read is 0; `sys_outb`, whose result nobody looks at, may write
neither the prefix (`PrefixFails`) nor the command (`unsent`).  Three more things
are a nondeterministic choice: `Garbage` is what the uninitialized `ack_byte` may
hold, in practice often the 0xFA of the last call, `Noise` what bytes of keys and
packets may hold, and `MaxBusy` how long the controller can be at earlier work.
`cuts` counts the waits that ended on something else than an answer - a failing
status, a value left in `ack_byte`, a byte with the value of an answer - and the
properties say what holds in terms of it; `MaxCuts` bounds it.  The controller is
external: `WR_MOUSE` is assumed to be taken before the program's next kernel
call, a command that comes without it goes to the keyboard, and a device that
gets a command before it has answered the last one answers the new one only.

`Lifecycle` gives each program the sequence of its steps (`ProjSteps` is
`proj.c:39-49` with `game.c:34-92` in its place, `Lab4Steps` is
`lab4.c:43-87`); `at` is the step it is at, and each step is an action that goes
on, or ends the program where the code returns early or panics.  The commands of
`MouseCmd` are the steps `enable` and `disable`.  `vg_prepareGraphics` goes on
with a resolution of 0 and no buffer when `vbe_get_mode_info` fails, because it
returns 1 there, and without a buffer when its `malloc`, which is not tested,
fails; the results of the subscriptions and of their removal are not looked at,
and `kept` are the ones that the kernel did not remove.
`SystemTakes` is external: `IRQ_EXCLUSIVE` "disables active handlers"
(`minix/com.h:309`), so without it, or before it, they are active.  The game
gives its commands before it subscribes and after it has unsubscribed, `lab4`
in between.  The colours and the content of the sprites are left out.  What
happens in the loop is `Game`.

`Screen` has the real numbers of `game.h` and of the images.  `Drawn` is the set
of sprites of each state of the game, with every place the crosshair, the score,
the time and the name can give them; `Begin` and `DrawRow` are `vg_draw_sprite`,
whose two copies for transparent images walk in the same way.  The inner loop is
one step (`RowWidth`).  A text is a set of words, each with what stands before it
on its line and with its length.

In `Timer` a value of `pc` names the next port access, and `Fails` is that
access going wrong where the code returns.  The i8254 is external: `Control`
stops a counter until two bytes were written to its port, `Latch` keeps the
first status until it is read.  The programs run one after the other, so that
what a failed one left in the chip meets the next.  A call of
`timer_display_conf` asks for one of four fields or for one that does not exist;
printing may fail.  The subscription of the test may fail too, and then no
interrupt comes, since `lab2.c:54` and `timer.c:139` do not look at its result.
The output pin, bit 7 of the status, is arbitrary.  Left out are the `printf`s
and a failing `timer_unsubscribe_int`, after which the program returns.

`ScanLoop` describes one turn of the loops of `lab3.c` and `lab4.c`; `prog` says
which of the five functions runs.  They differ in the condition, in polling or
receiving, in the timer, and in what the handler does with the byte
(`KbcHandle`, `MouseAssemble`).  `mouse_check`, which the mouse's handler asks
first, is true of every byte since only the mouse sends there; `InputPath` has
the case of two devices.  A damaged byte is received as any other: as a key that
was not pressed, as a prefix `E0` or instead of one, with or without bit 3; and
an intact data byte of the mouse may have bit 3, which `marked` counts.  `wrong`
and `quiet` are history variables.  At the end
of `kbd_test_poll`, `AskCommand`, `GetCommand` and `PutCommand` are
`enable_interrupts`: the command byte is read without waiting for it, and written
back, or given to the keyboard when `write_command_byte` ran out of polls.  The
input buffer is taken to become free for `read_command_byte`, which waits for it
without a limit, since its counter is only counted up when the wait is over.
Left out are the count of port accesses (`counter_sys_in`), a failing
`timer_subscribe_int` (`Timer` has it), the conversion `(int) cnt` of `lab4.c:53`,
which is the identity on a `uint32_t` below 2^31, and status reads that fail,
which count as "full", "damaged" and "the mouse's" (`lab3/keyboard.c:28-30`,
`40-42`, `lab4/mouse.c:96-97`, `113-114`).

In `MovingSprite` the arguments are variables that `Init` chooses and nothing
changes.  `FastFrame` and `SlowFrame` are the two branches for a positive and
another speed, `MoveTo` the test of the border with the step taken back; sums
and differences are those of `uint16_t`.  A key is the release of ESC or not;
`KbdScan` has the detail.

## Runs

| Run | Shows |
|---|---|
| `play` | `TypeOK`; the killer stays in its cell and the wait does not underflow (`KillerStays`); every other alien is gone when the banner comes (`BannerAfterFading`); the menu inherits nothing (`MenuIsClean`); `CrosshairOnScreen`; `SpawnClockSound`; a pause freezes the game (`PauseFreezes`) |
| `scores` | a name is asked only for a score that enters the table (`InputOnlyForBest`), the table stays ordered (`LeaderboardOrdered`), an entered score is in it under its name and the others keep theirs (`AddedScoreIsInTable`), `Game` implements `GameFlow` (`ImplementsFlow`) |
| `live` | a shot alien vanishes or the game is left, also when the game is paused in between, as long as it is not left paused (`ShotAlienVanishes`); a player who stops shooting loses (`PassivePlayerLoses`) |
| `save_lost` | violation: the save file is always left empty |
| `shot_above` | violation: a click above the matrix hits row 0 |
| `bytes` | `TypeOK` (`arr` is not overrun); a byte in the buffer is always still to be read (`NoStuckByte`); a mouse byte is never taken for a key (`KeysAreKeys`); no packet is wrong before the first disturbance, and after it no more are than there were disturbances and data bytes with bit 3 (`FaultsBoundMixed`) |
| `lifecycle` | a command for which the program saw an ACK was carried out by the mouse, unless it was written without its prefix, up to the first wait that was cut short (`AckMeansDone`); when a function begins or ends, at most as many answers are still to come as waits were cut short (`AnswersInStep`); a success leaves text mode, no buffer, and no subscription but those the kernel would not remove (`CleanReturn`); `lab4` loses no answer to the system unless its subscription was refused or a wait cut short (`Lab4KeepsAnswers`); only a lost answer or a command that was never written makes a step last for ever (`StuckOnlyIfTaken`) |
| `scan` | `TypeOK`; a damaged byte spoils at most two scancodes, and at most as many packets are wrong as there were damaged bytes and data bytes with bit 3, none before the first damaged byte (`FaultsBoundWrongs`); the timed functions end only after silence (`EndsOnlyWhenIdle`), and then they do (`EndsWhenIdle`); the release of ESC ends every function of `lab3` (`EscEnds`), enough packets end `mouse_test_packet` (`PacketsEnd`) |
| `timer` | no call changes a mode (`ModeKept`); a success has set the divisor (`FrequencySet`), or hides a failure that has stopped the timer (`UnreportedStops`); each field shown is the timer's present one, whatever was left latched, but for the counting modes 6 and 7 (`ShownIsTrue`); the test of `lab2` takes its seconds (`TakesItsTime`) and returns if it was subscribed and timer 0 runs (`TestReturns`) |
| `screen` | every row of every sprite goes to its place, inside the buffer (`RowsInPlace`) |
| `sprite` | a sprite with a positive speed stays on the screen (`SpriteOnScreen`) and comes to rest at its target if its steps meet it, else at the border (`ComesToRest`) |
| `clock` | hours and minutes belong together, and are an hour and a minute (`ShownTimeWasReal`) |

### Bounds and why they are enough

* Two cells (`play`, `live`) are the least in which a scan
  has a cell before or after the killer, and a spawn a place beside it.  The
  proofs cover every size.
* The screen is 5 x 7 with cells of one or two pixels and a crosshair of two:
  the crosshair reaches every cell, both buttons, the border in each direction
  (one displacement leaps far outside) and the strip above the matrix where the
  truncated division gives row 0.
* Aliens live one frame longer than zero and die in the code's literal 2 + 1
  frames per state.  With the wait of 21 frames, 19 of them before the banner,
  the longest fading fits exactly, so that one frame more is seen.
* `UINT_MOD = 32` and `UINT8_MOD` of 2 to 4 let counters and scores wrap.
  `MaxPoints` is the one artificial bound: a hit that would exceed it is not
  taken.  In `scores` it is the largest score that fits the type.
* `scores` starts from no file, an empty file (the one in the repository), a
  full one and one with more lines than the table.

* `bytes` has three key bytes - the prefix `E0`, one with bit 3 set, which a
  wrong test could take for the start of a packet, and one without - and two
  disturbances, the least with which one can meet the consequences of another.
  Packets are numbered modulo 2, enough to tell neighbours apart.  One data byte
  with bit 3 (`MaxMarked = 1`) is enough to make a packet begin in the wrong
  place after a disturbance; the proof covers any number.
* `clock` has hours of twelve minutes, the least for which a minute needs two
  BCD digits, one second a minute so that every update matters, and `Lead = 10`,
  the least value for which the property holds (the proof needs the same).

* `lifecycle` polls twice instead of ten times, and the controller may be busy
  for both, so that both ways of writing a command occur.  `ack_byte` and other
  bytes have the value of each answer, and one value stands for all others.  One
  wait may be cut short (`MaxCuts = 1`), which is what makes every later one
  take an answer that is not its own; the proof covers any number.
* `scan` waits for two seconds of two ticks: a tick may fall before and after
  the key in the same second.  Two damaged bytes are the least with which one
  can meet what another left.  As in `bytes`, one data byte has bit 3; two
  packets are wanted, so that one can follow a spoiled one.
* `timer` has a square-wave and a rate generator, one in mode 6 that counts in
  BCD, and a timer that does not exist, and the
  frequencies 60 and 18, whose divisor does not fit 16 bits; three interrupts
  make a second.
* `screen` is the real screen.  The crosshair is in the corners, on the borders
  and in the middle; scores have one, three and ten digits, names none, one and
  six letters: the extremes of each.
* `sprite` takes every path along a row or a column of a 5 x 4 screen, targets
  too near to the border included, with speeds that divide the distance and
  speeds that jump over the target, and 16-bit numbers that wrap at 16.

Symmetry is not used: cells are ordered by the scan, and bytes differ.

### Fairness

`FairSpec` assumes weak fairness of the handlers and of the end of the loop: a
driver that has a message keeps running.  It assumes strong fairness of
receiving a timer interrupt: the hardware raises it 60 times a second whatever
the player does, and the kernel keeps the bit pending until `driver_receive`
returns it.  Nothing is assumed of the player, the mouse or the keyboard, so no
liveness property waits for a key or a click; `PassivePlayerLoses` in
particular holds for a player who does nothing, or goes on clicking without
hitting.  It also covers a player who pauses, since a pause leaves `PLAYING`.

In `Lifecycle` the program runs on and the controller takes what it is given
(weak fairness).  Answers need an empty buffer that other bytes keep filling,
hence strong fairness: each look of the program empties the buffer, and a device
that has an answer sends it before anything new.  A port that the program uses
again and again can be used in the end (strong fairness of `PollFree` and
`GetByte`): the kernel calls fail now and then, not always.  That the mouse does not refuse
a command for ever is an assumption about the device; the retries have no limit,
so the code rests on it.  Nothing is assumed of the player, so the loop may last
for ever, nor of the system's handler.  In `LabScans` the program and the timer
run on, and nothing is assumed of keys and movements; in `Timer` likewise, for a
timer that is loaded and subscribed.  `MovingSprite` takes the assumptions of `Game`.

Deadlock is not an error in the runs of `Lifecycle`, `LabScans` and
`MovingSprite`, whose programs end, and of `Timer`, whose test waits for good
when a hidden failure has stopped timer 0 or its subscription was refused.

## Proofs

All theorems hold for every value of the constants that meets the named
assumptions.  Those of `Game` are `MatrixAssumption`, `TimesAssumption`,
`ScreenAssumption`, `LayoutAssumption`, `LeaderboardAssumption`,
`TimingAssumption`, `WidthAssumption`, `InputAssumption` and `FilesAssumption`;
the other modules have `InputPathAssumption`, `RtcAssumption`,
`MouseCmdAssumption`, `ProgramsAssumption`, `TimerAssumption`, `ScanAssumption`,
`KeysAssumption`, `MouseScanAssumption`, `ScreenInputs` and
`MovingSpriteAssumption`.  They are facts about the `#define`s, the types and the
devices; TLC evaluates them in every run of their module.  Every safety invariant and every safety action property that a passing
run checks is stated by a theorem.

| Theorem | Statement | Argument |
|---|---|---|
| `TypeCorrect` | `Spec => []TypeOK` | `TypeOK` is inductive, from the lemmas on what each operator returns |
| `KillerIsSafe` | `Spec => []KillerStays` | inductive with `TypeOK`: the only steps that enter or stay in `GAME_OVER` are the frame of the death and the fading frames (`GameOverSteps`); the spawn of the first takes a vacant cell, and the killer's is not |
| `BannerIsLate` | `FadeFits => (Spec => []BannerAfterFading)` | `BannerAfterFading` is not inductive: it says nothing before the banner.  `FadesInTime` bounds the frames each alien still needs, `time + 1 + 3 * (6 - state)`, by the frames left before the banner; a fading frame takes one off both sides |
| `MenuIsAlwaysClean` | `Spec => []MenuIsClean` | inductive: only `game_initialize` enters the menu |
| `CrosshairStaysOnScreen` | `Spec => []CrosshairOnScreen` | from the range of `Clamp` |
| `SpawnClockIsSound` | `Spec => []SpawnClockSound` | inductive; the subtraction is taken only when it does not wrap |
| `InputIsForBest` | `Spec => []InputOnlyForBest` | inductive: nothing changes `points` or `LB` while a name is typed |
| `TableIsOrdered` | `PointsFit => (Spec => []LeaderboardOrdered)` | needs that every file read is ordered (`FileOrdered`) and that scores fit their type; `AddScoreOrdered` is the lemma on `addScore` |
| `PauseIsFrozen` | `Spec => PauseFreezes` | needs that the program is either running or in `EXIT` |
| `AddedScoreIsKept` | `PointsFit => (Spec => AddedScoreIsInTable)` | `HoleExists`: the walk of `addScore` ends at some place (the naturals are well-founded); `AddScoreRotates`: the entries up to that place move down together with their names, the new one takes it, the others stay |
| `GameFollowsFlow` | `PointsFit => (Spec => Flow!Init /\ [][Flow!Next]_(Flow!flow))`, the safety part of `ImplementsFlow` | step by step under `FlowInv` (types, the ordered table, `running` or `EXIT`, a file that is given or empty).  `RotatedCount` gives a bijection between the indices of a value before and after, so `AddScoreSubmits`: the bag of the table loses one worst score and gains the new one; `CompareQualifies`: in an ordered table `compareScore`'s look at index 0 decides whether any entry is beaten |
| `InputTypeCorrect` | `Spec => []TypeOK` of `InputPath` | inductive together with "a byte is in the buffer at the read, and in `byte` after it" |
| `NoByteIsStuck` | `Spec => []NoStuckByte` | needs that `aux` describes the byte in the buffer: a handler that returns early has seen that the byte is the other device's, or that there was none |
| `KeysComeFromKeyboard` | `Spec => []KeysAreKeys` | once `kbc_ih` has seen a full buffer only itself can empty it, so the source it reads next is that byte's |
| `MixedIsPaidFor` | `Spec => []FaultsBoundMixed` | the property counts packets and says nothing of half a packet.  `Paid` follows the debt: the wrong packets, and whatever can still spoil one, are together at most `faults + marked`.  What can spoil one is an error bit or an `arr` that does not begin the packet the next byte continues (`Owing`), a run of `mouse_ih` that may find a key (`Stale`), and a data byte with bit 3 in the buffer or at hand, if its turn comes on position 0 (`ToMislead`).  `MouseOrder` says which byte comes next, `OneRun` that there is no second stale run, and `Clean` that before the first disturbance `arr` is in step, so that bit 3 is not looked at elsewhere |
| `AckIsTrue` | `LifeSpec => []AckMeansDone` | the property says nothing of a command on its way.  `AckInv` follows it as long as no wait was cut short: during the wait the command is in the input buffer behind its prefix, or with the device, or its answer is in the output buffer, and only in that case is the byte an answer; or the system took the answer, or the command was never written, and the wait goes on |
| `AnswersStayInStep` | `LifeSpec => []AnswersInStep` | `CountInv`: the answers outstanding are at most `cuts`, and one more during a wait.  A wait that ends on an answer takes it off, one that ends on anything else is counted in `cuts` |
| `ReturnIsClean` | `LifeSpec => []CleanReturn` | `LifeInv` gives for each step of each program what is set up there: the mode, the buffer, the subscriptions; a step that fails ends the program or leaves exactly what the code leaves |
| `Lab4LosesNothing` | `LifeSpec => []Lab4KeepsAnswers` | with `CmdInv`: as long as no wait was cut short `lab4` has no answer outstanding when it is not subscribed (`AnswersKept`), and `SystemTakes` cannot run otherwise unless the subscription was refused |
| `ModeIsKept`, `FrequencyIsSet`, `UnreportedFailureStops`, `ConfigShownIsTrue` | `Spec => []ModeKept`, and so on, of `Timer` | `TimerInv`: what a latched status and the half-written divisor of the chip hold, and which call has put it there; `Holds` says that a latched status is the timer's present one but for the output pin, the null count included: a failed call leaves the status latched and returns before it changes the timer; `WordParts` and `StatusFields` are the arithmetic of the two bytes and of the control word |
| `TestTakesItsTime` | `Spec => []TakesItsTime` | `TestInv`: the seconds counted are the ticks seen, divided by the rate (`NextSecond`) |
| `ScansTypeCorrect` | `Spec => []TypeOK` of `LabScans` | `ScanInv` ties the byte at hand and the length of `arr` to the place in the loop |
| `EndsOnlyForSilence` | `Spec => []EndsOnlyWhenIdle` | `SilenceInv`: as long as no byte waits to be seen, the counter of ticks is at most one ahead of the silence, and not at all while a tick is pending |
| `WrongIsPaidFor` | `Spec => []FaultsBoundWrongs` | `KeyInv` for `lab3` (`KeyDebt`: the wrong scancodes so far, and those a damaged byte at hand or a `flag2Bytes` out of step can still make, are at most two for each damaged byte) and `MouseInv` for `lab4` (the argument of `MixedIsPaidFor`, with one device) |
| `EveryRowInPlace` | `Spec => []RowsInPlace` | `DrawnOnScreen`: every sprite of every screen lies on the screen, from one lemma for each drawing function and one for all texts; then a row is drawn whole and `WalkInv`, the two offsets as functions of the row, is inductive |
| `SpriteStaysOnScreen` | `Spec => []SpriteOnScreen` | with both speeds 0 or the given one, a step taken back ends where it began; the sums do not wrap, as the screen plus a speed fits 16 bits |
| `ShownTimeIsReal` | `ReadsFit => (Spec => []ShownTimeWasReal)` | `RoomLeft`: after register A was read without `UIP`, `left + pc >= 16`, so no update can come before the hours are read; each operation takes one off `left` and adds one to `pc` |

`ReadsFit` is `Lead >= 10`.  `FadeFits` is
`alien_times[APPEARING] + 19 <= BANNER_DELAY`; with the values of `game.h` it is
24 <= 30.  `PointsFit` says that no game makes more points than a `uint8_t`
holds.

Only model-checked, since they are liveness under fairness:
`ShotAlienVanishes`, `PassivePlayerLoses`, `StuckOnlyIfTaken`, `EndsWhenIdle`,
`EscEnds`, `PacketsEnd`, `TestReturns`, `ComesToRest`, and the fairness part of
`ImplementsFlow`.

## Where the code departs from what is expected

The runs `save_lost` and `shot_above` each show a place where the code does not
do what a comment of it says.  The models contain more, some of which are limits
of the results above:

* the spawn part of `game_step` still runs in the frame of the death
  (`game.c:137`), so a new alien may live in the game-over screen although
  `game.h:184` says that all but the killer are killed; `BannerAfterFading`
  shows that it too is gone when the banner comes;
* `kbc_ih` reads the byte before its error bits (`keyboard.c:113-115`), so a
  damaged byte is handled, and a good one dropped, when the next one comes in
  between, although `keyboard.h:26` says it is discarded; `FaultsBoundMixed` and
  `FaultsBoundWrongs` bound what that costs;
* `vg_prepareGraphics` returns 1, which is true, when the mode is not known
  (`video_card.c:436`); the game then runs with a screen of no pixels.  It does
  not test its `malloc` either (`video_card.c:453`): the game would then draw
  through a null pointer, and `Lifecycle` has such runs but no property of them;
* the results of `sys_irqrmpolicy` are ignored (`game.c:87-89`, `lab4.c:82`), so
  a run can return success with a subscription still in force; `CleanReturn`
  excepts those the kernel did not remove;
* the game's commands to the mouse fall outside its subscription (`game.c:39`,
  `game.c:90`); an answer that the system takes is waited for without end.  So is
  the answer to a command that `sys_outb` did not write (`mouse.c:152`), as its
  result is ignored;
* `timer_set_frequency` returns `res1 & res2` (`timer.c:51`), which is 0 when
  only one of the writes failed; the timer then stands still.  The divisor is
  cut to 16 bits (a frequency below 19 Hz gives another one), and a timer that
  counts in BCD is given a binary divisor;
* `timer_display_conf` shows the counting modes 6 and 7 as 5 (`timer.c:115`);
  they are another way to write 2 and 3, and the field's values are "0, 1,.., 5"
  (`lcom/timer.h:40`);
* the failure of `timer_subscribe_int` is ignored (`lab2.c:54`): the test then
  waits for good;
* `read_command_byte` does not wait for its answer (`lab3/keyboard.c:76`), so
  `enable_interrupts` may write a scancode back with the interrupt bit set, and
  the other bits are lost; `write_command_byte` writes the byte also after its
  polls ran out (`lab3/keyboard.c:84-92`), and it then goes to the keyboard, with
  the interrupt still off.  `KbdScan` has both, and no property says that
  `kbd_test_poll` leaves the command byte right, as nothing in the code ensures it;
* at 1000 points `sprintf` writes behind `sc` (`game.c:117`); `Screen` leaves
  such scores out of the input screen;
* a score of 256 or more is stored modulo 256 (`leaderboard.c:91`): with
  `MaxPoints = UINT8_MOD`, `AddedScoreIsInTable` fails, and the order with it;
* the spawn interval goes 70, 65, .., 20, 15, 10, 5, 0 and only then to
  `ALIEN_MAX_SPAWN_RATE`, 20, for good (`game.c:222`);
* `read_ACK_byte` compares `ack_byte` before a byte was read into it
  (`mouse.c:127`), takes any byte with the value of an answer for one, and returns
  when the status cannot be read (`mouse.c:120`).  Each time the answer is left
  to the next wait, and from then on an ACK may be that of an earlier command:
  `AckMeansDone` holds up to that point only, and in the run it fails after it;
* `addScore` reads `scores[i]` before it tests `i < 10` (`leaderboard.c:83`), so
  the walk to the end of the table reads one byte behind it, with no effect on
  the result; `Passed` has the conjuncts without this read;
* a sprite passes its target when its steps jump over it, or when the target lies
  behind its start, and goes on to the border, although `lab5.h:119-120` calls
  `xf` and `yf` the "final" coordinates; `ComesToRest` says when which happens;
* a sprite with a speed that is not positive turns down at the right border,
  since the border clears `speed_x`, which also tells the direction
  (`lab5/video_card.c:254`); this is why `SpriteOnScreen` and `ComesToRest` are
  about positive speeds.

## Not modelled

Pixels and colours (nothing reads them back), the wording of messages, `printf`,
the images (data; `Screen` has their sizes), the drawing of patterns and
rectangles in `lab5` (pure output), `mouse_test_gesture` and
`mouse_test_remote` of `lab4` (commented out in the source), the subscription of
the real-time clock's interrupt (never called).

The vendored headers of Minix and of the course framework under `.minix-src`
make up nearly all the lines of the repository.  They declare an operating
system whose code is not here, and have no behaviour to model; what the programs
use of it (`driver_receive`, the interrupt policies, port accesses) is in the
models as they use it.  Of the programs' own code every function that changes
state is mapped, apart from the ones named above.

One timing is assumed and not shown: `WR_MOUSE` is taken by the controller
before the command byte follows it (`mouse.c:152` writes without looking).

## Plan

1. `InputPath` as an implementation of the input of `Game`.
2. Failing status reads in `InputPath` and `ScanLoop`, with properties that say
   what they cost, as `cuts` does for the commands.
