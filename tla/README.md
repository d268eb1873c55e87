# A formal model of the ECE 385 tank game

The repository is a two-player "Battle City" game for the DE2-115 board: a
SystemVerilog design (VGA output, game logic, sound) and C firmware for a
Nios II processor that reads a USB keyboard, on top of a generated board
support package.  This directory holds TLA+ modules for the game logic, the
firmware and the drivers it runs on, the TLC configurations that check them,
and proofs for TLAPS.

Paths below are relative to
`src/final_project_503/final_project_503/final_project_502/final_project502/final_project_428/`.
"Report" is `src/ECE 385 Final Project Report.pdf`.

## The system

| Component | Files | State | Interacts with |
|---|---|---|---|
| Game flow, lives | `lab8.sv` | `State` (9 states), five 6-bit lives registers, `Reset_hi` | reads the keycode, the menu machines and the hit wires; drives `mode`, `Reset_tank`, `lives_activate`, `enable*` |
| Menu machines | `selector.sv` | `tanks_selector` (6 states), `en_draw` (7 states, `en_num`), both at `VGA_CLK` | keycode in; mode, `chosen`, `en_num` out |
| Player tanks | `ball.sv`, `tank2.sv` | start-up machine, position, motion, direction | stop signals in; position and muzzles out |
| Walls | `wall.sv`, `wall2.sv` | none | positions of tanks and bullets in; stop signals and hit wires out |
| Player bullets | `bullets.sv`, `bullets2.sv` | 7-state machine, two 26-bit counters, position, motion, direction | shoot keys, muzzles, stop signals |
| Enemy bullets, enemy walls | `enemy_wall.sv` | as the player bullets | shot continuously |
| Enemy tanks | `enemy.sv` | position, motion, `idx`, counter | pursue the player's position |
| VGA controller | `VGA_controller.sv` | line and column counters, sync registers | `VGA_VS` is the frame clock of tanks and bullets |
| Audio | `audio_controller.sv`, `audioRAM.sv` | 4-state machine, sample address | codec interface `audio_interface.vhd` |
| USB keyboard | `software/final_proj/main.c`, `usb.c` | enumeration step, retries, toggle, keycode PIO | EZ-OTG chip over HPI |
| JTAG UART driver | `software/final_proj_bsp/drivers/` | two ring buffers, copy of the control register, host timeout | `printf` above, interrupts and the host's cable below |
| HAL descriptors | `software/final_proj_bsp/HAL/` | descriptor pool, high-water mark, device list | `printf` above, the UART driver below |
| HPI bus | `io_handler.c`, `hpi_io_intf.sv` | one register stage | firmware, chip |
| Drawing | `Color_Mapper.sv`, `sp_addr_lookup.sv`, `heart*.sv`, `palette.sv`, ROMs | none | everything above, in; pixels out |

What is hard here: there are no processes, but three clock domains (`Clk`,
`VGA_CLK`, the frame) and a firmware loop, all reading each other's registers.
The firmware polls a controller that answers on its own, and its output shares
two rings with an interrupt routine.
A decision is taken on values of the edge before; a frame is 840,000 edges; a
key press lasts millions of them; position and lives registers are unsigned and
wrap.  `PROJECT.json` lists the hazards with the line where each bites.

What makes each component correct:

- flow and menus: a screen is entered only with the choices it depends on; one
  press, its release included, moves one screen at most; a reset reaches both clock domains; no wait state
  traps the game; lives start full, do not wrap, and the result stands;
- tanks: stay on the board, do not enter the letters or each other;
- bullets: a bullet that strikes costs its target exactly one life, a muzzle at
  rest costs none;
- enemies: do not keep a direction that is blocked, and their bullets cost one life
  each;
- VGA: the counters stay in 800 x 525, one frame edge per frame;
- firmware: the loop never waits for a message that was cleared, a request whose
  first TD failed is not passed over, a report arrives whole, a replug ends in polling;
- UART driver: each direction is a stream, and no interrupt enable is lost;
- descriptors: none is lost, a lock keeps others out, `printf` reaches the UART.

## Modules

| Module | What it is |
|---|---|
| `Selector` | next-state functions of the two menu machines |
| `GameFlow` | `State`, menus, lives, reset: one step per `Clk` edge |
| `MCGameFlow` | `GameFlow` with history variables for TLC |
| `GameFlow_proofs` | theorems about `GameFlow` and `MCGameFlow` |
| `Wall` | the letters: strokes as drawn, bands as tested |
| `Tank` | a tank with arbitrary stop signals: one step per frame |
| `TankOnBoard` | the tank with the stop signals of `Wall` |
| `MCTankOnBoard` | sets of keys for TLC |
| `Tank_proofs` | theorems about `Tank` and `TankOnBoard` |
| `Encounter` | what depends on the distance of two tanks, or of a bullet and a tank |
| `Duel` | two players' tanks, a bullet and the lives it costs; extends `Encounter` |
| `Duel_proofs` | theorems about `Duel` |
| `Hunt` | an enemy, its bullet and the player; extends `Encounter` |
| `Hunt_proofs` | theorems about `Hunt` |
| `TransferLists` | the transfer descriptors that `usb.c` writes, and what USB expects of them |
| `UsbKeyboard` | the firmware's loop, the USB controller and a keyboard |
| `UsbKeyboard_proofs` | theorems about `TransferLists` and `UsbKeyboard` |
| `ByteStream` | abstract: one direction of a character device |
| `JtagUart` | the interrupt-driven UART driver, the device and the host; implements `ByteStream` twice |
| `JtagUart_proofs` | theorems about `JtagUart`, its refinement among them |
| `FdTable` | the descriptor pool from start-up on |
| `FdTable_proofs` | theorems about `FdTable` |

### GameFlow

A step is one edge of `Clk` (`ClkEdge`), at which all registers take the next
value together, or a movement of the inputs between edges (`Inputs`).  `vga`
says whether the next edge is also one of `VGA_CLK`, which the PLL makes by
halving `Clk`; both phases are initial states.  The states of the flow are
actions of their own (`Background` ... `ShowEnd`); a reset overrides them in
`FlowEdge`, as in the `always_ff` block.

Abstractions:

- The keycode word is the class of its low byte (`Keys`: no byte, up, down,
  confirm, quit, other, which is all that the comparisons tell apart) and
  whether another byte is set.  The keyboard packs pressed keys from byte 0, so
  a clear low byte is a clear word.  `Chords = FALSE` leaves out Q together
  with another key.
- Which hit wires are high at an edge is any subset of those whose gate
  (`enable1`, `enable12`, `enable2` in `wall.sv` and `enemy_wall.sv`) is open.
  Only `wall2.sv` leaves its wire (`player1_hit`, 62-66) ungated; it is read
  where the register asks `enable2` itself (`Counts`), so no behaviour of the
  lives is lost.  Geometry may exclude some of these subsets; `Duel` looks at
  that.
- Two enemies hitting at one edge cost one life, as the two assignments in
  `lab8.sv` 327-334 do.
- `StartLives` and `LivesMod` stand for 5 and 64.

`MinHold` is the number of edges for which the inputs hold still.  The firmware
sleeps 200 us between two writes of the keycode PIO (`main.c` 556-558), 10,000
edges, and a push of the button is longer.  The run uses 6.  `MenuStaysOpen`
proves that 5 are enough for `MenuOpenUnlessChord`; with 4 it fails: a confirm key
that finds the start menu in a wait state takes four edges to a decision, and
the flow needs the key for one more.

### Tank, Wall, TankOnBoard

The tank registers are clocked by `Clk` but move only at the first edge of a
frame, so a step is a frame (`Frame`), or one of the start-up steps in which
the registers are loaded.  `FIRST` may last: `tank2` waits there for two-player
mode, `tank1` does not, which only makes `tank1` a special case.  A frame adds
the OLD motion to the position and tests limits and stop signals at the OLD
position; this one-frame lead is what the properties are about.

`Wall` keeps two descriptions apart: the strokes as drawn, and the bands as
tested for each direction.  The slanted stroke of the N has its bands in the
model but is left out of `StrokesSolid`: it has no horizontal or vertical edge
to measure a depth against.  Other tanks may add stop signals (`OtherStops`).
A stop signal has the effect on position and motion of pressing no key, so the run
leaves them out; the proof does not.

### Duel

`ball.sv`, `tank2.sv`, `bullets.sv`, the player-against-player tests of
`wall.sv` and `wall2.sv`, and `player2_lives` of `lab8.sv` together.  Every one
of those tests compares differences of positions, so the second tank is placed
relative to the first (`at`) and the bullet relative to the second (`b`), and
the state space does not depend on the board.  tank1 shoots; the other way
round is the same with the names exchanged (`bullets2.sv` differs in key and
mode).  `Frame` is the first `Clk` edge of a frame, at which both tanks and the
bullet move by what the edge before left; the other actions are edges between
two frames.

Abstractions: what depends on the place (letters, border) may stop tank1 at any
frame and end a flight at any frame; a tank2 that is stopped so behaves like one
whose keys are up.  The run-out counter may reach its end at any edge.  The
explosion lasts 15 * 2^18 edges of 840,000-edge frames, 4 frames and two
thirds, which `timer` counts.  `NOBULLET_WAIT` lasts one edge in which nothing
changes and is part of `Fire`.  `Scenes` picks which tanks drive which way:
head on along a row with shots, a target crossing the line of fire, a tank
driven all round a parked one, and both driven anywhere.

Contact (`Drain`): a bullet that is not out rests on the muzzle, and the hit
wire is high at every edge at which the muzzle lies in the opponent.  Two tanks
that drive at each other head on do end with a muzzle 1 to 3 pixels inside the
other, and all lives are gone before the next frame.  `ParkedUntouched` says
where this cannot happen.

### Hunt

`enemy1` of `enemy.sv`, `enemy_bullets` and the tests against the player in
`enemy_wall.sv` (`enemy2` repeats them), with the player's tank as in `Duel`.  The
enemy is placed relative to the player.  `Decide` is the edge at which `counter`
comes round and `idx` follows the player: the shortest of the ways that are not
stopped, or, near the player, none if it is in its column or row and else the way it
has.  The next edge clears `idx` if that way is stopped, which is the second half of
`Decide`, and of `Drive`: the position is new an edge after the frame begins, and the
stop signals with it.  The enemy moves by the motion of the same frame, the
player by that of the frame before.

A decision comes every 2^24 + 2 edges; here it may come between any two frames, but
not on the edge at which a frame begins.  The two coincide about once in 140,000
decisions.  Letters, borders and the other enemy are `elsewhere` and `InTheWay`: they
may stop the enemy in any direction, or the player, at any moment.  They may also bar
a direction for a whole scene, which keeps the runs small; the proof covers all
scenes.  `border` is the comparison with `playerX - 2`, which wraps for a player at
the left border, so that an enemy above it never takes aim.

After a flight or an explosion the bullet is undrawn for three edges and the hit wire
sees it: one where the bullet was, two on the muzzle of the last shot (`Reload`).
The muzzle of an enemy that looks down is in its middle: `enemy.sv` 45 wires
`Down_mid_Y` to `Right_mid_Y_en1`.  An enemy that is near the player but in
neither its row nor its column keeps the way it has, and stands still for good if that was
none and the player does not move; nothing says that it should not.

### TransferLists, UsbKeyboard

`TransferLists` holds the ten lists of transfer descriptors of `usb.c` and
`main.c` with their hand-written addresses, lengths, toggles and next pointers,
and judges them by what a control transfer needs.  `UsbKeyboard` runs them.  A
step of the firmware is an HPI transaction, or the run of writes that loads a
list and ends with the pointer that starts it; `pc` is where `main` is, named
after the code, and `step` the request.  All nine requests go through the same
actions, as their code does.

External, modelled from what the firmware relies on: the CY7C67200 takes
commands before lists, runs the TDs in order, puts `HUSB_TDListDone` in the SIE1
message register and raises a flag that reading the register clears; a failed
TD ends the list, with a message; `control` is the word of the first TD, which
the firmware compares with 0x03.  The keyboard takes its address and
configuration at the end of their lists, alternates its toggle, and holds a poll
back while it has nothing new.  A packet whose toggle is wrong is still written to
the buffer.

Assumptions and what they leave out: a keyboard that answers at all does so
within the 10 ms sleep (`Usleep`), or is late as one of the `MaxFaults` faults,
and a keyboard is put back in only while the
firmware waits for one (`Plug`), as hands are slower than the polling loop.  The
TD that `main.c` 360-366 writes has its active bit clear and starts nothing.
The state of the lines during the bus reset, other bits of HPI_STATUS, interrupt
masks, printing of descriptors and `data_size` are left out.  Only the parity of
`toggle` is used by the code, so one bit stands for the `alt_u8`.
The mailbox's flag is up exactly when an acknowledgement is in it, so it is not a
variable; the register of the game is kept as the report both halves belong to,
or `"torn"`.

Observation (hazard `main.c:524`): between reading the flag and loading the list
again, the answer may come in, and the list is then loaded over an answered one
(`doubled`).  The second answer arrives when the firmware no longer expects it:
it may take the message of the wrong list, or wait in `UsbGetRetryCnt` for a
message that no list is left to send.  So the properties say "unless doubled", `Doubled` is an
exception in the liveness properties too, and the run does not check for
deadlock, because this one is real.  Without the exception `NeverStuck` is violated.

What the properties allow, because the code does it:

- a failed status stage of SetConfig is not looked at (`hidden`, hazard `main.c:388`):
  `PollsConfigured` then promises the address alone, and the keyboard never answers.
  Failed data stages of other requests are passed over too; their descriptors are
  only printed;
- the status of a poll is not looked at (hazard `main.c:551`): after one that failed the
  game is given the report before it, and after a failed first poll words of the last
  transfer list as keys.  `last` starts as `"td"` for this, and `KeycodeWhole` says
  that nothing else is ever given;
- a toggle that is out of step when polling begins, or after a failed poll, stays so
  (`agree`, hazard `main.c:504`): `TogglesInStep` speaks of the moves of the two alone;
- the word at the game stays while no keyboard is plugged in (hazard `main.c:577`).

### ByteStream, JtagUart

A step is one access of the caller (`pc`) or of the interrupt routine (`isr`) to
what they share: both are compiled without optimisation, the caller may be
interrupted between any two accesses and the routine is not.  `tx_in` belongs
to the caller, `tx_out` to the routine, `rx_in` and `rx_out` the other way
round; each side works on local copies (`call`, `loc`) that may be old when
they are used.  The host takes and types characters, and comes and goes, at any
moment.  `setting` separates sending, receiving, and sending on a system with a
clock: the two directions share only the routine's dispatch, which takes both
branches in each of them.  This build has no timer, so `alt_ticks_per_second()`
is 0 and `timeout` is INT_MAX; the `clock` setting covers the compiled code for
a build that has one.

`ByteStream` is what each direction promises: characters come out in order,
none lost, none twice, at most `Capacity` under way.  `WrittenIsHeard` and
`TypedIsRead` are the two refinements: `put`, `heard` and `typed`, `handed` number
the characters as they pass the outer ends.

### FdTable

One action per call: start-up (`alt_sys_init`, then the three redirections of
`alt_io_redirect`), `open`, `close`, `ioctl` TIOCEXCL and TIOCNXCL, `fcntl`
F_SETFL.  There is one thread and the pool's semaphore is compiled away, so a
call is a step.  `held` is a history variable: what the caller of each
`open` believes of its descriptor.  No file system is registered, so every name
is a device.  `O_APPEND` goes the way of `O_NONBLOCK`.

## Runs

| Run | Checks | Bounds |
|---|---|---|
| `flow` | types, choices behind each screen, enemy lives, fresh start, settled number of enemies, standing result, one screen at most from a key to the next, a start screen that is open unless Q came with another key, reset in both domains, wait states that are left | 3 lives in a register of 8 values, all chords |
| `flow_end` | violated: `EndShowsResult` | 2 lives in a register of 4 values, no chord with Q |
| `flow_menu` | violated: `MenuOpen` with chords | 2 lives of 4, all chords |
| `board` | types, on the board, strokes solid | the real board, every position |
| `board_letters` | violated: `LettersSolid` | the real board |
| `duel` | no driving through, parked tanks keep their lives, a shot costs what it should | 2 lives; tanks followed to 26 pixels apart, the bullet to 30 |
| `hunt` | an enemy's bullet costs a parked player one life at most, and one if it explodes in the player | the player parked; enemies driving along a row or a column, followed to 36 pixels, bullets to 40 |
| `hunt_meet` | violated: `EachBulletOneLife` | a player that drives left and right, nothing else near |
| `usb` | lists not overwritten, never stuck, a polled keyboard has its address and, unless SetConfig failed unseen, its configuration, toggles, whole reports, removal noticed, keyboard comes up, keys arrive | one key, one re-read of the port, one failed or slow transfer |
| `uart` | types, both streams, interrupt enables, calls return, accepted is sent, typed is received | rings of 3, FIFOs of 2, 5 characters, calls of 2 |
| `fd` | types, high-water mark, no leak, descriptors keep their meaning, standard streams, locks | 6 descriptors, 2 devices and an unknown name |
| `fd_lock` | violated: `GrantedAlone` | as `fd` |

Why the bounds are enough: no guard compares lives with anything but 0 and the
starting value, so 2 or 3 lives show a first hit, a last hit and a wrap; the
wrapped value must exceed the starting one, which `LivesAssumption` asks.  The
board runs use the true coordinates and explore all 316,371 states of the first
tank; the second tank starts 428 rows higher and reaches the same positions.
Several keys together act as the one that wins, so single keys cover them.

`duel`: two tanks more than 23 pixels apart do not affect each other, and two
frames close 8 of them; the proofs do without `Reach` and `Far`.  With 2 lives a
shot is not the last one, and then is.  `hunt`: the enemy
starts beyond 30 pixels, where it pursues, on rows and columns in which it takes aim
(1), passes close (6, 7) or aims straight (0), and reaches the player on all four
sides.  `usb`: the 5 and 7 re-reads of the port
only delay, and one shows a port that changes between two of them; one
fault may hit any transfer of any list, and every restart begins as the first
time, so a second fault meets states already seen.  `uart`: rings of 3 wrap, fill
and empty, in pieces that do and do not reach the end; a call of 2 is split by
every position of the ring; 5 characters go round it more than twice.  `fd`: the
three standard descriptors and three more, so that a refused open can raise the
mark above a hole.

The invariants of `flow` that are proved below are also run:
TLC checked them first.

### What the violated runs show

- `flow_end`: the lives registers count at every edge and the flow needs one
  edge to leave the game.  A hit wire high for two edges takes the register
  through zero to the maximum while the flow goes to END, where no branch of
  `sp_addr_lookup` applies.  Report p. 5: "There are four possible endings in
  this game", each with its picture.
- `flow_menu`: END is left when the low byte is Q, a reset asks for the whole
  word to be Q.  With a second key down the start screen comes up with the old
  mode confirmed.  Report p. 2: the "player can change the game mode".
- `board_letters`: `wall.sv` 270 (and `wall2.sv` 161) bounds the band over the
  right stroke of the N with `Ball_X_Pos + size < 230` where the others use
  `Ball_X_Pos`.  A tank at 212 drives down inside the stroke.  Report p. 4: the
  movement "is restricted by the ILLINI walls".
- `hunt_meet`: the band that stops an enemy is 2 or 3 pixels wide and an enemy and
  a player that drive at each other close 3 a frame.  They pass over it, the enemy's
  muzzle is inside the player, and one bullet costs 3 lives at the three edges
  between two shots.  Report p. 4: "Each bullet costs one life."
- `fd_lock`: `alt_fd_lock.c` 61 looks at the descriptors below `alt_max_fd`,
  which is itself in use (`alt_file_locked` in `alt_open.c` uses `<=`).  With the
  device open twice, the lower descriptor gets the lock.  `alt_fd_lock.c` 43-45:
  the lock is granted if there are no other open descriptors of the device.

### Fairness

`Spec` of `GameFlow` assumes `WF_vars(ClkEdge)`: the oscillator of the board
never stops, so an enabled edge comes.  Nothing is assumed of the inputs; the
two liveness properties hold for every player (`ReleaseFreesFlow` only of one who
releases the keys).  `Tank`, `Duel`, `Hunt` and `FdTable` have no liveness property and
no fairness.

`UsbKeyboard`: weak fairness of the firmware, which is the only program on its
processor, and of the controller, which runs its lists by itself.  Nothing is
assumed of the user or the wire; the premises say `<>[]attached` where a keyboard
must stay in.  `JtagUart`: weak fairness of the caller's steps and of the
interrupt (one processor that executes both), of the clock, and of a host that
stays attached, which empties the FIFO; of the caller no call is expected.


## Proofs

`GameFlow_proofs`, for every number of lives, register width and hold time:
`TypeCorrect`, `ChoicesMadeAlways`, `EnemyLivesSafe`, `FreshStartAlways`,
`EnemiesSettledAlways`, `ResultStandsAlways`.  All rest on `FlowInvariant`.
The properties are not inductive alone: the number of enemies is settled in
END only because the enemy menu is then on a choice whose number is already
shown or is done.  `FlowInv` adds `WaitingOnScreen` (the enemy menu is between
choices only on its screen, or for one edge after a reset), `NumberShown` (the
register holds the number of the choice) and `EndHasMode`.  There is a lemma
for each conjunct under `ClkEdge`; `Inputs` changes nothing they speak of.  The
assumptions are `LivesAssumption` and `InputsAssumption`; `MinHold` may even be
0, so none of these depends on the inputs holding still.

Two theorems are about key presses (`MCGameFlow`).  `OnePressOneScreenAlways`: a press
counts until the next key shows, so its release, at which the screens change, belongs to
it; `spent` remembers that it moved one.  From then on no confirm key is held, and
the flow is in no wait state (`PressSpent`).  `MenuStaysOpen` does depend on the inputs holding still, for 5 edges,
a hypothesis of the theorem: `MenuInv` counts from the edge at which the inputs
moved and says how far the flow and the menu, at half the rate, have come with a
reset (`ResetTaken`), a confirm key (`ConfirmTaken`) and the step from the decision to
the next screen (`DecisionTaken`).

`Tank_proofs`, for every even start within the limits, every set of keys and
any stop signals: `TankStaysInField`.  The bound alone is not inductive: a tank
standing on the limit with a motion pending would leave.  `TankInv` adds that
positions are even, so that a limit cannot be missed, and that a pending motion
has a step of room.  `BoardImplementsTank` then shows that every step of
`TankOnBoard` is one of `Tank`, and the bound carries over
(`BoardTankStaysInField`, `BoardTankTypeCorrect`).

`LettersAreSolid`, for every start outside the letters, any keys and any stop signals of
other tanks: `StrokesSolid`.  It becomes inductive with the place where the pending
motion leads (`OutsideAhead`) and motion along one axis (`OneAxis`).  What is left is
one lemma per direction (`RightIsStopped` ...): a tank that was at one even
position, is a step further on and found no stop signal before, has room for
another step.  Each goes letter by letter, since not every side of a stroke has a band:
where two strokes join, a tank would be in the other one already.

`Duel_proofs`, for every number of lives and without the bounds on distance:

- `NotThroughAlways`.  Overlapping by 3 pixels at most is not inductive: a tank
  moves by the motion chosen a frame ago, so a state with a good position and a bad
  motion pending would leave it.  `ApartInv` adds the position after the next
  frame, even distances, and the exclusion of one corner case, 14 and 16 pixels
  apart, from which two moves round the corner would meet (`Corner`).  The
  argument is two frames deep: `StopsHold` turns both tanks' stop signals into
  "neither comes nearer along this axis", and `TwoFrames` is the arithmetic.
- `ParkedUntouchedAlways`, in the same way with `ParkedInv`: beside a parked tank
  is 20 pixels off along an axis, or at a corner.
- `ShotSettlesAlways`.  What carries the promise to the edge where the hit counts:
  until then the shot has cost nothing, and a bullet that met a tank that stays
  is still in it (`ShotInv`).

`Hunt_proofs`, for a parked player in every scene and without the bounds on
distance: `ParkedOneLifeAlways`.  `OneLifeInv` says that a free pixel is left all round the
player (`Clear`), which is inductive only with a way that is never a stopped one
(`Settled`): `StepKeepsClear` is the step of one pixel.  With that pixel no muzzle
lies in the player (`MuzzleOutside`), so of the three edges of `Reload` only the first can hit,
and it does if the bullet exploded in the player (`Struck`).

`FdTable_proofs`, for every size of the pool above 3, every set of names and
every assignment of the standard streams: `TypeCorrect`, `SearchesSeeAll`,
`NothingLeaks`, `HeldKeeps`, `StdioReaches`, `LockIsKept`.  `IInv` joins the
invariants with four facts they lean on: nothing is held or locked before start-up
is over (`BootInv`); the first three descriptors never enter the pool
(`StdInv`); only a descriptor that `open` has marked is ever locked, and none
above the mark is marked (`MarkInv`, which is `HighWater` for the first three too);
and how far each redirection has come (`AttachInv`).  `LockIsKept` is the action
property: by `MarkInv` the search of `alt_file_locked` sees every lock there is.

`JtagUart_proofs`, for all sizes of rings and FIFOs and all bounds on calls:
`UartTypeCorrect`, `SendingIsKicked`, `ReceivingIsArmed`, and the refinement,
`WrittenCharactersAreHeard` and `TypedCharactersAreRead`.  The caller and the interrupt
routine share the rings without a lock, so what one has read may be old when it
is used.  `UartInv` says what is still true of it: the room or the characters that the
caller has counted are still there (`CallInv`), as is the space of the FIFO that the
interrupt routine has read (`SpaceInv`).  The characters accepted and not yet heard
are those in the FIFO and then those in the ring, in order, and the ones being copied lie
beyond them (`TxInv`; `RxInv` for the other direction).  The lemmas these need are the
arithmetic of a ring: how `Ahead` and `Used` change when an index moves.  With the
invariant, each step is shown to be a put, a get or a stutter of the stream.
`SendingKicked` and `ReceivingArmed` are parts of the invariant themselves.

`UsbKeyboard_proofs`, for any number of faults: `RequestsFit`, `ListsAreUntouched`,
`FirmwareIsNeverStuck`, `PolledKeyboardIsConfigured`, `PollTogglesAreInStep` and
`KeycodeIsWhole`.  That the lists are well formed is a fact about the ten lists of
`usb.c`, proved once (`ListsWellFormed`).  The rest is `UsbInv`: each running list has no
answer yet and each answered one exactly one (`MessageInv`), a command that is still
pending when the first list is loaded finds that list at its start (`CommandInv`),
at which steps the keyboard has its address (`AddressInv`) and configuration
(`ConfigInv`), the toggles (`ToggleInv`), the words where reports arrive, which the lists
cover from the second on (`BufferInv`), and the halves of a report (`ReportInv`).
These hold until a list is loaded over its own answer, which the code can do (the
observation under `UsbKeyboard` above); from then on only `TypeInv`, `FlowInv` and
`BufferInv` remain, and with them `ListsAreUntouched`.

Model-checked but not proved are the liveness properties alone: `ResetReachesAll`,
`ReleaseFreesFlow`, `WritesReturn`, `AwayReleases`, `AcceptedIsSent`, `TypedIsReceived`,
`RemovalNoticed`, `KeyboardComesUp` and `KeysArrive`.  They need fairness and ENABLED,
which are out of TLAPS's reach.  Every other property of a passing run is a theorem.

## Not modelled

- Where the letters stop an enemy or its bullet, and the exact bands of the two
  enemies against each other (`enemy_wall.sv` 42-102, 124-180): `Hunt` lets anything
  but the player stop them at any moment.
- Where the letters stop a bullet (`stop_bullet` in `wall.sv`,
  `stop_bullet2` in `wall2.sv`): `Duel` lets
  a flight end at any frame, which covers it.
- VGA counters: no inputs and no choice, so one simulated frame is exhaustive.
- Audio: what could go wrong is the codec interface, supplied VHDL of the
  course, and a register clocked by one of its signals; a model of whole edges
  says nothing about that.
- The HPI bus cycle: `io_handler.c` drives its wires by five writes, each many
  edges of `Clk` apart; whether they are slow enough depends on the access time
  of the chip, which nothing in the repository states.  `UsbKeyboard` takes a
  transaction as a step.
- The rest of the board support package: start-up code, caches, traps,
  profiling and logging.  The HAL's clock functions are dead in this build,
  which has no timer.  `cy7c67200.h` and `system.h` are tables of constants.
- Palettes, picture memories, address arithmetic and colour selection (tables and
  layout, no control); the unused lab modules; the PLL.

Next, for the proofs: that a letter stops a bullet, once it is modelled, and the
bands of the two enemies against each other.
