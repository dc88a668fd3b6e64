# TLA+ verification of rustarus

rustarus is a BASIC operating system for bare x86-64 machines: a UEFI
application that takes over the machine and runs a line-numbered BASIC on one
processor, with a PS/2 keyboard, a frame buffer, and an AHCI or IDE disk. There
are no threads. All concurrency is between the foreground program, two
interrupt handlers (timer and keyboard) and the devices (disk DMA, GPU).

Sources are named relative to `src/src/` below.

## Inventory

| Component | Source | State | Operations | Hard part | What makes it correct |
|---|---|---|---|---|---|
| Key ring, halting waits | `os/interrupts.rs` 47-178, 311-318; `basic/exec.rs` 1011-1023 | `KEYBUF`, `KEYBUF_HEAD`, `KEYBUF_TAIL`, `TICKS` | `keybuf_put` (interrupt), `keybuf_read_blocking`, `keybuf_try_read`, `keybuf_flush`, `DELAY` | shared with an interrupt and no lock; test and `hlt` are two steps | a bounded FIFO; no wait lasts for ever |
| Keyboard decoder | `os/interrupts.rs` 87-104, 320-404 | `SHIFT_HELD`, `CTRL_HELD`, `E0_PREFIX`, `KEYSTATE`, `LAST_SCANCODE`, `LAST_ASCII` | one interrupt per byte | meaning spread over bytes; fake Shift bytes; end of interrupt on each path | types what was meant; modifiers never stick |
| Heap | `heap.rs` | `FREE_LIST`, headers in the arena | `heap_alloc`, `heap_free`, `heap_realloc` | splits and merges in any order; exact boundaries | blocks tile the arena, ownership is exclusive, nothing is lost for good |
| File system | `os/fs.rs` | header sector, directory sectors, data sectors | save, load, delete, format, list | several sector writes per call, each of which can fail | a map from names to contents; a failed call harms its own file only |
| Disk driver | `os/ahci.rs`, `os/ata.rs` | command list, one shared DMA buffer, active port, status | init, read, write sector | polling with time-outs, late DMA, sticky errors | a read returns the sector it asked for |
| BASIC interpreter | `basic/exec.rs`, `basic/mod.rs` | program lines, `pc`, FOR and GOSUB stacks, variables, data pointer | statements, RUN, BREAK, LOAD, SAVE, EDIT, the read-evaluate loop | a running program changes its own lines under saved indices | control returns where it should; program text survives SAVE and LOAD |
| Expressions, tokens | `basic/parser.rs`, `token.rs`, `value.rs` | random seed | tokenise, evaluate, format numbers | eight levels of operators, signs that are prefixes too, parentheses that are subscripts too | a program computes what its writer meant |
| Text console | `console/term.rs` | cursor, wrap flag, escape state, shadow buffer, dirty rows | putchar, escape sequences, scroll, hold and release | incremental flushing; escape sequences split over calls | the screen shows the shadow buffer; the cursor stays inside |
| Graphics | `drivers/graphics.rs` | mode, shadow, saved screen, dirty rows, page drawn | modes, drawing, present | two pages, saved text screen | what was drawn is what is shown |
| GPU drivers | `drivers/gpu.rs`, `bga.rs`, `vmware.rs`, `nvidia.rs` | device registers, command FIFO | update, page flip | undocumented registers | the page asked for is displayed |
| Editor | `edit.rs` | none (external crate) | run | file names and sizes beyond BASIC's | a saved file can be loaded |
| Boot | `main.rs` | memory layout | once | smallest memory | regions do not overlap |
| Page attributes, PCI | `os/pat.rs`, `os/pci.rs` | page tables, configuration space | once | walk over mixed page sizes | each page of the range is visited |
| Speaker, serial, port I/O, font | `os/speaker.rs`, `os/io.rs`, `console/serial.rs`, `console/font.rs` | none | single instructions | none | - |

Interactions: the keyboard interrupt calls `keybuf_put`; the interpreter, its
`read_line` and the editor read the ring; `RUN` polls it for ESC before each
statement; the editor flushes it. Program lines, arrays and strings are `Vec`s in
the heap, which interrupt handlers never touch. `SAVE`, `LOAD` and the editor
call the file system, which calls the disk driver one sector at a time. Console
and graphics share one shadow buffer and take turns by mode.

## Modules

| Module | Role |
|---|---|
| `KeyQueue` | abstract: a bounded queue, what the ring promises |
| `KeyRing` | the ring, the timer, `hlt` and `DELAY`, one step per access to a shared word |
| `Keyboard` | the scancode handler, with the keyboard and its user as environment |
| `KeyInput` | composes `Keyboard` and `KeyRing`: one interrupt decodes a byte, puts the key and ends the halt |
| `Heap` | the allocator with three kinds of client call and the contents of memory |
| `FileStore` | abstract: files as a map, what the file system promises without faults |
| `FileSystem` | the file system, one step per sector write, with faults between writes |
| `SectorStore` | abstract: one sector at a time is read or written, what the disk driver promises |
| `Disk` | both disk drivers and the device, one step per poll, copy or command |
| `ProgramFlow` | abstract: which line of a program comes next, in terms of line numbers |
| `Expressions` | the tokeniser and the parser, which computes as it goes; arrays and strings read |
| `Assignments` | what LET, DIM, READ and DATA make of variables, arrays and strings |
| `Interpreter` | program lines, `run`, control flow, assignments, LOAD, BREAK and the loop that reads what the user types |
| `Listing` | the text SAVE writes and LOAD reads |
| `Meaning` | the reference for `Expressions`: what a tree means, how it is written, and that LET and READ assign it |
| `Console` | the text console: cursor, deferred wrap, scrolling, escape sequences, shadow and frame buffer |
| `Graphics` | graphics modes, drawing, dirty lines, two ways of showing, the saved text screen |
| `Screen` | composes `Console` and `Graphics`, which share both buffers, as a BASIC session uses them |
| `KeyRingProofs`, `KeyboardProofs`, `HeapProofs`, `DiskProofs`, `FileSystemProofs`, `ConsoleProofs`, `ScreenProofs`, `InterpreterProofs` | theorems about the module of that name, for every value of its constants |
| `MCKeyboard`, `MCKeyInput`, `MCHeap`, `MCFileSystem`, `MCDisk`, `MCInterpreter`, `MCScreen` | constants and symmetry for the model checker |

Definitions keep the names of the source (`keybuf_put`, `ticks_needed`,
`keyboard_handler_inner`, `split`, `find_free_sector`, `fs_save`, ...).
`PROJECT.json` maps each to its lines. A definition that a comment calls a mutant
is used by no action. It is a plausible bug: put in the place of the definition
that follows it, it makes a property fail, and so shows that the property can.

### KeyRing

One processor; a handler runs with interrupts disabled and is one step. The
foreground is interrupted between any two of its accesses, so each read or write
of head, tail or a slot is an action (`ReadHead`, `FindNothing`, `FindKey`,
`RereadTail`, `LoadFirst`/`Advance` or `AdvanceFirst`/`LoadLast`, `Flush`). The
index words are volatile and the slots are not, so a slot may be loaded before or
after the write that frees it; both are modelled. `halted` is the `hlt`
instruction: an interrupt that came before it does not end it. `left` is the
number of ticks still to come before `DELAY` may end (the difference of `TICKS`
and `start_ticks` counted down). `lost` and `given` record results for the
abstract queue and influence nothing. Refinement mapping: the queue is the window
of slots from tail to head; the key in the hand of a reader that freed its slot
first is `buf[t]`; a flush marks how many keys it will discard when it reads the
head; a try-read finds nothing when it reads the tail.

### Keyboard and KeyInput

One action per byte, with a disjunct per path through the handler. The
environment presses, repeats and releases keys; the controller queues up to
`MaxWire` bytes, each tagged with the key its sender meant, which only the
properties see. Navigation keys send fake Shift bytes around themselves when
Shift is held. The user holds one Shift key at a time, since the handler keeps
one flag for both. `inService` is the interrupt controller waiting for its EOI.

### Heap

The list of blocks is a function from address to header; memory is a function
from word address to what was written there, which detects a header written over
a client's data. One call is one step, except that the loop of `coalesce` is
unrolled. `heap_realloc` is four actions by the way it ends: `Shrink`,
`GrowInPlace`, `Move`, `Fail`. Clients pass back only pointers they hold, never
ask for 0 bytes (as Rust's allocator interface demands), and are never stopped.

### FileSystem

Contents are told apart by a version; a sector holds a version and its number, so
a wrong or missing sector shows. Each write is an action; the reads before it are
part of it, since nothing else runs. `Fault` is a disk error or a loss of power
between two writes. Names are case-folded by `Fold`; `Stored` is the cut to 31
characters that an entry makes. Refinement mapping: a file is what a load with
room enough would return; a delete has erased its file after the first entry is
overwritten or, for the last entry, when the count goes down.

### Disk

Polling is abstracted to its outcome: a wait either sees what it waits for or
gives up, at any moment, so every time-out and every late answer is covered. The
device is external and described in the module's head. `Dma` and `Complete` are
steps of their own, so that a command that was given up may still read or write
the shared buffer during a later call. Refinement mapping: `applied` says that the
write of the call in progress is on the disk, `late` is the write that was given
up and that the device still holds.

Two facts the model brings out. First, after one device error no code restarts
the AHCI port or gives the PIO drive another command, so that every later call
fails (`FailStop` says that at least none of them reports success). Second, the
AHCI driver copies the data of a write into the shared buffer before it waits for
the device. That is safe only if the call before has ended: after a time-out, a
write would have its data overwritten by a late read, or a late write would send
the new data to the old sector. SAVE, DELETE and LOAD begin with a read, which
waits; FORMAT begins with a write. `WritesFirst` is the constant that allows it.
The run has it FALSE; with TRUE, `StoreSpec` does not hold.

`FileSystem` uses this interface: a sector read or write is carried out, or is
reported as failed and may or may not have been carried out.

### Interpreter, Expressions, Assignments, Listing

A statement is a record with its first token as `op`; conditions are true or
false at will and INPUT assigns any value, so that every path through a
program is explored. LET, DIM, READ and DATA keep their text, a sequence of
characters, and are computed from it as the code does: `tokenize`, then `parse`,
then `assigned` or `read_items`. `lines` is the sorted vector and indices count
from 0 as in the code, `find_line_or_after` is the binary search. A statement
typed without a number shares `pc`, the stacks and the variables with the program,
as in the code. `depth` counts the calls of `run` that have not returned.

`waiting` says what takes the keys when it is not the program's poll for ESC: the
line of INPUT, PAUSE, the answer FORMAT asks for, the editor of EDIT (which first
drops the keys in the queue), the menu of DOS or the line it asks for. Each key is a
step. What a line holds is left out, so that the answer to FORMAT may be a refusal,
a success or an error, and a line of DOS may load a file, which replaces the lines and clears the
variables of one letter as LOAD does, or not. QUIT waits for ever (`shutdown`). Every
other statement that changes nothing kept is "other", and may be an error. Refinement
mapping to `ProgramFlow`: `pc` and the saved indices become the numbers of the
lines they mean; when no program runs the stacks are forgotten, since RUN clears
them; the levels of nested RUN disappear.

`store` is one record of variables of one letter, variables of longer names,
arrays and strings. The parser is one recursive function over the levels of the
grammar (`Operand`, `Infix`, `Prefix` say what belongs to each), from a position
in the tokens to a value and the next position, or an error; `evaluated` is one
step of it, given the function for what the step asks. `Once` and
`FoldOnce` are identities to a reader: they make TLC compute an argument once.
`Meaning` goes the other way. It starts from a tree, writes it with the
parentheses it needs, and says what it means on a memory in which an array is a
function from places to values; `Assigned` compares the two for each LET and READ
a program executes. Quotients that do not come out even are open, since decimals
are left out.

Things the model shows and no document speaks of: LOAD keeps arrays, strings and
variables of long names (`exec_load`); negative subscripts are 0 (`Subscript`);
arrays go by the first letter of their name (`Letter`); `LET PRINT = 5` sets a
variable named PRINT (`set_var`); NOT and unary minus take no second NOT or minus
(`Operand`); FOR uses only the first letter of a long name, so that its loop
variable and the variable of that name are two (left out: `exec_for` has names of
one letter).

### Console, Graphics, Screen

A console is a record with the shadow buffer and the frame buffer in it, and each
function of `term.rs` is an operator from a console to a console, since nothing
runs in between. A row of text is two lines of pixels, the body of the characters
and the foot, where the cursor and the descenders are: what a glyph looks like is
abstracted to those two, but an old cursor or descender that stays on the screen
still shows. A column is one pixel. A pixel is the set of its inks, so that XOR
is the symmetric difference. `typed` is what was written since the screen was
cleared, for as long as nothing else moved the cursor; only `LaidOut` looks at it.
The parameters of an escape sequence are forgotten at its end, and not at the
start of the next one, before which nothing reads them.

`Graphics` adds virtual pixels of `pixel_scale`, the page in use and the saved text.
`Draw` is the code's `pixel` for all the points of a stroke at once. `fillto` clips
its corners as the code does (`Low`, `High`). If both are left of the screen, or above it,
the greater is negative, and as a u32 it is the far end: the code fills a
strip of the whole width or height, and so does the model. In a text mode it draws one
pixel, which the console knows nothing of. A rectangle below the screen has no lines; it
may leave a dirty region that ends before it begins, which is an empty one. Only a
rectangle that begins right of the screen is excluded (the first conjunct of
`fillto`): its width goes below zero, the code writes over memory that is not the
screen's, and what happens is undefined. Coordinates are i32 in the code. They are
bounded by `MaxCoordinate`, 2^26: `2 * err` of DRAWTO overflows only when the distance
is 2^30 or more (the lemma `ErrorFits` says that it is at most three times the
distance), and a coordinate times `pixel_scale` fits a u32 on screens up to
10240 wide.

GRAPHICS may be executed at any moment; its only guard is the bound `MaxSaved` on the
text remembered. `inked` collects the lines that were drawn in and that nobody will show:
in a graphics mode those the console drew in, which it does not mark, and in a text mode
those FILLTO drew in, until the console flushes them. SHOW may leave the former
out and the console the latter: `Marked` and `Shown` say that these are the only exceptions.

## Runs

| Run | Checks | Bounds, and why they are enough |
|---|---|---|
| `key_ring` | `TypeOK`, `RingInv`, `QueueSpec`, `ReaderWakes`, `DelayEnds` | 4 slots, so that the ring fills, empties and wraps in each phase of a read; 2 keys, so that order and duplication show; `DELAY` of 0 to 10 ms, so 0, 1 and 2 ticks with rounding. The safety part is proved for every size |
| `keyboard` | `TypeOK`, `ModifiersInStep`, `KeystateTracksKeys`, `TypedAsHeld` | both Shifts, Control, a letter, an arrow; 4 bytes on the wire, so that a prefixed key with its fake Shift waits whole |
| `key_input` | `KeyEndsWait` | a ring of 2, so that it is often full; one plain and one prefixed key; 2 bytes on the wire |
| `heap` | `TypeOK`, `Tiling`, `Ownership`, `Contents`, `WholeAgain` | three clients (a block with a neighbour on each side); sizes that need rounding, that leave exactly a header and one unit, and that need most of the arena; an unaligned base |
| `file_system` | `TypeOK`, `StoreSpec` | 2 directory entries and 4 files' names (two spellings of one), so that the directory fills; empty and two-sector files; a disk too small for all of them; buffers shorter and longer than a file |
| `file_faults` | `Extents`, `OthersUntouched` | 3 entries, so that a removal moves two; three names; one- and two-sector files; faults between any two writes |
| `file_stale` | `SavedIsLoaded`, violated | as above with one-sector files |
| `disk` | `TypeOK`, `StoreSpec`, `FailStop` | 2 sectors and 3 contents, so that data of a wrong sector, a wrong call or an old version all show; no other bound |
| `program_flow` | `FlowSpec` | all programs of 3 lines that `FlowTyped` allows, line 0 among them, typed and edited in any order between runs; FOR stack of 3, so that frames pile up and overflow; GOSUB stack of 2; RUN nested twice; LOAD, CLR and DOS between runs; a file with its lines out of order, one twice and one without text |
| `interpreter` | `TypeOK`, `Survives`, `BreakStops`, `LoopsEnd`, `Assigned` | all 625 programs of 4 lines of FOR and NEXT on two variables, one counting down; expressions with each pair of binary operators in both groupings and each prefix operator on either side; a matrix and a vector with subscripts at and beyond their dimensions; DATA with signs and strings; one program or two for each other statement; 3 keys, one that is neither ESC nor Enter and may choose in a menu, and 2 typed ahead, so that ESC is behind another; a file buffer of 100 characters, which the longer programs overflow, at many different places |
| `screen` | `TypeOK`, `Shown`, `LaidOut`, `Marked`, `LineTrue` | 2 columns and 2 rows with a line to spare, so that every third character wraps and every other wrap scrolls; one letter, with a descender, and a blank, so that positions and not shapes are told apart; escape sequences whole and split byte by byte, with 2 parameters kept, the most any command reads, which saturate at 26, above the 25 of the cursor commands; text of up to `MaxTyped` characters remembered; graphics modes with one wide pixel and with the screen's own; points in the corners and off the screen to the left and above, and to the right where TEXT leaves the cursor; up to `MaxDrawn` strokes and `MaxSaved` characters of saved text |
| `text_restored` | `TextShown`, violated | as `screen`, on a card with two pages; the invariants of `screen` hold there too, of the page displayed while graphics last and of page 0 |

What they show, in words: the ring needs no lock; a key press that falls between
the test and the halt does not wake the reader, and only the timer makes it
return (at most 5 ms later); every exit of the handler ends its interrupt; a
reallocation that shrinks may leave two free blocks side by side and a later free
merges them; an entry overwritten one sector at a time never makes another file
unreadable.

`file_stale` shows a disagreement with the comment of `os/fs.rs:149`, that a save
deletes the existing file of the same name. A write error while
`shift_entries_down` moves entries leaves one entry twice under the old count.
If the file saved next is the one whose entry is there twice, `remove_entry_by_name`
removes one copy, the save appends the new version and reports success, and a load
finds the old copy first.

`text_restored` shows a disagreement with the comment of `drivers/graphics.rs:188`,
that leaving a graphics mode restores the text screen. Each SHOW on a card with
two pages, and the change of mode itself, displays the other page; the text is
restored into page 0 and nothing displays page 0 again. GRAPHICS 2 followed by
GRAPHICS 0 is enough.

### Fairness

- `Foreground`: the processor keeps executing the function it is in, unless it
  is halted. Nothing makes the program call anything.
- `TimerIrq`: the timer runs free at 200 Hz once `init` has programmed it, and
  interrupts stay enabled after `sti`.
- `Step`, `Break`, `RunReturns`, `TakeKey`, `run_editor` (in `Interpreter`): the
  processor keeps executing. A statement that waits for a key waits until there is one.
- `KeyboardIrq` (in `KeyInput`): a byte that waits raises
  an interrupt, once the last one was ended. Nothing is assumed of the user.

The other runs check safety and assume no fairness.

## Proofs

TLAPS checks every theorem from the assumptions about constants alone. Each
`...Proofs` module has one inductive invariant, from which its theorems follow.
TLC checked each of the invariants on the runs before it was proved.

| Module | Theorem | States | For every |
|---|---|---|---|
| `KeyRingProofs` | `TypeCorrect`, `RingInvariant`, `RingImplementsQueue` | `TypeOK`, `RingInv`, `QueueSpec` | ring of two slots or more, set of keys |
| `KeyboardProofs` | `TypeCorrect`, `NoModifierSticks`, `KeystateIsTrue`, `TypesWhatIsMeant` | `TypeOK`, `ModifiersInStep`, `KeystateTracksKeys`, `TypedAsHeld` | set of keys of the layout, length of the wire |
| `HeapProofs` | `TypeCorrect`, `Tiled`, `Owned`, `ContentsKept`, `NoFragments` | `TypeOK`, `Tiling`, `Ownership`, `Contents`, `WholeAgain` | arena, alignment, header size, set of clients and sizes |
| `DiskProofs` | `TypeCorrect`, `StopsOnError`, `KeepsPromise` | `TypeOK`, `FailStop`, `StoreSpec` | set of sectors and contents, both drivers |
| `FileSystemProofs` | `TypeCorrect`, `FilesApart`, `LeavesOthersAlone`, `KeepsPromise`, `SavesLoad` | `TypeOK`, `Extents`, `OthersUntouched`, `StoreSpec`, `SavedIsLoaded` | disk, directory, set of names and contents |
| `ConsoleProofs` | `CursorOnScreen`, `TextLayout` | `ConsoleTypeOK`, `LaidOut` | size of the screen, text, number and size of parameters |
| `ScreenProofs` | `TypeCorrect`, `TextIsShown`, `TextIsLaidOut`, `ChangesAreMarked`, `LinesAreTrue` | `TypeOK`, `Shown`, `LaidOut`, `Marked`, `LineTrue` | size of the screen, text, point and colour, one page or two |
| `InterpreterProofs` | `LinesInOrder`, `TypesCorrect`, `FollowsLineNumbers`, `ProgramSurvives` | `InOrder` and `InBounds`; `TypeOK`; `FlowSpec`; `Survives` | program, text of a line, file, line number, size of the tokens, stacks and file buffer |

### The ring

`TypeOK` is inductive as it stands. The conjuncts of `RingInv` are mutually
inductive: a reader that has seen the ring nonempty (`StaysNonempty`) takes a slot
inside the window from tail to head, which holds keys (`PendingAreKeys`); a slot
that was freed before it was loaded is the one the interrupt finds to be full when
it comes round (`SlotKept`), since the ring keeps one slot unused; the head a flush
has read stays inside the window since only the flush moves the tail
(`FlushInside`). `Where` says which function can be at which step. Under the two,
each step of the ring is a step of the queue or leaves it unchanged. The lemmas on
`Dist`, `Nth` and `Window` turn indices modulo the size into sequences.

### The keyboard

What the runs check speaks of moments at which the wire is empty, which is not
inductive. `KbdInv` says of every moment that there is a run of the decoder over
the bytes on the wire (`Replay`) which puts the key each byte means and ends in the
state the keys held down call for (`InStep`). The handler takes the first step off
such a run (`ReplayHead`), a key press or release appends one (`ReplayConcat`), which
is shown for each kind of key: plain, prefixed (`BytesReplay`), and prefixed between
fake Shift bytes (`FakeReplay`). `KeyCapAssumption` says which keyboards: the keys of the tables, Control on
the left only (the right one sends E0 29, which the handler takes for no modifier),
and no letter or digit behind a prefix.

### The heap

`Tiling` alone does not survive a split or a merge: `ListOK` says that the blocks lie
on the grid of the alignment (`OnGrid`), each reaching to the next and the last to
the end of the arena, and that no block starts within another. `Ownership` and
`Contents` rest on it: two blocks do not overlap, hence no header is written into a
client's data. `Coalescing` is what `coalesce` knows: the block it is at is free and
on the list, and the first block and the second are not both free unless it is about
to merge them. With nothing allocated every block is free, so there is no second:
`NoFragments`, although free blocks may lie side by side elsewhere in the meantime.

### The disk driver

`DriverInv` relates the program counter of each driver to the device: whose command
the device has, how far it got, and what the shared buffer holds (`AhciOK`,
`PioOK`). `StopsOnError` follows from it. `KeepsPromise` has the hypothesis
`~WritesFirst`, which is what SAVE, DELETE and LOAD do; the section on `Disk` above
tells what happens without. It is used in one place, `BufferOK`: no write begins
while a command that was given up is with the device.

### The file system

`DirInv` describes the directory at every step between two writes: two entries that
count are apart or are the same twice, which is what a removal leaves as it moves
entries down (`EntriesOK`, `RemoveOK`), and the sectors a save is writing lie behind
all of them (`SaveOK`). It holds with faults anywhere, since a call that is cut off
leaves what it has written. `StoreInv` adds what is true without faults: there is one
entry for each file but for the copy being moved (`Unique`), none for a file a call
has removed (`Removed`), and the data are those the save was given, as far as it got
(`Written`). `KeepsPromise` and `SavesLoad` have `~Faults` as a hypothesis, so that the
violation `file_stale` shows does need a write that fails. These two and
`LeavesOthersAlone` also have `ShortNames`, that the name an entry stores is the
same file as the name given: of two names that agree in their first 31 characters
`names_match` finds neither, and the hazard is listed.

### The console and the screen

A console between two calls is `Ready`: positions within the screen (`Safe`), a
parser with a parameter to write to (`Parsing`), and what is drawn also shown, but
for what is held back (`AllShown`). Within a call less is true: `putchar` leaves the
row of the cursor behind (`OthersShown`), and flushes it at the end. A string is a
fold over its characters, which the library defines by recursion over finite sets;
`FoldGoes` shows, by a least counterexample, that what each character keeps the
string keeps. The screen adds `Tidy`, that the virtual pixels of each mode fit the
screen, and `Noted`, that a difference between the page displayed and the shadow
buffer is marked or was drawn by the console. `GeometryAssumption` says that no
virtual pixel is higher than the screen: the narrowest mode is 320 wide, and no
screen is 320 times as wide as high. `TextAssumption` says that texts are
sequences.

`LaidOut` compares the shadow buffer with what the reference makes of the text. The
reference sees the whole text and splits it into lines and rows; the console sees one
character at a time and keeps no text. `AllNext` is the bridge: a character more starts a
line, makes the last row longer, or starts a row after one that is full. A backspace is
one character less (`TakenBack`). The invariant `Laid` has, besides what `LaidOut` says,
that the line to spare below the last row is blank, since a scroll moves it onto the screen,
and that a wrap is pending exactly when the last row is full, which is what makes
the third case a wrap. `FoldLaid` carries it through a string. In a graphics mode the
text is in the saved copy: `TextThere` says `Laid` of whichever picture holds the text, and of a
cursor that no stroke and no SHOW moves.

`LinesAreTrue` is about the loop of DRAWTO. Its error is a multiple of the distance
from the straight line: after some steps to the side and some up or down, the point
is at `Place` and the error is `Fault`, of which `ErrorFits` gives the bound that keeps it in an i32, and `Near` says that neither is more than
half a pixel off. `NearStep` shows that `Towards` keeps it, by cases on which of
width and height is greater, `WalkOn` that every point of the path has it (again by a
least counterexample), and `Arrives` that the last one is the end.

### The interpreter

`find_line_or_after` is a recursive function of two bounds. `SearchExists` shows that
there is such a function, `SearchFinds`, by a least distance between the bounds at
which it fails, that it finds the first line not before a number. From there each change of
a line is a change of a set of lines (`InsertLine`: `Replaced`), and loading a file is a
fold of such changes that keeps the last line of each number (`Deserialized`).
`LinesInOrder` has the invariant `Bounded`: lines in order and with text, and indices on
the stacks. `FollowsLineNumbers` adds `Placed`, that while a program runs every index on a
stack follows a line the program has; a line typed cannot break it, since lines are
typed only when no program runs. LOAD within a program does break it, and so does DOS: the stacks
stay and the lines change. Hence the hypothesis `NoLoads`, that no line has one of the two; a
user may type them, and `Outside` says that no program runs while he is in DOS. `AfterLine` turns the line at the next index into the next line
number, and there is one lemma for each way of `ProgramFlow` to go on, with the stacks
as `LoopsOf` and `CallsOf` read them. What expressions compute does not enter: the proof
takes every outcome of a condition and of a loop's end.

`ProgramSurvives` rests on `Bounded` alone. Each part of the way out and back is a
recursion, and each is shown to be what it should by a least counterexample:
`format_u64` and `number_of` by `ReadsWritten` (the figures of a number below 65536 are
read back as that number), the texts of the lines one behind the other by
`MarksExist` (`Marked` says where in the file each line starts), and the loop of
LOAD by `FileLinesIs` (`ReadFrom` says what one pass of it does at any place). What one pass makes of
one line that was saved depends on where the buffer ends. `SavedLine` tells the cases apart:
the line is whole, it is cut within its text, or nothing of its text is left, and then LOAD
drops it. `ReadsLines` goes from the last line back to the first. What is read is then in
order, so that `insert_line` appends every line but line 0 (`LoadsInOrder`). `ListingAssumption`
says that line numbers have 16 bits, and that the text of a line starts behind the spaces, is
not empty, and has no end of line in it.

`TypesCorrect` is about the data, and needs `LinesInOrder` for the lines. Its invariant
is `WellKept`: the store is one of `Memories` (numbers in the variables, as many elements in an
array as its dimensions say, sequences of characters in the strings), DATA are tokens
and `data_ptr` is not past them, and the frames of loops name variables and have integer
limits and steps, since NEXT assigns to what they name. `Queue` says the rest, of the keys.
Nothing is assumed of the text of a LET, READ or DATA but that it is a sequence, so
most of the proof is what the tokeniser and the parser make of any text. Both are
recursive, and TLA+ gives a function defined by recursion no value unless there is one that
solves the equation. `RecursionExists` shows that there is when every argument has
a size and only smaller ones are asked, `SameRecursion` that there is no other.
For the tokeniser the size is what is left of the line: every token takes at least one
character (`TokenAtIs`). For the parser it is `Size`, nine times the tokens left and
then the level of the grammar. A level asks for the one below at the same token, and for
any level once a token is consumed. That a token is consumed depends on what the recursion
answers, since a chain of operators goes on where its left operand ends. `Answers` is
the contract that closes the circle: an answer is an error or goes on past its start.
`EvaluatedSettled` shows that a step keeps it, and with it `ParseIn`, that the parser always
comes to a number or an error. From there the assignments and DIM are cases (`AssignedHeld`),
and READ is a fold over its targets each of which takes a datum or none
(`ReadItemIn`). For `MAX_TOKEN_LEN` this takes that it is more than 1, which is the room for one
character of a name; the code has 64.

`InterpreterAssumption` says that lines have numbers, that jumps go to natural
numbers, that FOR and INPUT have a variable of one letter, FOR integers for its bounds,
that the text of LET, READ and DATA is a sequence, that a command has text and that
a file is a sequence of lines.

### Model-checked only

- `ReaderWakes`, `DelayEnds`, `KeyEndsWait`, `BreakStops`, `LoopsEnd`: liveness under
  fairness is outside the prover's reach.
- `Assigned`: it computes by recursion over the tree of an expression and compares the
  result with what another recursion makes of its text. `Meaning` declares recursive
  operators, which the prover does not take.

## Not modelled

- Numbers that are not integers, and with them RND, PEEK, FRE, SIN, COS and SQR,
  the layout of PRINT, and quotients that do not come out even: TLC has no reals.
- The GPU drivers (`bga.rs`, `vmware.rs`, `nvidia.rs`), `ahci_init`, `ata_init`, the
  serial port, the speaker and PCI: sequences of register writes whose effect the
  source does not describe. The VMware FIFO is drained after every command, so that
  its full case never comes.
- Interrupt set-up, the division of memory at boot and the page attributes: they run
  once, before anything else, and leave no state that changes.
- Colours of text (SGR), the boot logo, what LIST, DIR and DOS write: output.
- What FORMAT, the menu of DOS and EDIT do to the disk while they wait in `Interpreter`:
  each is a call that `FileSystem` models.
- The editor, an external crate: in `Interpreter` it takes keys until one ends it.
  POKE, which may write anything anywhere.

`components` in `PROJECT.json` has each part and its reason, and `hazards` what is
known to be hard; the entries without a property say why there is none.

## Plan

Models that could follow: `FileSystem` over `SectorStore`, so that a failed write
may still land later; the loop variable of FOR with a long name.

Theorems next: the decoder of escape sequences, that a sequence cut into two calls does
what it does in one; that `parse` computes what `Meaning` says, once its trees are
functions on paths and no longer recursive operators.
