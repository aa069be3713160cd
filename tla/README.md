# TLA+ models of the Teensy Lua computer

The repository is the firmware of a stand-alone Lua computer on a Teensy 4.1:
one Arduino sketch (`src/lua/lua.ino`) with keyboard, VGA terminal, editor,
windows, SD card and hardware bindings, around the sources of the Lua 5.5 core
(`src/lua/l*.c`) on which every program of the machine runs. This directory
holds TLA+ models of those parts, TLC configurations that check them on small
instances, and proofs that TLAPS checks for every value of the constants.

There is one thread and no operating system. What interleaves is the call
stack: the USB library calls back into the sketch while a program waits for a
key, error popups wait for a key inside that, and the garbage collector works
in small steps between the instructions of a program.

## 1. Inventory

| Component | State | Operations | Talks to | What is hard | What makes it correct |
|---|---|---|---|---|---|
| Keyboard (`lua.ino` 140-156, 830-927, 1064, 4792) | one-character mailbox, repeat key, phase, timer | OnPress, OnRelease, handleRepeat, wait_key, inchar, loop | USB callbacks; every reader of keys | callbacks inside popups inside callbacks; auto-repeat while a popup waits | readers see new characters in order, popups are acknowledged by fresh keys, repeats stop |
| Editor (`lua.ino` 1079-1850) | 128 KB buffer, length, cursor, mark, clipboard, remembered places | keystrokes, search, save, open, leave | keyboard, SD card, interpreter, error popup | off-by-ones at the buffer's end, stale indices, memory across sessions | the string ends inside the buffer, the length is the string's, sessions start at the right place |
| Command line (`lua.ino` 608-826) | input line, history, last file | characters, function keys | keyboard, interpreter, editor | what a failing program leaves behind | the line shown is the line run |
| Terminal (`lua.ino`, vga_print_*) | cells with colours, cursor | print, scroll, clear | windows, editor | cursor at the borders | every write is inside the buffer |
| Windows and popups (`lua.ino` 3153-3270, 3835) | 10 slots | open, update, close, cleanup | terminal, keyboard | overlapping windows, popups in popups | what is closed shows the terminal |
| SD files (`lua.ino` 2220-2840) | 4 file slots, working directory | open, read, write, close, copy, cd, unmount | every program | leaked slots, handles after unmount, half-done operations | a handle refers to its file or to nothing |
| Screenshots (`lua.ino` 3425) | numbered files | save | keyboard, SD card, popup | runs in a callback | no picture is overwritten |
| Lua: collector (`lgc.c`) | colours, object lists, phase, sweep pointer | mark, atomic, sweep, finalize, barriers | every other part of the core | the program runs between any two steps | nothing reachable is freed, garbage is |
| Lua: tables (`ltable.c`) | array, nodes, free pointer | get, set, rehash, next, length | collector | collisions, dead keys, borders | a lookup finds what was stored |
| Lua: strings (`lstring.c`) | hash table of short strings | intern, resize, remove | collector | resurrection of dead strings | equal short strings are the same object |
| Lua: upvalues, to-be-closed variables (`lfunc.c`) | open upvalues of a stack, tbc list | find, close, prepare | calls, collector | errors while closing | closed once, in reverse order |
| Lua: calls, coroutines (`ldo.c`) | CallInfo list, status, C-call count | call, pcall, resume, yield | all of the core | errors across coroutines and C | the stack unwinds to the protected call |
| Lua: registry references (`lauxlib.c`) | free list in a table | luaL_ref, luaL_unref | bindings | double unref | a reference is handed out once |
| Lua: compiler (`llex.c`, `lparser.c`, `lcode.c`) | scopes, registers, jump lists | parse and generate in one pass | VM | jump patching, register reuse | code means the source |
| Lua: VM (`lvm.c`, `ltm.c`) | stack, frames, upvalues | one per instruction | compiler, calls | numeric edges, metamethods of mixed operands | instructions do what the language says |
| Lua: libraries (`lstrlib.c`, `ltablib.c`) | backtracking, partitions | find, match, gmatch, gsub, sort, ranges | programs | arbitrary order functions, positions at the ends of the integers | the manual |
| Lua: line information (`lcode.c`, `ldebug.c`) | bytes and absolute entries | save, fix, remove, find | error messages, and through them the editor | removal of the last instruction | every instruction has its line |
| Bindings, flash loader, hex monitor, sound, sprites | hardware | - | - | hardware | not modelled |
| Programs on the SD card (`src/SD-Card/lua`) | - | - | - | - | applications |

`PROJECT.json` lists the same parts with their status, and the hazards of the
code with the lines where they bite.

## 2. Modules

Every module of a part of the code has the name of the part; modules that say
what a part promises, without how, stand beside it.

| Module | Code | Promise it is checked against | Proofs |
|---|---|---|---|
| `Keyboard` | `lua.ino`: callbacks, mailbox, readers | `KeyStream` (refinement) | `KeyboardProofs` |
| `Editor` | `lua.ino`: `open_fullscreen_editor` | invariants | `EditorProofs` |
| `LuaGC` | `lgc.c`, incremental | `LuaHeap` (refinement) | `LuaGCProofs` |
| `SdFiles` | `lua.ino`: `sd` module, screenshots, F1 | invariants over history | `SdFilesProofs` |
| `Terminal`, `Windows` | `lua.ino`: text, windows, popups | buffer against screen | - |
| `Prompt` (over `Terminal`) | `lua.ino`: `handleIncomingChar`, cursor | line against screen | - |
| `LuaTable` | `ltable.c` | `LuaMap` (refinement) | - |
| `LuaCalls` | `ldo.c`, `lfunc.c`, `lcorolib.c` | `LuaScopes` (refinement) | `LuaCallsFacts`, `LuaCallsProofs` |
| `LuaParser`, `LuaCode`, `LuaVM`, `LuaValues` | `lparser.c`, `lcode.c`, `lvm.c`, `lobject.c` | `LuaMeaning` (a definition of the language) | - |
| `LuaMatch`, `LuaPatterns` | `lstrlib.c` | `LuaPatternMeaning` (the manual) | - |
| `LuaSort` | `ltablib.c`: `sort` | invariants, termination | `LuaSortProofs` |
| `LuaRanges` | `ltablib.c`, `lstrlib.c`: positions | the manual | - |
| `LuaLines` | `lcode.c`, `ldebug.c`: lines | the lines themselves | - |

`NatFacts` has facts about numbers that several proofs cite. The modules whose
names begin with `MC` give the constants of TLC's runs. `LuaParser` extends
`LuaCode`, `MCLuaPrograms` puts the compiler and `LuaVM` together, `Windows` and
`Prompt` extend `Terminal`; `MCLuaLibrary` is a disjoint union: each behaviour
is one of `LuaPatterns`, `LuaSort`, `LuaLines`, `LuaRanges` or `LuaTable`.

Each run of the table below is one question; sections 3 to 12 say what it shows
and why its bounds are enough. Deadlock is checked only in `prompt`: elsewhere
a behaviour may really end (a program is over, a bound is used up, the model
stops where the C code has no defined behaviour). A run that is marked (x)
states what a comment or an assertion of the code says, and TLC shows a
behaviour of the code that contradicts it; `PROJECT.json` quotes the comment
under "findings".

| Run | Module | Properties | Proved as well |
|---|---|---|---|
| `keyboard` | `MCKeyboard` | `TypeOK`, `RepeatsOnlyHeldKey`, `WaitKeyIsFresh`, `KeepsStream`, `WaitKeyAnswers` | all but the last |
| `editor` | `MCEditor` | `TypeOK`, `BufferHoldsText`, `OnlyStrayingCrashes`, `ErrorLineComesFirst`, `OtherFileStartsInText` | all |
| `editor_other_file` (x) | `MCEditor` | `OtherFileForgetsPlace` | - |
| `gc_incremental` | `MCLuaGC` | `TypeOK`, `MainInvariant`, `SweptIsWhite`, `NoDangling`, `ImplementsHeap`, `GarbageIsFreed` | all but the last |
| `gc_weak` | `MCLuaGC` | `NoDangling`, `KeepsLiveEntries`, `FinalizedIsNoWeakValue` | all |
| `sd_files` | `MCSdFiles` | `TypeOK`, `ReportedIsStored`, `NumberKeepsItsFile` | all |
| `sd_unmount` (x) | `MCSdFiles` | `UnmountClosesFiles` | - |
| `windows` | `MCWindows` | `BackgroundIsExact` | - |
| `prompt` | `MCPrompt` | `LineIsShown` | - |
| `calls` | `MCLuaCalls` | `ImplementsScopes`, `YieldsLoseNothing`, `OpenUpvaluesAreAlive`, `CCallsAreCounted`, `CollectorRuns` | all but the first |
| `programs` | `MCLuaPrograms` | `CompiledMeansProgram`, `CodeIsWellFormed`, `OpenUpvaluesAreLive` | - |
| `library` | `MCLuaLibrary` | `FindsFirstMatch`, `SortIsSafe`, `SortEnds`, `LinesAreFound`, `RangesAreExact`, `TableIsItsEntries`, `GetnIsBorder`, `ImplementsMap` | `SortIsSafe` |

## 3. Keyboard

`Keyboard.tla` models the mailbox `lastUsbChar`, the callbacks and the three
readers. `frames` is the call stack: `frames[1]` is `loop()`, and each frame
has a procedure and the point it is at. `myusb.Task()` is the point "task": any
number of `OnPress` and `OnRelease` happen there, then it returns
(`TaskEnds`). `handleRepeat` runs in `loop()` and `inchar()` but, as in the
code, not in `wait_key()`. `handleIncomingChar` and the Lua program it runs are
the frame "handle", which may poll (`inchar`), wait (`wait_key`), empty the
mailbox (the pagers of `sd.dir` do) or return, in any order and number.
PrintScreen saves a screenshot inside the callback; a failing one shows a popup
that calls `wait_key`, and that nests.

Characters are numbered as the driver makes them, so that stale, doubled and
reordered characters can be told apart. `down`, `made`, `auto`, `shown` and
`taken` are history variables: nothing the code does depends on them.
`KeyStream.tla` is what programs may rely on: every reader gets only the newest
character, once, in order; characters may be lost (one slot, no queue).

Bounds of `keyboard`: `MaxMade` 2 characters, one that starts a program and one
typed into it, with repetitions on top; `MaxDepth` 4 is `loop`, handler, popup,
popup in the popup. `RepeatDelay` 2 and `RepeatRate` 1 keep the two phases apart.

Fairness: `WF_vars(Firmware)`, the steps in which the sketch itself goes on:
the USB library returns, the loops of `wait_key` and `loop` turn. Nothing is
assumed of the user, of time, or of the program, which may compute forever.
With it `WaitKeyAnswers` says that a character a waiting `wait_key` sees ends
it, unless a screenshot takes it. The run uses no symmetry, which would be
unsound for liveness.

Proved for every set of keys, every delay, any number of characters and any
depth: `TypeOK`, `RepeatsOnlyHeldKey`, `WaitKeyIsFresh` and the refinement
`KeepsStream`. The inductive invariant `IInv` adds to the type: `StackShape`
(below a `wait_key` there are only `wait_key`s, because only a callback can call
something there), `SlotIsNewest` (the mailbox is empty or holds the newest
character), `RepeatIsHeld` (a key that repeats has been down longer than the
timer says), `WaitSeesFresh` (what a `wait_key` past its flush can see is newer
than the call and no repetition, for all nested ones at once) and
`SlotIsUnread` (no reader has had the character in the mailbox, but for `loop()`
while it handles it). Without `StackShape` the others are not inductive: an
`inchar` above a `wait_key` could repeat a key into its mailbox.

## 4. Editor

`Editor.tla` models `open_fullscreen_editor`: a buffer of `MaxSize` bytes, the
indices, F1 to F4, ESC, and every key that moves or changes something, as one
action each with the code's length checks. `Insert` and `Remove` are the
`memmove` patterns all of them share; one with a negative length or outside the
buffer leads to `status = "crashed"`, where the model stops, because what the
machine does then is undefined. `Settle` ends a keystroke as
`berechneLogischePosition` does: when the cursor is behind the text its loop
never meets it, and the line number stays what it was, or what Enter has made
of it (`logischeZeile += 1` before the call), so it may be larger than any line
of the text; `TypeOK` bounds it by the keystrokes since then (`strayed`). `Open` has the loading, the file comparison, the
line of the last error and the remembered place in the code's order. Between
sessions programs change files (`ProgramWrites`) and raise errors
(`zeigeFehlerPopup`). `strayed` is a history variable: whether the cursor or
the mark has been behind the text in this session.

`OtherFileStartsInText` says what the file comparison of `Open` achieves: a file
that can be read and has another name than the last one starts inside its text.
The comment beside the comparison promises more, that the remembered place is
given up for every other file. `editor_other_file` shows two ways around it: the
same name in another directory, and a file that cannot be read.

Bounds of `editor`: three plans. Long sessions on one file; short ones on two
files, with error messages for three lines in between; and two files of the
same name in different directories. The checks of the code are `MaxSize - 2`
and `MaxSize - 3` and paste is up to two characters, so with five bytes the text
is empty, half full or full (three characters, one more than a block and one
more than every check lets through when it is off by one). One printable
character and the newline are all the code distinguishes. After the cursor or
the mark has left the text two more keystrokes happen, enough for each
`memmove` to see it. The view leaves out variables that are dead between
sessions: `Open` overwrites each before it reads it.

Proved for buffers, clipboards, pages, texts and search strings of every size:
all five properties. `IInv` adds to the checked invariants `LengthIsBounded`
(no keystroke takes more from the text than there is, and cursor and mark are in
the text until they stray). `Strlen`, `LineStart` and the line searches are the
least or greatest index with a property; that they exist, and what inserting
and removing does to them, are the lemmas of `EditorProofs`, on top of
`LeastExists` and its companions in `NatFacts`.

## 5. The collector: LuaGC and LuaHeap

`LuaGC.tla` models the incremental collector of `lgc.c`, state by state as
`singlestep` goes through them, and the program in between. An object refers to
others through `entries` (a value and, for tables, a key); the entries of
`Main` are the stack of the running thread. Kinds of object: tables with each
`__mode`, closures (forward barrier), threads (no barrier, visited again in the
atomic step). The three lists the sweep walks are sequences, and `sweepgc` is
the object whose `next` field the code's pointer points to, so that what
`setmetatable` (`luaC_checkfinalizer`) does to that pointer is there. The lists
`gray` and `grayagain` are sets: any order of visits is checked, not only the
code's. `atomic` is one action, as it is one step of the code: it is given by
the least set closed under marking (`Marked`), which is what `propagateall` and
`convergeephemerons` compute. `goals` is the list of states the nested
`luaC_runtilstate` calls of full collections still have to reach; an emergency
collection may interrupt a finalizer that runs in a full collection.

The program allocates, reads, forgets, stores with the right barrier for each
kind of object, removes entries, changes `__mode`, sets finalizers and calls
`collectgarbage`. `luaD_checkminstack` is left open, so finalizers may also
wait for the next cycle.

`LuaHeap.tla` is what programs may rely on, without colours, lists and phases:
an object they can get at stays as it is, one with a finalizer is picked when
nothing else leads to it and is finalized once, and only what no one can get at
disappears. Weak tables are not part of it; the run's programs make none.

Bounds: two objects besides the stack of the running thread, two values on the
stack, one or two entries outside it (`links`). The classic failure needs no more:
a black object that the stack holds, a white one stored in it, and the stack's
own reference dropped. Sweep steps of one object (`GCSWEEPMAX` 1) let the program
run between any two. Full collections are tried with threads, where they
interrupt finalizers. `gc_weak` has a table `r` that is never freed besides, one
weak table (`MaxWeak`) and two links, which give a chain through an ephemeron
table. Its objects are symmetric, and its view (`MCView`) renames the two
whites to "current" and "other", of which the code only ever asks that, and
forgets the colour of free objects; `gc_incremental` checks liveness too and
has neither. What more objects could do is the matter of the proofs.

Fairness of `gc_incremental`: `[]<><<Collector>>_vars`: the collector takes steps again
and again. In the code each allocation pays for a part of a step, so this says
that the program goes on allocating and that its finalizers return; a program
that allocates nothing makes no garbage either. The order of visits and all
that the program does stay arbitrary.

Proved in `LuaGCProofs` for any number of objects, kinds of program and bounds:
the four invariants, and the two action properties of weak tables. The
inductive invariant is `TypeOK /\ MainInvariant /\ AliveIsClosed /\
StacksAreGray /\ SweepAdvances`. `MainInvariant` (no black object refers to a
white one while the collector marks; the gray lists are the gray objects) is
what the barriers keep. It says nothing in the sweep phase, where `NoDangling`
could break: `AliveIsClosed` does (what the sweep will not free holds the roots
and the objects with finalizers, and no reference leads out of it). The atomic
step turns the one into the other: after it the marked objects are closed, they
are the ones that are not of the other white. `StacksAreGray` is needed because
stacks have no barrier, and `SweepAdvances` because `setmetatable` unlinks the
very object `sweepgc` points to. `NoDangling` then follows without induction
over paths: the set of alive objects is itself closed, so everything reachable
is in it.

It also proves `Spec => ImplementsHeap`, each step of the collector and
of the program a step of the heap or a stutter, under `StrongTables`: no program
makes a table weak, which is what `LuaHeap` leaves out. Objects linked by
finalizers and the program's own references map to `Reach`, of which `ReachIs`
says that it is the least closed set.

## 6. Files: SdFiles

`SdFiles.tla` models the `sd` module: the four slots behind the numbers of
`sd.open`, `sd.write`, `sd.append`, `sd.copy`, `sd.rename`, `sd.remove`,
`sd.mount` and `sd.unmount`, screenshots (a free number, then a file) and the
editor's F1 (remove, then write). Operations that take several steps on the
card are a `job`, and the power may fail between two of them. `sd.write` is one
too: the block goes to the library, which puts it on the card or does not, and
the flush (`JobFlushes`) makes sure before the program hears of it. The SD library is
external: a `File` object has a position, blocks that are not on the card yet,
and is lost when its file is removed or changed through another; using a lost
object is undefined and the model stops there. `told` and `held` are history:
what programs were told about files and which file a number was given for.

Bounds of `sd_files`: two names, two pictures, two slots, one kind of block and
files of two: enough for a slot to be leaked while the other is used again, for
a copy onto an open file, and for every job to be cut in the middle. The card
holds three blocks (`Capacity`), so it fills up while a second file is written.
Nothing looks at what `destFile.write` and `datei.print` return, so a copy or an
append then reports success for a block that is not there. `short`, also
history, has the files this happened to until they are written anew, and
`ReportedIsStored` excepts them and no others. `sd_unmount` checks what the
first comment in `lua_sd_unmount` says, that open files are closed:
`SD.sdfs.end()` does not know the slots, they stay taken, and using their numbers
is undefined from then on.

Proved for any number of slots, names and blocks and any capacity:
`TypeOK`, `NumberKeepsItsFile` and `ReportedIsStored`. `IInv` adds to the checked
invariants `JobTarget` (nothing is promised about the target of a job) and
`JobKeepsPromise` (what a job has put on the card and what it still has to put
there is what it will report, unless a block was dropped).

## 7. The screen: Terminal, Windows, Prompt

`Terminal.tla` has the cells of `termBuffer` and what the VGA driver drew, with
the functions that write both, as functions from a terminal to a terminal.
`Windows.tla` adds the slots, popups and the scripts that use them. Its places
are pixels, as in the code: `renderWindow` draws the frame, a bar of 14 pixels
whatever the height, the title and the words unclipped, and `Painted` is the
cells all this touches; restoring covers the cells of `Band`. The script of each
plan is careful but for its `careless`: titles and words that leave the window
("spill"), arguments that fail half way through an open slot ("fail"), opening
an open slot ("reopen"). The code does not restore what these leave on the
screen, although its header says that deleting a window restores the exact
background. `remains` is a history variable with just these cells, as long as
they show a window: what was painted past an edge, and the place of an open
window that another call overwrote. `BackgroundIsExact` excepts them and no
others. Double-width text below a window loses its right half and is left out
(section 14). What windows that overlap show of each other is left open:
updating or closing one erases the other there, and the property speaks of the
cells outside all open windows. `Prompt.tla` is `handleIncomingChar` and the blinking cursor.
`left` is a history variable: Backspace in the first column has taken a character
from the line that the screen keeps, until the line is empty or entered.

Bounds: two rows of text and two columns (`windows`) are the least on which
scrolling under windows and ends of lines exist. Four plans: one window in two
colours with popups in popups; two windows, in places that overlap; a title
that is wider than its window; and a slot that is opened again, or not quite,
while it is open. A cell that shows a window says so, so that what stays behind
is told from text. The view leaves out the places of closed slots.
Four columns with lines of three characters and the prompt (`prompt`) put every
character once before and once behind the end of a row.

These are model-checked only. Printing and scrolling fold over strings and
columns, and what a fold computes needs induction over data.

## 8. Tables: LuaTable and LuaMap

`LuaTable.tla` is `ltable.c` with its relative `next` fields, the free pointer,
Brent's variation, the two allocations of a resize either of which may fail or
run a collection, dead keys, the border search with its hint and seed, and
`luaH_next`. A step is one operation of a program. `LuaMap` says that this is a
map, that an assignment that fails changes nothing, and that a traversal meets
every field that stays once.

`TableIsItsEntries` has one exception, in a history variable. When an array
shrinks, `luaH_resize` copies the vanishing slice into a hash part that the table
does not have yet, and then allocates the smaller array. If that allocation runs
an emergency collection and succeeds, what the collection clears in a weak table
is cleared in the old parts only, and the copy brings a freed value back:
`stale` has the keys of such entries (`checkliveness` in `lobject.h` asserts that
no value is dead).

Bounds: five programs of the run `library`. Two integers, two strings and an
object that collide, with loops and failing memory; arrays with holes from
tables of up to 7 slots and the largest integer (31 here, so that the unbound
search overflows if it does anywhere); weak values that are collected in every
step; and arrays of five that become arrays of one, because 9 comes while only
1 and 5 are there, with memory that fails in either allocation, of a strong and
of a weak table. Two values tell a wrong value from the right one. Chains are
walked by a RECURSIVE operator, so these properties stay with TLC.

## 9. Calls: LuaCalls and LuaScopes

`LuaCalls.tla` has an explicit C stack: a sequence of activations with the point
each goes on at. An error or a yield cuts it at the last protected activation
of its thread, as `longjmp` does, and every function that the code wrote a
continuation for (`finishCcall`, `unroll`, `luaV_finishOp`) is one there.
Programs are arbitrary within a repertoire. `LuaScopes` is the promise: in each
thread protected calls and variables to be closed are nested, each ends once,
the innermost first, and a failing protected call gives the last error raised
in it. Variables are numbered there, and only a new number enters: a variable
that `luaF_close` closed without taking it off the list (`poptbclist`) would come
back, which no step of `LuaScopes` allows.

`CollectorRuns` was false in the form "the collector is stopped only while a
finalizer runs". A finalizer may run in a coroutine and close that coroutine
with `coroutine.close()`; the jump to its base (`luaD_throwbaselevel`) passes
over `GCTM`, which would have restored `gcstp`, and the collector never runs
again except in emergencies. The property now says that nothing else does this.

Bounds of `calls`: six repertoires of four to six operations, each with what it
takes for one family of interactions, over one or two coroutines; the limit of
C calls is 20 and one repertoire starts at 16, so that it is reached in calls,
in handlers and while variables are closed. Deeper nesting repeats
activations that are there already.

`ccall` and `luaG_errormsg` call each other, but not for ever: the handler of an
overflow runs beyond the limit, where the next error is `luaD_errerr`. The model
unrolls them (`StackOverflow`), declares nothing RECURSIVE, and can be proved
about. `LuaCallsProofs` proves, for any threads, repertoires and limit,
`OpenUpvaluesAreAlive`, `YieldsLoseNothing`, `CCallsAreCounted` and
`CollectorRuns`. The C stack is a chain: each activation fits the one below
(`Link`) and the state its thread was in when it began (`Fits`). Those states are
gone when an error cuts the stack, so the invariant `Holds` carries them along:
it says that there is a sequence with, for each activation, how many frames its
thread has while it is on the top, its first frame, the thread's count of C calls
and of calls that must not yield, and the protected activation that an error
would go to. Cutting the C stack cuts the sequence.
`Settled` and `Thrown` are the two shapes a step may leave it in, an activation
that goes on and an error on its way to its protected call; each operation of
the model has a lemma that takes one to one of them, and each action is a
sequence of operations. The lemmas about operations are in `LuaCallsFacts`.
`CollectorRuns` is an action property of the same invariant, with the collector
stopped only below a `GCTM` that no coroutine has jumped over. That the whole
implements `LuaScopes` stays with TLC: it compares histories of closed variables
across threads.

## 10. The compiler and the machine

`LuaParser` and `LuaCode` are the single pass from tokens to instructions, every
function of `lcode.c` an operator that takes the function being compiled; the
sizes of operands are constants, so that the code for what does not fit is
used. `lua_assert`s of the code set `unfit`. `LuaVM` executes the result, an
instruction a step. `LuaMeaning` says what a program does with names, a memory
and an environment instead, and `LuaSyntax` writes trees down as tokens.
`CompiledMeansProgram` compares the two logs of calls and metamethods, and that
programs are refused exactly when the language forbids them.

Bounds of `programs`: families of programs, each of which puts one construction
in the contexts the code generator tells apart (conditions as values, operands
of every kind on both sides, loops with captured variables and every way to
leave them, multiple assignments with conflicts, attributes, varargs,
constructors past the operand sizes, labels and gotos, legal or not). Integers
have 5 bits, so that loops and shifts reach both ends. Operators of a language
are recursive definitions; nothing here can be proved.

## 11. Libraries and lines

`LuaMatch` is the matcher of `lstrlib.c` with its backtracking through
`MatchState`; `LuaPatternMeaning` gives all ways a pattern matches, in the order
of the manual. `LuaRanges` has the functions that take positions on integers
that wrap around. `LuaLines` writes and reads `lineinfo` and `abslineinfo`, with
removal and correction of the last instruction. `LuaSort` takes a step for each
call of the order function, which may be no order at all.

`RangesAreExact` leaves out lists that end at the largest integer, where there is
no place for one more: `insert` computes that place with wrap-around, and `remove`
takes the smallest integer for it, although the comments at `ltablib.c:84` and 106
say that the position is checked. Lists that end one before are in the run and
are not excepted.

`SortEnds`: with any answers of the order function, from call to call in
contradiction, the sort ends, with the array or with the error. The only
fairness is `WF_sortvars(SortNext)`, that the order function returns and `sort`
goes on.

Bounds of `library`: patterns of up to three pieces (four with captures) on
subjects of up to four characters; arrays of up to six elements of three values
or nine of two, any order function on five and six; all positions -8..7 for
ranges; functions of up to ten instructions with lines 0 to 3 and byte limit 2.
`RANLIMIT` 4 and `RATIO` 2 make both the random pivot and a bad split happen.

Proved in `LuaSortProofs` for arrays of every length, all pivots and seeds and
every order function: `SortIsSafe`, and for an order `SortCorrect`: when it ends the array is
sorted and is never called invalid. `SortInv` says that the parts that wait do
not meet, that elements of different parts are in order, and that the pivot
splits its part; that the nesting stays below the logarithm needs `Nested` (each
waiting part is at least as large as all that its call still sorts). Both are
inductive together with the type. That an invalid order function is always
noticed is no theorem: it is not in the code.

## 12. What the proofs rest on

Assumptions are the named `ASSUME`s of the modules, which every run evaluates,
and one hypothesis: `StrongTables` for the refinement of `LuaHeap`. Each theorem about a specification has the
form `Spec => []P` or `Spec => [][A]_vars`, with three facts: `Init` gives the
inductive invariant, each action keeps it (one step per action, under it one per
conjunct it can disturb), and it implies `P`. The inductive invariants were run
through TLC before they were proved. `NatFacts` proves the least-number
principle in the forms the proofs need, induction on sets of naturals and the
existence of functions defined by recursion, from the library's facts about
well-founded relations.

What stays with TLC, and why:

* liveness (`WaitKeyAnswers`, `GarbageIsFreed`, `SortEnds`): it rests on fairness and on
  which actions are enabled, and neither is in the prover's reach;
* what recursive operators or folds compute for every input: `LuaTable`,
  the compiler, the machine, `LuaMatch`, `Terminal`, `LuaLines`, `LuaRanges`;
* the refinement of `LuaScopes`, which is within reach of the same invariant.

## 13. Plan

* `LuaCalls`: the refinement `ImplementsScopes`, with the frames' variables and
  the history `scopes` related in the chain of `Holds`.
* `LuaTable`: `Chain` as a function instead of a RECURSIVE operator, then
  that every chain is whole, and `GetnIsBorder`.
* The generational mode, interning of strings, `luaL_ref`, `wildcard_match` and
  `cd` have no model.

## 14. Observations

What came up while the models were made, and is outside their properties or an
exception in them:

* The collector stops for ever after `coroutine.close()` in a finalizer that
  runs in that coroutine (`lgc.c:987`, section 9).
* A weak table keeps a collected value when memory is short while its array part
  shrinks (`ltable.c:728`, `stale` in section 8; `lobject.h:101` says no value a
  program handles is dead).
* A coroutine that closes itself while it is being closed after an error leaves
  that close half done (`ldo.c:1065`).
* `sd.copy` and `sd.append` report success on a full card: they do not look at
  what was written (`lua.ino:2463`, 2528) before "Datei erfolgreich kopiert."
  (2468) and "Erfolg an Lua melden" (2530); `short` in section 6.
* `sd.unmount` leaves files open (`lua.ino:2576`, run `sd_unmount`); F1 removes
  the file before it knows that it can write, and the editor closes as if it had
  saved (`lua.ino:1524`); a program that fails leaves its file slots taken
  (`lua.ino:2723`).
* Closing or updating a window erases windows that overlap it; titles and long
  words outside the window (`lua.ino:3161`, 3190), an error in the middle of
  `vga.openWindow` (3206) and opening an open slot leave parts of the screen
  that nothing restores, though the header (`lua.ino:44`) says that the exact
  background is; double-width text loses its right half.
* Windows stay open when a script ends.
* Backspace in the first column removes a character from the line but not from
  the screen.
* The editor's remembered cursor survives when a file cannot be read or has the
  name of the last one in another directory (`lua.ino:1115`, run
  `editor_other_file`); a search may leave the text.
* `table.insert` into a list that ends at the largest integer stores at the
  smallest, and `table.remove` accepts that position (`ltablib.c:75`, 84, 106).
* PrintScreen works only while something polls the keyboard, though the header
  of `lua.ino` says "zu jeder Zeit".

## 15. What is not modelled

* Of the keyboard: the translation of key codes, and `break_marker`, which is
  set and never read.
* Of the editor: drawing, colours, scrolling, the board without PSRAM, and what
  the interpreter does with the buffer afterwards (ESC runs it, as F1 does).
* Of the collector: open upvalues, dead keys, strings and userdata without user
  values (nothing to visit), `lua_close`, sizes and pacing, and the
  generational mode, which nothing in the sketch or on the card switches on.
* Of the compiler: reading characters, and every limit whose excess is an error
  (registers, `lcode.c:479`; results, `lcode.c:215` and 759; variables, upvalues,
  length of jumps, nesting): no program of the run comes near one. Of the
  machine: hooks, the size of the stack, and floats with a fraction.
* Of the calls: arguments and results other than errors, debug hooks, the size
  of the Lua stack.
* Of the terminal and windows: points, lines and pictures, which the code does
  not keep and cannot restore.
* Of the SD card: how paths are resolved and directories listed.
* The parts `PROJECT.json` marks so: hardware bindings, sound and sprites
  (commented out), the flash loader, dump and undump, and the programs on the
  card.

## 16. Mutants

Operators whose name ends in `_bug` stand before the definition they are a
mistaken version of: a check dropped, a reset or a step forgotten, a barrier
missing. No specification uses them. Replacing the definition by one of them
makes the property named beside it in `PROJECT.json` fail.
