# A specification of Snek

Snek is a small Python-like language that runs on microcontrollers with a few
kilobytes of memory.  A line is read from a serial port, compiled to bytecode
and executed; everything the program makes lives in one pool of a few thousand
bytes, which a compacting collector keeps packed.  This directory holds TLA+
models of it, the TLC configurations that check them, and proofs checked by
TLAPS: of the memory and its collector, the lexer and the reading of commands,
the compiler, the interpreter, variables and calls, the serial and USB ports,
the pins, the program on the PC that talks to a board, and the server, motors
and sensors of the EV3.

## 1. The system

| Component (source) | State it keeps | Operations | Talks to | Hard part | What makes it correct |
| --- | --- | --- | --- | --- | --- |
| Allocator and collector (`snek-memory.c`, `snek.h`) | `snek_pool`, `snek_top`, `snek_last_top`, the chunk array and its registers, `snek_busy`, `snek_note_list`, the roots | `snek_alloc`, `snek_collect`, the mark and move walks | called by everything that allocates; calls the mark and move methods of every type | objects move under the program; fixed room for the collector's own data; several passes; incremental and full collections | the program cannot tell that a collection happened; it ends; it frees all there is before it gives up |
| Lists, tuples, dictionaries (`snek-list.c`) | `size`, `alloc`, `data`, `note_next` of each list | make, resize, append, get, set, delete, slice, times, compare | allocator; value stack to protect operands | C pointers held across an allocation; capacity beyond the size | sequence semantics; only the items below `size` are seen |
| Frames and globals (`snek-frame.c`) | `snek_globals`, `snek_frame`, `nvariables` | push, pop, look up, insert, delete, mark global | allocator; interpreter | a frame grows by being allocated anew; byte counts and variable counts | a variable has its last value; the others are not disturbed |
| Strings (`snek-string.c`) | bytes of a blob | make, concatenate, times, slice, interpolate | allocator | as lists | sequence semantics |
| Values (`snek-poly.c`) | none | encode and decode NaN boxes, compare | everything | tag bits | round trip |
| Bytecode compiler (`snek-code.c`, `snek-gram.ll`, `snek-parse.c`) | compile buffer, previous instruction, parser's value stack | emit, patch branches, resolve `continue` and `break` | lexer, allocator | running out of memory half-way; operand sizes | every branch lands on an instruction |
| Interpreter (`snek-exec.c`) | `snek_stack`, `snek_a`, `snek_ip`, `snek_code` | one case per opcode, assignment, iteration, abort | all | stack limit; abort at any instruction | value stack balanced; roots complete |
| Calls (`snek-func.c`) | function objects | bind actuals to formals | frames | defaults and names | a formal gets its actual or its default |
| Names (`snek-name.c`, `snek-builtin.py`) | list of names | intern, look up | allocator | ids are positions in a list the collector moves | id and name stay paired |
| Lexer and commands (`snek-lex.c`, `snek-parse.c`) | line state, two indentations, pending exdents, push-back, tokens ahead | next token, recover from an error | line input, interpreter | a token is read to see where a command ends; errors in blocks and parentheses; end of the stored program | what is typed runs whole and once; an error does not last |
| Line input (`snek-io.c`) | buffer, `used` | get a character, edit a line, interrupt | port | interrupt in the middle of a line | a line is delivered once |
| Errors (`snek-error.c`) | `snek_abort` | report, abort | all | leaving half-done work | stack and frames dropped |
| Builtins, numbers, printing | `random`'s state | library | interpreter | floating point | — |
| atmega UART (`chips/atmega/snek-atmega-serial.c`) | two rings, `rx_flow`, `tx_flow`, the data register | get, put, two interrupts | host | interrupts against the program; XON/XOFF both ways | order; no loss; neither side waits for ever |
| samd21 and AVR USB (`chips/samd21/ao-usb-samd21.c`, `chips/avr/ao-usb-avr.c`) | endpoint banks, bits handed between interrupt and program, the control endpoint, a fifo | print, flush, read, interrupts, reset | host, program | flags lost or seen twice; two banks; a reset at any time | bytes once and in order; what is flushed arrives; ^C is noticed |
| Pins (`chips/samd21/snek-gpio.c`, `ao-dac-samd21.c`, `chips/atmega/snek-328p.c`, `ports/*`) | power and state of each pin, the hardware's registers, the sine | the pin functions, a sample interrupt | hardware | a pin goes from one peripheral to another; the tone's interrupt | an output shows its power; an input stays quiet |
| `snekde` (`snekde/snekde.py`) | write queue, flags, the editor's text, point, mark and undo list | keys, a reader and a writer thread | a board's console | three threads and a board, a wait with a timeout, ^C at any time, editing while a text arrives | Get and Put agree with the board; nothing overruns; ^C stops a program; edits can be undone |
| Program storage (`chips/avr/snek-avr-eeprom.c`) | the eeprom | write, show, reset | console | raw mode | as above |
| The server of the EV3 (`ports/ev3/snekserver.c`) | one byte on its way in, one out; what `poll` reported | a loop that does one thing a turn | a client's socket, snek's pipes | a client goes, or is replaced, at any point; both ways full; ^C out of band | bytes in order and not to the next client; neither way stops the other |
| Motors and sensors of the EV3 (`ports/ev3/motors.c`, `sensors.c`, `utils.c`) | the number, and of a sensor the kind, remembered of each port | the pin functions, as reads and writes of files | directories of the kernel | plugs come and go between any two accesses | the device at the port is the one used; what is there is found |
| Hosts (`hosts`, `ports/posix`, the rest of `ports/ev3`) | terminals | I/O | — | — | — |

`PROJECT.json` lists the files of each component, whether it is modelled, and,
under "hazards", the places in the code that tests hardly reach.

## 2. The plan

In the order of importance, and done:

1. **The heap and its collector**: `SnekHeap` on `ChunkArray`, with the abstract
   specification `ObjectGraph` it implements (`SnekHeapImplements`), and the
   binary search it relies on (`FindChunk`, with its proofs); proofs in
   `SnekHeap_proofs`.
2. **The serial port of the atmega boards**: `UartRing`, which implements
   `BoundedQueue`, and `AtmegaUart`, which uses two such queues, both of the size
   in `RingArray`; proofs in `UartRing_proofs` and `AtmegaUart_proofs`.
3. **Variables and calls**: `SnekFrame`, which implements `Scopes`; the proof that
   it does, and others, in `SnekFrame_proofs`.
4. **The language**: `SnekCode` (the code buffer), `SnekGram` (the grammar's
   actions), `SnekValues` and `SnekSlice` (operators), `SnekExec` (the
   instructions), against `Meaning`, which has no bytecode; `SnekLanguage` has
   the programs and the properties.
5. **The reading of commands**: `SnekLex`, `SnekRead`, `SnekReader`.
6. **USB**: `UsbHost` with `SamdUsb` and `AvrUsb`, together in `UsbPorts`; proofs
   in `UsbPorts_proofs`.
7. **A board and the PC**: `Console` (line input and stored program) and
   `EditWin` (the editor pane), `Snekde` on both, `SnekdeMC`.
8. **Pins**: `SamdPins`, `AvrPins`, `Pins` on both, `PinsMC`; proofs in
   `Pins_proofs`.
9. **The EV3**: `SnekServer`, `Ev3Ports`, `Ev3` of both; proofs of both in
   `Ev3_proofs`.

What is worth doing next: that the chunks' search is the `Position` that
`SnekHeap` uses; the list of names (`snek-name.c`); numbers and signs in `SnekLex`;
and the devices of `snekde` as they open, fail and close.

## 3. The modules

### SnekHeap: the allocator and the collector

Memory is a partial function `pool` from word offsets to objects.  A word
stands for SNEK_ALLOC_ROUND bytes, an object for its kind, its size and its
references; numbers are `None`, since the collector treats them alike.  An
object's bytes are never modelled: a `memmove` takes an object to its new
offset and destroys every other object it overlaps (`Moved`), which is what it
does to a C object part of which is overwritten.

| In the code | In the model |
| --- | --- |
| `snek_pool`, `snek_top`, `snek_last_top` | `pool`, `top`, `lastTop` |
| `snek_stack[0..snek_stackp)`, `snek_frame` | `stack`, `frame` (other roots behave as these) |
| `snek_chunk[]`, a union of size and new offset | `chunk[i].old`, `chunk[i].val` |
| `chunk_low/high/first/last`, locals `top`, `c` | `low`, `high`, `first`, `last`, `to`, `c` |
| `snek_busy` | `busy` |
| `walk`'s loops | `root`, `note`, `noteList` |
| the C stack of mark and move methods | `cstack`: one record per active method with its object, the offset it was called with, and its cursor |
| a call of `snek_alloc` in progress | `req`; `pc` says where allocator or collector is |

One step of the model follows one reference (`VisitRoot`, `VisitData`,
`VisitItem`, `VisitVariable`, `VisitPrev`), returns from a list's method and
notes it (`LeaveList`), processes a noted list (`TakeNotes`, `ProcessNote`), or
runs one turn of a loop of `snek_collect` (`FindSkip`, `FindDone`, `FindNone`,
`Copy`, `CopyDone`, `MoveDone`, `NextPass`, `Finish`).  `Collect` is the first
part of a call of `snek_collect`, with `snek_alloc`'s choice of the style.  The
walk matters at this grain because `note_chunk` lowers `chunk_high` while the
walk is still going, references are rewritten one by one while others still
hold old offsets, and a list is noted by the offset it was reached by.

The interpreter is a set of operations that allocate (`CallBlob`, `CallList`,
`CallFrame`, `CallAppend`; the `Alloc` actions are what the caller does with
the memory, as `snek_list_imm`, `snek_list_append` and `snek_frame_push` do) and
of operations that only change references (`AppendInPlace`, `LoadItem`,
`StoreItem`, `DeleteItem`, `Drop`, `PopFrame`, `LoadVariable`,
`StoreVariable`).  Frames have one variable; `list->alloc` is the number of
slots of the data block.

`AllocFails` is the error path: "out of memory" sets `snek_abort`, and
`snek_exec` then drops the stack and the frame.  The model does this at once.
`Finish` also gives the collector's registers their first values again; all of
them are set before they are next read, and so two states that differ in
stale registers only are one.

### ObjectGraph, RootedGraph and SnekHeapImplements

`ObjectGraph` is what the interpreter may rely on: a graph of objects with no
addresses, a value stack and a frame.  Objects nobody reaches do not exist.  A
collection is no step at all.  `RootedGraph` defines the canonical form of a
graph seen from its roots, by which two heaps that differ only in where objects
lie are equal.  `SnekHeapImplements` maps the heap to the graph.  During a
collection references are half old and half new, so the graph is then the one
at the time of the call; the history variable `before` keeps it, so a
collection that does not give the graph back is a step that `ObjectGraph` does
not have.

### FindChunk

`find_chunk`, one turn of its loop a step, on every sorted array.  `SnekHeap`
uses the result of the search in one step (`Position`); this module is why it
may.  No run checks it, since all that is to be said of it is proved, at the end
of the module.  The sizes it shares with the heap are in `ChunkArray`.

### UartRing and BoundedQueue

`UartRing` is a ring of `snek-atmega-serial.c`: `read`, `count` and the array,
with `ring_put`, `ring_get` and the assignment by which ^C empties it, which
leaves `read` where it is.  `BoundedQueue` is what the rest relies on, a
queue that refuses a byte when it is full; the ring implements it.  As with
`FindChunk` no run checks it, since it is proved for a ring of any size.

### AtmegaUart: program, interrupts, line and host

| In the code | In the model |
| --- | --- |
| `rx_ring`, `tx_ring` | `rx` (the count is all that matters), `tx` (a queue, by `UartRing`) |
| `rx_flow`, `tx_flow` | `rxFlow`, `txFlow` |
| `UDRIE0` of `UCSR0B` | `dre` |
| `UDR0` for writing, `UDRE0` of `UCSR0A` | `udr`, and whether it is empty |
| `UDR0` for reading, `RXC0` | `inbox` |
| the loop in `RX_vect` that waits to answer ^T | `pinging` |
| `snek_uart_getch`, `snek_uart_putch` | `doing`; each critical section is the step `Getch` or `Putch` |
| `UDRE_vect`, `RX_vect` | `DataRegisterEmpty`; `Receive`, by the byte received |
| `_snek_uart_tx_start`, `_xon`, `_xoff`, `_flow_do` | `tx_start`, `Xon`, `Xoff`, `Become` |

The program turns interrupts off around each use of the shared state
(`cli`, `sei`), and an interrupt is not interrupted, so one section
is one step.  `RX_vect` on ^T is the exception: it waits, with interrupts off,
for the data register, and only the hardware and the host move meanwhile.  The
second call of `_snek_uart_tx_start` in `UDRE_vect` adds nothing (see the
comment there).

The hardware (`Load`, `Deliver`) and the host are external.  The transmitter
has a data and a shift register.  The host obeys ^S and ^Q; the control bytes
it uses are a constant.  It sends at most `Lag` characters while the device
sends one byte, and none while it has itself stopped the device: the device
could not stop it then, since `tx_flow` holds flow bytes back too.  That ^C also
sets `snek_abort` is left to the interpreter: nothing in this file looks at it.

Bytes the program writes are numbered modulo `Wrap`; consecutive numbers are
what order, loss and repetition can be told by.

### SnekFrame and Scopes: variables and calls

| In the code | In the model |
| --- | --- |
| `snek_globals->variables` | `globals`, a sequence of ids and values |
| `snek_frame` and the frames it leads to by `prev` | `frames`, the innermost last |
| the `snek_op_assign_named` instructions with which a function's code begins | `pending`: the formals whose defaults are still to come |
| function, positional and named actuals on the value stack | `operands` |
| `snek_a` | `a` |
| a function object | its formals, required and named (`Func`) |

Each step is an operation of a program that is not otherwise known: any
expression, load, assignment, enhanced assignment, global or del statement,
call and return, in any order.  Lookup is the search of the code: the first
entry with the id, first in the frame, then in the globals, SNEK_GLOBAL among
the values.  Insertion appends.  An operation that allocates has a second
action for when `snek_alloc` fails, which ends the command but not before the
store that follows has met what the lookup found (`StoreFails`).

`Call` is `snek_func_push` whole: its checks and the filling of the frame are
one step, since nothing runs in between and a frame that fails is dropped.  The
defaults come one a step, as the code runs them.  Whether a call with fewer
actuals than required formals is refused depends on what lies in the pool behind
the frame; both happen in the model.

`Scopes` says what a program may rely on: a name has a value in the current call
or outside, and a call binds all formals at once, defaults included.  There are
no frames, ids or SNEK_GLOBAL in it.  It allows what the code does after an
error and with `del`, and says so: `del` may take other variables with it, and a
call may leave a required formal without a value (section 6).

Values are two, None and another one: what a program computes does not matter
here, which variable gets it does.  Where the values and code lie is the heap's
business (`SnekHeap`), which also has the frames as objects that move.

### The language: SnekCode, SnekGram, SnekExec and Meaning

| In the code | In the model |
| --- | --- |
| `snek_compile`, `snek_compile_size`, `snek_compile_prev`, `snek_compile_prev_prev` | the record `compile`: the bytes, where the last two instructions begin |
| the parser's `value_stack`, `for_depth` | `compile` has them too |
| the bytecode that runs, `snek_ip`, `snek_a`, `snek_stack`, `snek_abort` | `code`, `ip`, `a`, `stack`, `abort` |
| `snek_frame`, `snek_globals` | `frames`, `globals` (functions on ids; see `SnekFrame` for what they stand for) |
| lists in the pool | `heap`, a sequence of lists; indices are references, so sharing is seen |
| what is printed, and errors | `log` |

A program is a sequence of trees, as the grammar parses them.  The generated
parser is not in the repository's source; what it does is call the actions of
`snek-gram.ll` in the order of the text, and so `Walk` gives the actions of a
tree and `Act` what each does to the code buffer, byte by byte: instructions with
their operands, push flags, branches that are patched, forward branches that a
scan of the code resolves by the kind they have.  `SnekExec` then has one case
per instruction, on the bytes.  A step is one action of the grammar or one
instruction, since a command is compiled and run before the next is read and an
error ends that command only.

`SnekValues` has comparison, truth, length, arithmetic on integers,
concatenation, repetition, `in`, dictionaries with their keys in order, and
deletion; `SnekSlice` has the positions a slice takes.  `Meaning` says the same
programs' effect with no code, no branches and no stacks: an evaluator on the
trees that shares only the operators on values.  `Agreement` compares all that a
program shows.

### The reading of commands: SnekLex, SnekRead and SnekReader

| In the code | In the model |
| --- | --- |
| `snek_current_indent`, `snek_lex_indent`, `snek_ignore_nl`, `snek_lex_midline`, `snek_lex_exdent`, `snek_token_val`, `snek_abort`, `snek_interactive` | fields of `lex` |
| `ungetbuf`, and what `getc` will return | `lex.input`, the first `lex.unread` characters of it in `ungetbuf` |
| the generated parser's stack of symbols and its token | `stack`, `lex.token` |
| indentations on the parser's value stack | `indents` |
| the loop over tokens after a syntax error | `skipping` |
| commands given to `snek_exec` | `ran`: their names |

`SnekLex` works on characters, since what goes wrong in a lexer does so there:
the push-back after a second word that does not match, a comment that meets the
end of the stored program or an error, blank lines, indentation inside
parentheses.  `Fetch` is one turn of the loop of `snek_lex`.  A token that is
not all typed leaves the lexer as it was, as nothing but the lexer looks at it
while `getc` waits.  `SnekRead` has the grammar of lines and blocks with enough
expressions to end them early, an LL parser's three steps (`Expand`, `Accept`,
`SyntaxError`), the actions that run a command or keep an indentation, and both
ways `snek_parse` goes on after an error: at once in a stored program, and after
skipping to the end of an unindented line at the console.

A line is one of twenty-two kinds with a letter of its own, so that `ran` tells
which lines were run and with what.  `SnekReader` says what the lines mean by
their kinds and indentation alone.

### USB: UsbHost, SamdUsb, AvrUsb and UsbPorts

`UsbHost` is the host and the program: enumeration, descriptors and line
settings, polls, bytes typed and printed (numbered), resets.  Host and controller
are external: each does what the standard says, as far as the drivers rely on
it.  `SamdUsb` and `AvrUsb` are the drivers, an action for each event the
interrupt handler finds, for each part of `putc`, `flush` and `getc` between
which interrupts are allowed, and for each thing the controller does by itself,
such as the filling of the other bank.  On the samd21 two buffers are handed to
and fro by bits; the AVR's banks are seen through one window that changes while
`_ao_usb_fifo_check` empties it.  ^C is looked for when a bank is: on the AVR a
byte that finds room in the fifo, on the samd21 (`Hook`) a whole bank, also one
that does not fit.  `UsbPorts` has either device with the same host,
program and properties.  A `plan` bounds how much happens; every kind of event
comes at any time in it.

### Console, EditWin, Snekde and SnekdeMC: a board and the PC

| In the code | In the model |
| --- | --- |
| the line, each way | `down`, `up` |
| the UART's ring, or the USB fifo with its banks | `ring` |
| `buf` of `snek-io.c`, what ^C leaves in it | `typed`, `kept` |
| `raw_mode`, `eeprom.write()`, `eeprom.show(1)`, `reset()` | `doing`, `rom`, `addr` |
| `write_queue`, `interrupt_pending`, `getting_text`, `prev_get` | `queue`, `intr`, `getting`, `asked` |
| `snek_edit_win`: `text`, `point`, `mark`, `cut`, `undo`, `changed` | the record `edit` |
| the writer thread's place, `send_data`, `sent` | `writer`, `data`, `sent` |

All three of `snekde`'s threads take one lock, so a key, one look of the writer
at its queue and one byte of the reader are steps.  A token stands for a control
character or a word.  `EditWin` has each key of the editor pane as a function on
windows; `Edit` is any of them, at any time, also while the reader appends what
a Get brings.  `late` and `lost` are history, as is `origin`, the text without the
edits.  The undo list is shared with the console pane, so that plans with edits
have no line typed there (section 6).  Programs fit into the eeprom; of a longer
one the board takes the rest for a line.  Two assumptions on time are
made: that what is on the line arrives, and a board that is going to answer ENQ
does, within the second the writer waits (`Timeout`); and that a patient user
presses the next key when the last one's command has ended (`Quiet`).  The
device is open and its speed is known.

### Pins: SamdPins, AvrPins, Pins and PinsMC

`Pins` has the functions a program calls, which are the same on all boards;
`SamdPins` and `AvrPins` have what they do to a board's registers, bit by bit of
each pin: direction, latch, pull, the peripheral that has the pin, the compare
value, and the converter with its sine.

| In the code | In the model |
| --- | --- |
| `power[]`, `on_pins`, `power_pin`, `dir_pin` | `power`, `on`, `powerPin`, `dirPin` |
| `pull_pins`, or a byte for each pin | `pull` |
| registers of port, timers and converter, `current_power` and the others of the tone | the record `hw` |
| where `onfor` and `tonefor` sleep, and the loop of `stopall` | `call` |
| `_set_out`, `set_out`, `set_dir` of each family | `put`, `set_out`, `talk` and `listen` |

A function is one step but for those that take time, `onfor` and `tonefor`, which
end with a step of their own, and `stopall`, which is a step for each pin it turns
off (`StopPin`), in the order of its loop; the tone's interrupt may come before any
of them.  `Wanted` says what a load is to see: its power, nothing, or, at a pin that
has neither timer nor converter, full power for any.  `listened` and `stale` are
history: the pull a pin was read with, and pins that something else than `set_out`
wrote.  `BoardsAssumption` says what a board is; `PinsMC` has seven with one to three
pins of each kind.

### SnekServer: clients, the server and snek

| In the code | In the model |
| --- | --- |
| `connected_socket` | `connected`, and `accepted`, the number of the last client |
| `stdin_buf`, `stdout_buf` | the same; `EOF` when there is nothing on its way |
| `fds[].events`, and what `poll` finds | `Reports` |
| `fds[].revents` until they are acted on | `ready` |
| the branches of the loop, each of which ends in `continue` | `Order`, and one action each |
| the pipes to snek, its being a zombie | `pipe`, `running` |

`poll` and what is done about it are two steps, between which clients and snek
go on.  The sockets, pipes, clients and snek are external: a client comes,
sends, reads, presses ^C, closes; snek reads, prints, exits, or does neither.
What is sent to a socket that its client has closed is answered with a reset;
another write to it, like one to a pipe that has no reader, ends the server with
SIGPIPE.  Bytes carry the client, or the stream, and a number, so that any loss,
repetition or change of order shows.

### Ev3Ports and Ev3: motors and sensors

| In the code | In the model |
| --- | --- |
| directories `motorN`, `sensorN` of the kernel, and their files | `devs`: all that were ever plugged in, with the port, whether they are there, and the files that are looked at later |
| `motors`, `sensor_kind`, `sensor_num`, `selected_motor` | the same, by port |
| `discover_motors2`, `discover_sensors2` and what they call | `doing` = "list" and "entry"; `left` is what `readdir` has still to return |
| `open_motor`, `open_sensor`, and again after the search | "open", `call.again` |
| what a builtin does with its directory | `call.todo`, a sequence of reads and writes; `Act` does one |

The port, the kind and the number are one access each in the code and one step
here as far as they can differ: a directory's number is given once, so what is
read in it is of one device, or fails.  Plugs come and go between any two steps.
`call.steady` and `call.disturbed` are history: the device that was at the port
when the call began, unless it was pulled, and whether a device of a kind that
the code does not know is or was there, or one was pulled just while its entry
was looked at.  All else that is pulled or put in must not spoil the search.
Scales and what is measured are left out.  The driver refuses a negative time.
`Ev3` has the server and the ports, which share nothing, so that a behaviour is
one of either.

### Faulty forms

An operator under a comment `M: ...` is a faulty form of the definition below
it: a plausible slip in the same code.  No behaviour has it.  It is there to
show that the property that `PROJECT.json` pairs it with under "mutants" would
notice.

## 4. The runs

| Run | Configuration | Question | Bounds, and why they are enough |
| --- | --- | --- | --- |
| `heap_passes` | `SnekHeapPasses.cfg` | Does a collection keep the layout of memory, find the lowest objects, slide without loss, leave the old space alone, give the program the same objects back, and end? | Pool of 4 words, 2 chunk entries, lists, frames and strings of one and two words: up to four objects in three passes, so the array overflows, is found full of objects in place, and is left short; `memmove`s with and without overlap. |
| `heap_graph` | `SnekHeapGraph.cfg` | Do lists do what lists should, whenever a collection comes in between? And is memory really used up when the program is told so? | Pool of 5 words, 2 entries, lists of up to 2 items, no slot to spare: cycles, sharing, appends in place (after a deletion) and by a new block, stale slots beyond `size`. |
| `uart_flow` | `AtmegaUartFlow.cfg` | Is nothing lost on the way out, does the ring for input never overrun, is the transmitter never forgotten, and does neither side wait for ever? | Rings of 8; with lag 1 a ring of 7 is the least that is enough (`5 * Lag + 2`, section 5) and one of 6 overruns; two numbers tell a byte from its neighbour; ^C, ^S and ^Q at any time. |
| `uart_controls` | `AtmegaUartControls.cfg` | Do the answers to ^T overwrite nothing? | Rings of 4, bytes numbered modulo 8 so that every loss shows, all control bytes at any time. |
| `frames` | `SnekFrame.cfg` | Has each name the value it should have in each scope, whatever calls, defaults, global and del statements, errors and failed allocations come before? Does no frame hold a name twice? | Two names (one bound by a step, one not), two values, functions of up to two formals (required, named, or one of each, also one name twice), calls two deep (a caller whose frame must not change). |
| `frames_delete` | `SnekFrameDelete.cfg` | Does `del` delete the variable it is given and no other? | It does not; see section 6. |
| `language` | `SnekLanguage.cfg` | Does the bytecode do what the program means, leave nothing on either stack, stay on instructions, and end? | 1802 programs: loops of each kind with `break`, `continue`, `else` and `return` at two depths, `while` with two conditions, every comparison and its chains, logic with side effects, slices of lists and strings with bounds and strides of either sign, within and beyond the ends, changes of lists, tuples and dictionaries with two names, calls with positional, named and missing actuals, defaults, recursion, and errors.  VALUE_STACK_SIZE is 16, as on the AVR boards, SNEK_STACK 8. |
| `reader` | `SnekReader.cfg` | Does what is stored and typed run whole, once and in order? Is a wrong command never run in part? Does the reader get back after any error? Does what is given back fit into `ungetbuf`? | Up to four lines with two spaces of indentation, the end of the stored program anywhere among them, at most two lines of the less usual kinds; five at the console when the first opens a block. |
| `usb` | `UsbPorts.cfg` | Do both USB devices answer every request, deliver what is printed and typed once and in order, and notice ^C, on the AVR while what is before it leaves room, on the samd21 when its bank comes alone or what came before has been read? | Packets of two bytes and a fifo of three; printing of five bytes, typing of seven with ^C, two requests after each other, a reset in each direction, and everything together, in plans of their own: both banks are used again and again and each transfer ends full, short and empty. |
| `snekde` | `Snekde.cfg` | After Get and Put, do editor and board agree? Is a board's buffer never overrun? Does every command end, and does ^C stop a program? Can edits be undone, also those made while a text arrives? | A ring and a limit of 4 for the code's 16 and 16, a USB fifo of 16, an eeprom of 5; UART and USB boards, the latter with and without the ENQ protocol; programs that end, fill the eeprom or run for ever; twelve sequences of keys of a patient or hurried user.  Up to four keys in the editor pane on three lines with an indentation, two before and while a text is put or fetched; tabs of two columns and pages of two lines. |
| `pins` | `Pins.cfg` | Does an output show its power, whatever it was before? Does an input stay as it was read? Does a tone follow? | Seven boards; powers up to 2, so that full, none and between differ; three samples to a turn of the sine; ints of two bits for masks. |
| `ev3` | `Ev3.cfg` | Do snek and its clients get what is sent in order, and no client another's? Does ^C get through when both ways are full, and does neither way stop the other? Do builtins use the device at their port, find what stays plugged in, and start no motor with old settings? | Sockets and pipes of one byte, so that each is full often, a client that reads nothing, which the next one replaces, and one that reads; up to three bytes in, four out on two streams, ^C and an exit, in plans of their own.  Two ports of each class, so that a plug can be taken from one to the other, and three plugs, so that a third comes or goes meanwhile; one plug for the rest, as each builtin has one device. |

Names of bounds: `Pool`, `NChunk`, `StackSize` are sizes of the code's arrays
(SNEK_POOL, SNEK_NCHUNK, SNEK_STACK), small here; `MaxLen` bounds the items of
a list display and the words of a blob; `Slack` is what `snek_list_alloc` adds
to a list that grows.  Nothing else of the heap is bounded: the pool
itself limits objects.  `RingSize` is UART_RINGSIZE; `Wrap` and `Lag` are
explained above; nothing else of the UART is bounded.  `MaxFormals`,
`MaxFrames` and `MaxGlobals` bound the formals of a function and the actuals of a
call, the calls in progress and the global variables; `VarBytes` and `IdEnd` are
sizes of `snek_variable_t`, 8 and 6 bytes where a float is aligned.  Names are
interchangeable, so `SnekFrameMC` declares them symmetric.

`MaxIndent` and `Allowed` bound what is typed for `SnekRead`; `InSize`, `OutSize`,
`FifoSize` are sizes of packets and the fifo, and `Plans`, here and for `Snekde`,
what may happen at most; `Ring`, `Fifo`, `RomSize`, `Limit` are UART_RINGSIZE, what
a USB board holds, the eeprom's size and `synchronous_limit`; `Full`, `Samples` and
`Steps` are SNEK_PWM_MAX, the length of the sine and the tones' frequencies.
`Programs` are the programs that `SnekExec` runs.  `SocketSize`, `PipeSize`,
`Clients` and `Plans` are the bounds of `SnekServer`; `MotorPorts`, `SensorPorts`,
`Durations` and `Uses` those of `Ev3Ports`, each use with its number of plugs.
`TabWidth` and `PageLines` are sizes of the editor pane, whose keys a plan of
`Snekde` counts.

Deadlock is checked in all runs but three: in `reader` the user stops typing at
the bound, in `snekde` when the keys of the plan are used up, and in `ev3`
the server ends with snek.

**Fairness.**  `SnekHeap` assumes weak fairness of the steps of `snek_alloc` and
`snek_collect` together: they are straight code with no waiting, run by the
only thread there is, and interrupts return.  Nothing is assumed of the
program: it may stop or run for ever.  `SnekExec` assumes that the only thread
there is goes on.

`AtmegaUart` assumes, of the hardware, that the transmitter works and that an
enabled interrupt whose condition holds is taken: `WF` of `Receive`, `Load`,
`Deliver`, and `SF` of `DataRegisterEmpty`, since reception interrupts may come
in between.  That interrupt also gets to a byte of the program: a flow byte
goes before data, but one is due at most twice for half a ring of received
bytes, and an interrupt takes less time than a byte.  Of the program it assumes
that it reads again and again and that a wait in `getch` or `putch` ends once
what it waits for is there again and again; of a host that uses ^S, that it
sends ^Q again and again.

The USB models assume that the host polls and goes on with its requests, that the
controller moves what it may move, and that an interrupt whose flag is set is
taken (weakly on the samd21, whose flags stay; strongly on the AVR, where an
interrupt is enabled only while the program is not at the bank); that the
program goes on with what it has begun, but not that it prints or reads more.
`Snekde` assumes that the writer and the reader thread run, the second passes,
bytes arrive and the board works; a program that prints need not print, and
the user need not press keys.  `Pins` assumes that the sample interrupt comes
while it is enabled, and that a wait of `onfor` ends.  `SnekServer` assumes that
the server's loop goes on and that the clients in `Readers` read; of snek it
assumes nothing, which may ignore its input and print for ever.  `Ev3Ports`
assumes nothing.

## 5. What is proved

For every pool, chunk array, stack and list length
(`PoolAssumption`, `ChunkAssumption`, `SizeAssumption`, `OpsAssumption` only):

* `TypeCorrect`, `LayoutHolds`: the registers stay in range; at every point of
  a collection objects lie apart, below `snek_top`, and do not cross the border
  of the old space.
* `OldObjectsStayHolds`: an incremental collection neither moves nor loses an
  object below `snek_last_top`.
* `SlideIsSafeHolds`: no `memmove` destroys an object that is placed or that was
  marked and is still to be placed.
* `ChunksAreLowestHolds`: after the first walk the array holds exactly the
  lowest marked objects of the pass.
* `FindsPositionHolds`, `ReadsEntriesHolds`, `ShrinksHolds`: the search is right
  on every array, and its interval shrinks with every turn.

For every ring size, line speed and set of control bytes (`RingAssumption`,
`WrapAssumption`, `LagAssumption`, `ControlsAssumption`):

* `RingIsQueue`: a ring implements `BoundedQueue`.  The proof needs the content
  of the ring as a sequence of the slots from `read` on, and that a slot
  written at `read + count` is outside it until `count` grows.
* `TypeCorrect`: neither ring's count leaves its range, and the flow state
  stays one of four.
* `FlowIsKnownHolds`: `rx_flow` tells which flow byte was sent last.  With the
  types it is inductive; the lemmas say what `_snek_uart_tx_start` does to it
  from each flow state.
* `SomeoneSendsHolds`: unless the host uses ^T, the transmit interrupt is on
  whenever there is something to send.  It needs `FullIsHeard` (a full data
  register has its interrupt on), which is what the answer to ^T breaks.
* `NoOverrunHolds`: without ^T, the ring for input has room for every byte that
  arrives, if `RoomForLag`: half a ring and `3 * Lag` fit into the ring, as do
  `5 * Lag + 2`.  The latter is exact: TLC finds rings of 7 (lag 1) and 12 (lag 2)
  enough, and 6 and 11 not.  UART_RINGSIZE is 16 (`snek-atmega-serial.c:26`), enough
  for a lag of 2.  The invariant, `RoomLeft`, says for each flow state how many
  characters may yet come before the host has the ^S that is due or on its way: a
  byte in each of the two registers of the transmitter may go before it, each
  with `Lag` characters.
* `WritesAreExactHolds`: what is on its way out, in the ring, the two registers and
  not yet with the host, are the last numbers the program wrote, one after the
  other, whatever control bytes the host uses, ^T included.  It holds for any
  `Wrap`.  `UartRing` makes the ring a queue, and the lemmas take the way as one
  sequence at whose ends bytes come and go.

For any names and values, functions of any number of formals, calls of any
depth (`ValueAssumption`, `IdAssumption`, `BoundAssumption`):

* `TypeCorrect`: what is found by a search that finds something is what was
  stored there, and SNEK_GLOBAL never gets out of a frame as a value.
* `NamesOnceHolds`: no frame holds a name twice.  The two together, in parts by
  global variables, frames and operands (`IInv`), are inductive.  The lemmas say
  that a first place exists where a name is found (by the least number
  principle), that setting a value changes no id, that inserting a name that was
  not found keeps names apart, as does filling a frame with actuals that
  `snek_func_actual` let pass, and that `del`, although it loses variables,
  makes no new ones.
* `ImplementsScopesHolds`: frames implement `Scopes`, each step being one of its
  steps or none.  This needs `OneStarts`, which with the above is inductive: only
  the innermost call has defaults to assign, has then no name marked global, and
  prepares no call (`OneStartsHolds`).  A frame with distinct names is a function
  from names to values (`Bound`) and a set of marked names (`Marked`); setting or
  inserting a value is `Bind` of that function (`ValueBinds`), SNEK_GLOBAL takes
  the name out of it (`MarkUnbinds`), and a frame filled by a call is the actuals by
  position over those by name over the defaults (`CallBinds`), so that an
  assignment of a default changes nothing.  That formals are given once is counted
  in `Scopes` and compared one by one in the code; `ImageSize` makes the two the
  same.

For any number of clients and of bytes, and any sizes of sockets and pipes
(`BoundsAssumption` of `SnekServer`):

* `InOrderHolds`: each byte snek reads is the next one of the same client, or the
  first of a later one; each client sees every stream of snek in order with nothing
  left out in between, and nothing that an earlier client has seen or that comes
  before that.  The invariant follows a byte on its way.  Into snek: what snek has
  read, the pipe, `stdin_buf` and the socket of the last client are, in that order,
  one sequence in which each byte continues the one before (`InputOK`).  Out of
  it: what a client has seen, its socket and, for the last client, `stdout_buf`
  are in turn; they reach no further than what is out of the pipe, for the
  last client just as far, and begin behind what earlier clients got (`OutputOK`).
  A client that goes takes the end of a sequence with it, never a part in between.

For any ports, durations and situations (`PortsAssumption`, `UsesAssumption`):

* `PortsCorrect`: the types; a number that is remembered, or open, is one that
  the kernel has given.
* `RightPortHolds`: what a builtin reads or writes is at its port.  The invariant
  adds what the numbers and kinds remembered say of the device that had that number
  (`Remembered`), and that an open directory is one at the port (`Opened`).  A number
  is never given again, so what is remembered is stale only if the device has gone.
* `FindsHolds`: the device that was at the port all the time is found.  Only a
  device of no known kind, or one that goes just while its entry is looked at,
  spoils the search; one that has gone when its entry is opened does not, and
  nothing makes the code say that there is no device.  The invariant says where that device is until then:
  remembered, still to be returned by `readdir`, or being looked at (`Searching`),
  and that no other at the port can be taken for it (`Alone`).
* `StartsAsAskedHolds`: after `onfor` and `setposition` the motor has the time or
  target of this call, or has not been started.  The invariant says so for each
  place between the two writes (`StartsInTime`).

For both USB devices, packets and a fifo of any size in which a packet fits, and
plans with any number of bytes each way, requests and resets (`SizesAssumption`,
`PlansAssumption` of `UsbHost`):

* `AnswersAreRightHolds`: each packet of an answer belongs to the last request,
  goes on where the one before ended, and the answer ends where it should.  The
  invariant, `ControlInv`, says in which phase a request is: for each the host's side
  (`HostFits`) and the device's (`SamdFits`, `AvrFits`) of the control endpoint fit
  together: a setup packet that waits, an answer of which so much is sent, a bank
  that is full, a status stage.  The interrupt's flags are in it, since on the
  samd21 a new setup may come before the last transfer's flag was looked at.
* `BytesInOrderHolds`: the host gets what is printed, and the program reads what is
  typed, each byte once and in order; after a reset of the bus what the program
  reads is still in order, though bytes are missing.  What has reached the host, the
  banks that wait for it and the bytes not yet flushed are one sequence that ends
  with what the program printed last (`SamdPrinted`, `AvrPrinted`); what the program
  has read, its fifo and the banks the host has filled are one that ends with what
  was sent last (`SamdTyped`, `AvrTyped`).  The parts are the phases of a bank: being
  filled, handed over, sent or filled but not yet noticed.  That the sequences begin
  with nothing needs `ControlInv`: until the host has configured the device, once
  before the first reset, nothing has been sent or printed.

For boards with any pins, timers, motors and inverted loads, and tones of any
frequency (`NumbersAssumption`, `BoardsAssumption`: one converter, motors with two
pins of their own, a tone's pin among those that its end disconnects):

* `OutputsAreRightHolds`: an output that no tone has shows its power when it is on
  and nothing when it is off, since its last `set_out`.  The lemmas say of each function of
  `SamdPins` and `AvrPins` that it writes all of what a pin shows, and of no other
  pin anything but of its motor's other one; so each pin can be looked at by
  itself.  The invariant is stronger on AVR boards, where it speaks of pins that are
  no outputs too: `talkto` makes them outputs without writing them.
* `InputsAreQuietHolds`: a pin that was read stays an input with its pull.  It needs
  that on the samd21 a peripheral has only pins that it can have (`Waves`), so that
  a read takes the pin from whatever has it.

None of the heap's invariants is inductive. `Layout` alone does not survive a
`memmove`, since it does not know that the place the object goes to is free.
The invariant that is inductive, `IInv`, adds the state of a pass: what is
placed ends at `to`, which no object crosses (`PlacedInv`); the entries are
sorted (`SortedInv`); while marking, the array holds exactly the marked objects
between `chunk_low` and `chunk_high`, and `chunk_high` is the end of the last
entry of a full array (`MarkInv`); the next object to place lies at or above
`to` (`SlideInv`); while copying, the entries not yet copied are intact objects
(`CopyInv`). So an object slides down over free words and itself only. The
proof has one lemma per action; all walk steps go through two lemmas
(`QuietStep`, `NoteStep`), since to the layout a step of a walk is a change of
references and at most one new mark.

The type invariants of the heap, the UART, the frames and of `FindChunk`,
`FlowIsKnown` and `RingIsQueue`, are proved and no longer run.  `uart_flow`,
`uart_controls`, `frames`, `usb`, `pins` and `ev3` check nothing but liveness that is
not also proved.

Model-checked only:

* that the heap implements `ObjectGraph`, and `FullCollectionPacks`: they need
  reachability, an induction over data;
* all of the language, the lexer and the parser (`language`, `reader`), and
  the editor with `snekde`: their operators are recursive, or fold over texts;
* liveness (`AllocReturns`, `HostResumes`, `WritesArrive`, `Ends`, `BytesArrive`,
  `InterruptNoticed`, `Settles`, `InterruptStops`, `ToneFollows`, `GetsThrough`),
  which is out of the prover's reach.

## 6. Where code and words disagree

Run `frames_delete` shows one of these; the others were met while modelling.
The models have them, so the properties are about a program that behaves so.
Where a property leaves one out, it says so.

* `src/snek-frame.c:79` copies what is behind a deleted variable with a length
  in variables where `memcpy` wants bytes.  After `x = 1`, `y = 2` and `del x`,
  `y` is undefined.  `doc/snek.adoc:1671`: "The Del statement deletes either
  variables or elements within a List".  Run `frames_delete`.
* `src/snek-func.c:128` is to "make sure all required formals were given values"
  (line 127), but looks at the first variables of a frame that is in the order
  of the actuals, which all have names.  For `def f(a, b=2)` the call `f(b=3)`
  is made and `a` is undefined in it.  `doc/snek.adoc:1689`: "Positional
  parameters are all required".
* `src/snek-memory.c:564` says a list met by the mark walk is only noted, "to
  avoid deep recursion in the collector".  The code (line 596) calls the list's
  mark method first and notes it after; the second pass then finds it busy.  A
  list nested n deep costs n levels of C stack.
* `src/chips/atmega/snek-atmega-serial.c:182` answers ^T by writing the data
  register from the receive interrupt and leaves the transmit interrupt as it
  was: off, when nothing was being sent.  A byte the program writes while the
  answer is still in the register goes to the ring; `_snek_uart_tx_start` finds
  the register full and returns, and no interrupt comes when the answer has
  gone.  The byte waits until the program writes again or the host sends
  something.  `snekde` sends ^T when it connects.  `WritesArrive` is checked for
  hosts without ^T.  So is `NoOverrun`: each answer is sent before a ^S that is due,
  and a host that sends characters and ^T by turns overruns any ring (TLC finds it for
  16, the code's).

The language:

* A function whose last instruction is a `return` loses it (`snek-gram.ll:41`),
  also when it belongs to the suite of a last `if`: when the condition is false
  the function returns the condition's value.
* In a chain of comparisons, `is` and `in` are compiled to operators that do not
  branch, so `a in b in c` is `(a in b) in c`; `1 in 2` is 1 and no error.
* `snek_op_operand_size` (`snek-code.c:88`) lacks `snek_op_dict`: behind a
  dictionary of three to five entries the scan for forward branches is out of
  step.  `OnInstruction` is checked with up to two entries.
* `snek_list_cmp` (`snek-list.c:270`) returns 1 when the second list is longer,
  so each of two lists may be greater than the other.
* `for x in [1, None, 3]` ends at None; a slice bound equal to 32764 counts as
  omitted; a failed enhanced assignment leaves None in the variable; `'' % ()`
  is None; `snek_string_times` and `snek_list_times` multiply sizes without a
  check, and the former uses its operand's address from before it allocated.
* A push on a full value stack (`snek-exec.c:32`) is noticed when the next
  instruction has ended, which may take what was never pushed; no program of the
  run fills the stack.
* The parser's value stack has 16 entries on the AVR boards; five nested loops
  use more, and what is lost is not reported.

Reading commands:

* `comment()` (`snek-lex.c:176`) stops after one character once `snek_abort` is
  set, so what stands in a comment behind a syntax error is run;
  `doc/snek.adoc:365`: "The `#` character introduces a comment, which extends to
  the end of the line. Anything within a comment is ignored by Snek."  A comment
  without a newline at the end of a stored program takes the first line typed.
* `not index` is read as `not in dex` and `is nothing` as `is not hing`, since
  nothing looks at the letter behind the second word.
* A syntax error found at the end of a line makes recovery swallow the next line,
  and one in a block the first line behind it.  In a stored program recovery is
  immediate, so the rest of the line and the bodies of a failed block are run as
  commands.
* At the end of a stored program a name loses its last letter, and an open
  parenthesis goes on at the console.  After ^C in a block that is being typed
  the next read gives the end of the input, at which the posix port exits.

Ports and `snekde`:

* samd21 USB: `ao_usb_fifo_check` looks at one bank for each interrupt and each
  byte that is read, so when one interrupt sees two full banks a ^C in the second
  is not noticed until the program has read the first, and for ever if it does
  not read.  `InterruptNoticed` says what is left.  A new configuration does not
  reset the count of bytes to be sent; an answer of a multiple of 32 bytes leaves
  an empty packet.  AVR USB: GET_STATUS
  reads through a null pointer; ^C is seen only when the fifo has room.
* `tonefor` leaves the pin on (`doc/snek.adoc:2215` says it turns it off), and the
  converter keeps the last sample of a tone until the next power is set.  On the
  AVR boards `talkto` and a pulled-up read drive a pin high that is off
  (`doc/snek.adoc:2099`: "A pin which is *off* has its output set to zero"), and
  `stopall` does not stop a tone on the 328p, since
  `SNEK_builtin_tone` in its condition is misspelt.  Pull masks are shifted as 16-bit ints on the 328p and
  1284; the mega and the nano every ignore the pull for analog reads.  An
  immediate neopixel has one pixel and is written with three.
* `has_pwm` of the 328p (`snek-328p.c:183`) keeps four bits of the pin's number, so
  that A5, pin 19, passes for pin 3 and has a timer.  `set_out` then reads the
  tables of registers, which have twelve entries, at 19 and writes where that
  leads.  In `Pins` a kind of pin has a timer or has none.
* Ctrl-C in `snekde` never copies; after ^C in the middle of a line the next Get
  fetches nothing; a ^C or a ^D lost during a Put leaves the board in
  `eeprom.write`; a typed-ahead line that starts a program keeps a Get on USB
  from happening; characters that are not printable ASCII are dropped by Get.

The editor pane and the devices of `snekde` (`snekde.py`):

* `set_text` (427) keeps the undo list: ^Z after Get or Open takes back an edit of
  the text before in the new one, and may put the point behind its end.  `undo` is
  an attribute of the class (415), so that the console pane's entries are undone
  in the editor and the other way round.
* `indent` (770) goes to the end of an indentation that is too deep and deletes
  from there, so what is lost is not spaces.  `last_ch` (551) of an empty first
  line is the last character of the whole text.  `prev_page` (624) moves up by
  `lines` + 1; the comment (618) says "moving up by self.lines-1".
* Open replaces unsaved changes without asking, which Get and Quit do.
* When a device goes, its reader and its writer may both fail; each closes the
  device and waits for the other to end.  `stop_autobauder` (264) uses a `dc4`
  that `SnekDevice` does not have.  `failed` (1536) closes the current device, also
  when it is an earlier one that failed.

Motors and sensors of the EV3:

* `motors.c` has no mark for a port of which nothing is known: it has number 0,
  and `open_motor` (186) opens `motor0` for it wherever that is.  After
  `talkto('B')` with one motor at A, `on()` turns that.  `sensors.c` looks at the
  kind first (223).  `RightPort` leaves motor 0 out.
* One sensor that is not supported makes every search fail, for any port
  (`sensors.c:126`), as does a plug that is pulled while its files are looked at.
* `eeprom.write` of the ev3 (`snek-main.c`) compares EOF, which is -1, with 0xff,
  and writes on for ever when its input ends.

The server of the EV3 (`snekserver.c`), whose properties end where it does:

* What snek has printed is lost when it exits while the client's socket is full:
  the pipes are not waited for then, so that nothing comes before the hang-up
  that ends the server.
* Output waits as long as a client goes on sending, for input is looked at
  first; stderr comes before stdout that was printed earlier.
* No signal is ignored.  A client that closes its socket and is then sent two
  bytes, or a byte for a snek that has just exited, can end the server by
  SIGPIPE.

## 7. What is not modelled

* In the heap: `snek_mem_cache` (a cache of the last method table), the C
  pointers that callers hold across an allocation (in the model they fetch
  their operands from the stack again, as the code does), other kinds of
  objects (code and functions; they are frames and lists to the collector), and
  the contents of strings.
* In `SnekFrame`: `del` when there is no memory for the smaller frame (the code
  writes through the null pointer), an id copied by half, which takes six
  globals, builtins, which are expressions here, and names of builtins as
  variables.
* In the language: floats and overflow (numbers are small integers), the
  contents of strings but for their length, interpolation, keyword formals with
  values and enhanced assignment to slices, failures of memory while a command is
  compiled or run (`SnekFrame` and `SnekHeap` have those of variables and lists).
* In the lexer: numbers, signs of one to three characters, escapes in strings.
* In line input: echo, erasing, `input()`, a line longer than the buffer.
* In `snekde`: opening, closing and failing devices, finding the speed of a
  line, two devices at once, the text of the console pane, painting and the dialogs.
* The list of names (`snek-name.c`), whose ids are positions; names are values
  of their own in every model.
* Of the boards: the tables of pins, of which the models have one or two of each
  kind, so that an error in a table or in the way it is read (as in `has_pwm` of
  the 328p, section 6) does not show; the hifive's pins, whose functions mostly do nothing; converters, time,
  start-up, flash, neopixels and i2c, which are sequences of register writes;
  the ramps of motors, which no board builds.
* The posix and ev3 hosts: command line and curses, and what the ev3's sensors
  measure.
* Builtins, numbers and their printing, and the vendored mathematics: floating
  point, out of TLC's reach.

Much of what counts as implementation has no behaviour of its own: the headers
of registers (`samd21.h`, the hifive's `machine.h`, some 4000 lines), the
Windows installer's C and the boards' boot sketches, vendored code, tables of
pins and of characters.  What the models stand for is the code that keeps state.
