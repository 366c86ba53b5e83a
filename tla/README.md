# Formal models of the CFA835 LCD program

The repository is a C++ program that drives a Crystalfontz CFA835 LCD over a
serial port (`/dev/ttyACMx`): it sends commands and bitmaps, receives answers
and key reports, and shows pages that react to keys and to web socket messages.
This directory holds TLA+ modules of its core logic, TLC configurations that
check them, and proofs. Paths below are relative to `src/src/` of the
repository; "line" without a file means `hardwares/crystalfontz/cfa835.cpp`.

## 1. Inventory

| Component | State | Operations | Talks to | Hard behaviour | What makes it correct |
|---|---|---|---|---|---|
| Command channel (`cfa835.cpp` 335-492) | queue `packages`, mutex, condition variable | `send_message`, `send_data`, `receive_message`, `process_package` | callers, reader thread, device | threads, notify outside the mutex, wait without timeout, lost/refused/damaged packages, unplugging | each command returns its own answer, after the device did it; no lost wake-up; key reports never mixed with answers |
| Byte reader (254-333, 387-437) | position in a package, io_context | `discard_initial_data`, `read_uint8_t`, `read_package` | serial port, `process_package` | lost bytes, pauses, timeouts that are retried at some bytes and fatal at others | only packages the device sent, in order, each once; realigns after silence |
| Command table (505-1284) | none | 40 commands | channel | limits on arguments against the size of a package | frames fit, length byte honest |
| microSD (1011-1108, 1286-1314) | `is_file_opened` | open, close, seek, read, write, delete, `upload_file` | channel | early return, restart, short last chunk | flag agrees with the device; an upload is whole |
| Key input (`hardwares/input.cpp`, `application.cpp` 139-151) | `Input::input_event` | `parse_input_event`, `set_input_as_handled`, `process_input_event` | key threads, pages | one detached thread per key report, no lock | an event reaches components until one handles it |
| Pages and viewport (`viewport.cpp`, `components/views/`) | root page, index of the dashboard, registered handlers | `set_root`, `input_event`, message handlers | Input, WebSocketClient, tree | replaced by key threads while the main thread walks them | handlers match living pages; index within the tabs |
| Application (`application.cpp`) | connected and excluded ports, main display | `detect_device_event`, `update`, `run` | factory, viewport, display server | plug and unplug at any time | main display is a connected device |
| WebSocket client | handler map, queue of 200 | `on_message`, `process_all_messages`, `register_message`, `deregister_message` | server, pages | full queue, double registration | no handler of a dead page; messages in order, lost only at the limit |
| Component tree | children | `add_component`, `remove_component`, two walks | main thread, key threads | walked on raw pointers while a page is replaced; in the tree before it is initialized | a walk meets only what lived when its frame began; the root comes to be shown whole |
| Containers | sizes | `resort`, `fit_child_in_rect` | pages | a pass that starts over, float fractions | children do not overlap, the space is used, equal children get equal shares |
| Widgets (`components/core/`) | text, visibility, step of the progress bar | `update`, `set_text` | display server, key threads | text changed between measuring and drawing, unsigned space that wraps | nothing outside the screen; the selected tab comes to be shown |
| Display server, factory | the main display, constructors | drawing, lookup | channel | a display that goes | the main display is one that works |
| Filled shapes (`display_server.cpp` 172-239) | none | `draw_triangle`, `draw_parallelogram` | channel | float sums, truncation, division by zero | filled to the borders and not beyond |
| Bitmaps (16-146 and `components/core/bitmap.cpp`, a copy) | none | `get_bitmap_data` | files | row order, padding | the picture is upright |
| CRC (181-214, 494-503) | none | `get_crc` | channel, reader | a table typed in by hand | it is the CRC of the device |
| `run_command` (`utils/helpers.cpp` 42-53) | a pipe, a child process | `run_command` | application | waits before it reads | returns all output that fits the pipe |
| Font reader, command line | none | parsing | - | none | not modelled |

In the present build the web socket client is never connected and
`process_all_messages` is commented out (`viewport.cpp` 44-46, 86), and only the
main thread calls commands of the driver; the reader thread and the key threads
call none.

## 2. Plan

Written, in this order, the most important behaviour first:

1. `CommandChannel` with `Rpc` as its abstraction, `CommandChannelProofs`.
2. `Commands`, `FrameBuilder`: the command table and the frame.
3. `MicroSd`: the file commands and `upload_file`.
4. `PackageReader` with `LossyFifo` as its abstraction: bytes, timeouts, CRC.
5. `PageNavigation` with `Navigation` as its abstraction: key threads, Input,
   pages, the dashboard's tabs and the registry of message handlers.
6. `HotPlug`: the frame loop and devices that come and go.

7. `BoxLayout` and `DashboardView`: the layout of a container, and the picture
   of the dashboard while keys change it.
8. `MessagePages`: the queue of the web socket client, the registry of handlers
   and the pages that messages open.

9. `TreeWalk`: the main thread's walk while key threads replace the page.
10. `ShellCommand`, and the algorithms `Checksum`, `Shapes` and `Bitmap`, each
    against a reference; seek and read in `MicroSd`.

11. `MessagePagesProofs`, and the files of the card in `DriverProofs`.
12. `PackageReaderProofs`, `HotPlugProofs`, `PageNavigationProofs`, the dashboard
    and the walk of the tree in `ComponentProofs`; `NothingIsMistaken` and
    `QueueBounded` in `CommandChannelProofs`, `CountedWereAnnounced` in
    `MessagePagesProofs`.
13. The algorithms, for inputs of any size: the layout of containers in
    `ComponentProofs`, bitmaps and filled shapes in `DrawingProofs`, frames, the
    CRC and the safety of `run_command` in `DriverProofs`.

Left open: what overlapping keys may still do to the tab. `ImplementsNavigation` is for
one key thread at a time; with more, two threads that test the index before either
stores it can move it by more than one tab.

`CommandChannel` composes the table `Commands` (through `MCCommandChannel`) and
refines `Rpc`; its wire of whole packages is what `PackageReader` hands on, its
key threads are what `PageNavigation` starts from, and `HotPlug` sees a command
as one wait. `Checksum` justifies the CRC test that `PackageReader` takes for
granted, `ShellCommand` the listing of ports that `HotPlug` makes in one step, and
`TreeWalk` looks at the steps of `set_root` of `PageNavigation` from the other
side, that of the main thread. `MCParts` puts ten modules that share no state into
one run: `active` names the one that moves, the others rest, so this is ten checks
in one.

## 3. Modules and code

### CommandChannel

A caller is a thread inside a command. `pc` says where it is: `idle`, `payload`
(frame written, pixels not), `receive` (holds or is about to take the mutex in
`receive_message`), `waiting` (asleep on `packages_cv`), `threw` (the write on a
dead port threw). `request`, `sent` and `answer` are its current call, the
number of its calls and the package its last call returned. `packages` is the
driver's queue, `reader` the state of the thread in `read_package`
(`reading`, `notify` between the unlock and `notify_one`, `stopped`), and
`keyThreads` the key reports that started a thread. The wires `toDevice` and
`fromDevice` carry whole messages. The device is environment: it answers each
command it reads, in order, and a command that announces pixels
(`send_bmp_to_display_from_host`) makes it take the next thing on the line as
pixels.

One critical section of `packages_mutex` is one action: `SendMessage`,
`SendData`, `TakeAnswer` and `Sleep` (the test of the predicate and the atomic
release-and-sleep), `ReaderQueues`. `ReaderNotifies` is separate because line
474 runs after the unlock. `SpuriousWakeup` is what `std::condition_variable`
allows.

`origin` is a history field of a package: whose call it answers. The code does
not see it; no guard of a host action reads it. The asserts on `response[0]`
after a command are not a step of the model, they are the property
`EchoAsserted`; where it fails the real program aborts.

The faults: `lost` (a command damaged on the way to the device), `reject` (the
device answers with its error bits, 0xC0 + code), `corrupt` (CRC of an answer
does not match), `stall` (a pause of 5 s among data bytes, which ends the
reader), `stray` (a package nobody asked for, such as a late answer to the previous
process), `unplug`. A stray package with the code and the size a caller waits for is
taken for the answer (line 479-483), and the answers of that caller are then shifted
by one: the history variable `strayed` says that one came, and the properties that
cannot survive it say so.

### Rpc

The abstract call: out, executed by the device exactly once, returned with its
own result. `CommandChannel!ImplementsRpc` maps `phase` from `pc` and
`executed`, `calls` from `sent`, `result` from the origin of the answer.

### Commands, FrameBuilder

`Commands` is a table, one row per command of the driver: code, data lengths
its asserts admit, answer sizes it waits for, sub-command asserted in
`response[0]`. `MCCommandChannel` takes its requests from it, so that the codes
and sizes which may collide are those of the code. `FrameBuilder` takes any
command and any admitted length, builds the frame and applies the assert of
line 349. No build file defines `NDEBUG`, so asserts abort. Data that no assert
limits is cut at `MaxInput` = 260, past both a package (124) and a byte (255).

### MicroSd

A command and its answer are one step because one thread calls them
(`CommandChannel` is about their interleaving). `opened` is `is_file_opened`,
`file` the file the device really has open. `open_micro_sd_file` is `StartOpen`
or `StartUpload`, `CloseBeforeOpen`, `Open`; `upload_file` goes on with
`UploadChunk` and `UploadEnd`, or returns with the file open if the local file
(`None` as size) cannot be read. `Seek`, `ReadData` and `WriteData` move the
device's `position` in the open file; the location of a seek is cut to four
bytes. A file command on a closed file throws to its caller, which changes
nothing. `StartAgain` is a new process with the same device.

### PackageReader, LossyFifo

`wire` are the bytes on the line, `got` those of the package under way. The code
has one read per part of a package; `Part` says which one the reader is in, and
`GiveUp` what a timeout does there: among the data bytes the thread returns
(line 413-418), at any other byte the package is given up and the loop starts
over. `Timeout` is a silent line; `TimeoutInPause`, a fault, a device that
pauses in the middle. `Discard` is `discard_initial_data`; it may cut the bytes
anywhere, for it ends when 100 ms pass without data, and the reads that follow
start wherever that was.

A byte carries its package, its place in it, and whether it was damaged. The
reader looks at its `value` alone, and only the CRC test sees the rest: it holds
of exactly the bytes of one package in order. What that leaves open, that damage
could hit the sum of another package, is `Checksum`'s question.
`inStep` and `clean` are history variables: whether the reader begins its
packages where the device begins them, and which packages were sent while it did
and were not touched. `LossyFifo` is the promise to the channel: packages of the
device, in order, each at most once.

### PageNavigation, Navigation

Nothing in this part of the program is locked: `Input::input_event`,
`Viewport::root`, the component list and the handler map are shared by the
detached key threads and the main thread, so each access is a step. `Report`
starts a key thread (`cfa835.cpp` 461-463), `ParseInputEvent`, `Collect` and
`Visit` are the broadcast (`input.cpp`, `application.cpp` 139-151,
`component.cpp` 194-221), and `TestBound`, `LoadIndex`, `StoreIndex` and
`ShowTab` one access each, for the dashboard tests `current_index` and then
changes it. The key `other` stands for every event no page uses: a release,
LEFT, RIGHT. The debug build (`-O0`) reads the index again where the release
build (`-O2`) may keep it in a register; both are behaviours of the model.

`set_root` is four steps: `Construct` (the new page exists, and a dashboard has
registered, before the old one is gone), `RemoveOldRoot`, `AssignRoot`,
`AddNewRoot`. A page lives as long as it is referenced by the component list,
the root or a `set_root` under way (`Alive`); its destructor deregisters its
message. The copies of a list that a walk holds for one turn of its loop
(`component.cpp` 186, 206) are left out: in the code they may keep a page, and its
handler, for that much longer. `register_message` on a registered type throws, and an exception
nobody catches ends the program: `terminated`. Only the dashboard and the
confirmation page exist, the pages that keys can reach; the containers and texts
inside a page ignore events.

`Navigation` is what a user sees: one page, and each key one move between tabs
or pages. `Overlap` says whether a key thread may start while another one runs.
A press and its release come some 50 ms apart and a broadcast takes much less,
so `FALSE` is the ordinary case, but nothing in the code enforces it.

### HotPlug

One frame of `Application::run` is `Clear`, `List`, `Open` once per port,
`Drop`, `Choose`, `Draw`, `Flush`; the world may change between any two of them.
An object is a port and the number of the plug-in it was opened at, and `Works`
as long as that plug-in lasts. `readers` are the detached threads of
`read_package`, which end at the next failing read (`ReaderEnds`). `excluded_ports`
is left out: `initialize` of the only registered device always returns true, so
nothing is ever excluded.

The channel and the pages are in modules of their own. Here they are as coarse as
the question allows, what can stop the main thread, and lose no way in which they
can:

- *the port*: a command on a dead port throws, and so does the constructor of a
  device whose port has gone since it was listed;
- *the line*: a refused command, a damaged command or answer (line 447-456) leave
  the command without an answer (`AnswerIsLost`), and a pause among data bytes ends
  the reader with the device plugged in (line 413-418, `ReaderTimesOut`);
- *a late answer to the previous process* (`AnswerIsStray`): the assert on its
  sub-command fails, or it stays at the front of the queue;
- *keys*: a key thread finds a page (`KeyMeetsPage`) and, however much later, puts the
  other one up (`KeyTurnsPage`), which throws in `register_message`
  (`web_socket_client.cpp` 98-104) if it is a second dashboard. Two threads among the
  pages at once, key threads or a key thread and the main thread
  (`KeySpoilsPage`), may crash: that is `PageNavigation` and `TreeWalk`.

`mishaps` is the history of these causes. A main thread that sleeps for an answer
which cannot come `Hangs`.

### BoxLayout

`resort` along the axis of the container (`container.cpp` 96-219). `Measure` is
the first loop, `Refit` one round of the loop that takes a child which is too big
out of the stretching ones and starts over, `Settle` its last round, `Place` the
loop that calls `fit_child_in_rect`. All stretch ratios are 1.0 because nobody
changes them. The code sums fractions of a pixel in `float` and gives out a pixel
when they reach one; three shares of a third may end just below it, so the model
leaves open whether that pixel is given (`missed`), except for binary fractions,
which are exact. `Component::get_size` compares two vectors by x first, so the
minimum may replace a size that is only shorter in x, or not replace one that is
shorter in y: `below` leaves the outcome of that comparison open.

Sums over children are cardinalities: `Pixels` has one element for every pixel of
every child, so that `Total` adds, splits and grows as sets do.

### DashboardView

One frame of the dashboard in the order of `traverse_depth_first`: the page sets
the arrows, the column gives each row its width, then arrow, progress bar, label
(`Centre` measures, `DrawText` prints), arrow, flush. A key changes
`current_index` and then the label's `std::string`, which is no atomic
assignment: while it is `copying` a reader gets the old text, the new one, a
mixture or a character without a bitmap (`NoGlyph`, where the factory has nothing
to make and the program ends). Only the horizontal axis is modelled. A middle tab
changes no arrow, so an arrow that was hidden at an end stays hidden there: that
an arrow is shown means there is a tab in that direction, not the reverse, and
`QuietFrameIsTrue` says just that.

### MessagePages

`OnMessage` is the receive thread, `StartDraining`, `ProcessMessage` and
`EndDraining` are `process_all_messages` as the viewport would call it, and
`ReplacePage` is a handler that opens a page: the constructor registers first, the
old page deregisters when `set_root` lets go of it. `CountEngines` is the handler
of the engines page: every entry of the payload counts, as often as it names an
engine, while the list takes a name once (`engines_page.cpp` 90-107). `ended` is an exception of `register_message`. The lines
that connect the client and process messages are commented out in the viewport
(`viewport.cpp` 44-46, 86), so this module is about the classes and those lines,
not about what the present build can do.

### TreeWalk

One frame of `Application::update` is `BeginFrame`, then `Visit` and `Fetch` for
every component, then `EndFrame`: `traverse_depth_first` takes a raw pointer off
its stack, calls `update` on it and only then copies its list of children. A key
thread meanwhile goes through `EraseRoot`, `AssignNewRoot`, `PushRoot` and, once
per row, `Build`, for `add_component` calls `initialize` after it has put the page
into the tree. `children` is the viewport's list, `built` how much of each page is
in the tree. Nothing is locked, so three things are undefined behaviour and leave
open whether the program ends (`crashed`): a component used after it was
destroyed, a list copied while it changes, and a dashboard's `update` before its
arrows exist, which always ends it. The two properties say what remains true: only a frame that a replacement
runs into can fail, and if none does, the screen comes to show the root as a whole.
Here key threads come one at a time; `PageNavigation` lets them overlap.

The comment at `component.cpp:205` says that the post-order walk visits the
left-most child first; it visits the right-most one first, because its second stack
reverses the order again. No handler depends on it: one page takes keys.

### ShellCommand

`run_command` starts a child, `Wait`s for it and only then reads its pipe
(`GetLine`). The child's steps and the pipe are external. More lines than
`PipeSize` leave the child waiting for room and the parent for the child.

### Checksum

`CRCTable`, `Sums` and `GetCrc` as in the code; `Packed` is what `send_message`
writes, `ProcessPackage` the test of `process_package`. The reference computes the
same sum bit by bit from the polynomial of CCITT, 0x8408 when reversed. The community
module `Bitwise` is recursive, which the prover does not accept, so `Xor` is built
from the one of two bits: `TwiceAsWide` makes it one of numbers of twice as many bits,
three times for a byte. What is true of the 256 entries is `TableAssumption`: facts
about the literal table, every case of which TLC computes at the start of the run.

### Shapes

The vertices `v` are three or four, `row` is the row being filled and `stage` where
the function is. A border of the triangle is a float that gets a slope added in
every row; where such a sum should be a whole number it may be just below or above
it, so `Reached` gives two pixels unless the slope is exact in float. A border of
the parallelogram is integer arithmetic that rounds towards zero. The reference is
the line through the vertices, in sixths of a pixel, rounded down.

No page calls either function.

### Bitmap

The driver and the widget hold the same 130 lines. `RawData` lays out a picture as
the file format says, in either row order, and `CopyRow` is one turn of the outer
loop. The header is read as the record `bmp`; a file that is cut short throws.
The palette is looked for one byte too early (line 103: `0xD + dibSize` in a file
whose header starts at 0xE), so red comes from the reserved byte of the entry
before and greys appear at seven tenths; `Shade` does as the code does, and the
property is about the places of pixels.

## 4. Runs

| Run | Question it answers | Result |
|---|---|---|
| `channel_one_caller` | Does one calling thread always get its own answer, after the device did the command, whatever two faults do (strays aside)? Does every call return when there is none? | holds; refines `Rpc` |
| `channel_two_apart` | The same for two threads whose answers differ in code or size, one of which sends bitmaps and the other pings; what do stray packages do to it? What is mistaken for pixels or for a key? Does a blocked queue hold up the keys? | holds until a package strays, and no answer of the other thread is taken even then; the other thread's command between a bitmap and its pixels, and the refusal of a ping; no |
| `channel_echo` | Do the asserts on the sub-command hold with two threads of one group? | violated |
| `parts` | Which admitted arguments make a frame that does not fit, and is the length byte honest? Do children of a container overlap or lose space? Does the dashboard show the truth, on the screen, while keys come? Do messages get lost or reach a page that is gone? | eight commands, honest; no, one pixel at most; yes; only at a full queue, no |
| | Does the flag agree with the device over all orders of file commands? | yes, in one life of the program |
| | What do frames show while key threads replace the page? Does `run_command` return? | the root page in the end, unless a replacement hit a frame; if the output fits the pipe |
| | Is the CRC the device's, are shapes filled to their borders, are bitmaps upright? | yes, for sorted triangles and level parallelograms, yes |
| `triangle` | Are the vertices sorted when the filling starts? | violated |
| `upload_tail` | Is an uploaded file whole? | violated |
| `package_reader` | What survives lost and damaged bytes, pauses and a cut at the start? | everything the faults do not touch; refines `LossyFifo` |
| `pages_serial` | Do pages, tabs and handlers stay consistent when keys come one at a time? | holds; refines `Navigation` |
| `pages_overlap` | What is left when key threads overlap and the display comes back? | no dead handler, every broadcast ends |
| `pages_processed` | Does a broadcast stop only because its event was processed? | violated |
| `pages_replug` | May a device be plugged in at any time? | violated |
| `hot_plug` | Are the ports, the objects and the main display brought in line again? What can end the main thread, or leave it asleep for ever? | holds; an unplugging, a late answer to another process, two threads that meet among the pages; and for sleep what the line loses |

Where the code falls short of what it says (each one a finding):

- `channel_echo`: a flush of one thread takes the answer to a bitmap of another;
  code and size are all that is matched, and the assert of line 1143 fails. The
  application calls commands from one thread only, so this is about the class.
- `upload_tail`: a read of less than 120 bytes ends the loop of `upload_file`
  before the bytes are written. A file of at least 120 bytes does not get that
  far: the frame of a full chunk has 125 bytes and the assert of line 349
  aborts (`UploadChunk`).
- `pages_processed`: `set_input_as_handled` of one key thread clears the event of
  another, whose broadcast stops although no component took its event.
- `pages_replug`: a display that returns makes a second dashboard while the first
  is still the root; `register_message` throws in the main thread.

- `triangle`: the third swap of `draw_triangle` compares `v1` with `v3` where
  `v1` and `v2` may be out of order again. Vertices in the orders middle, bottom,
  top and bottom, middle, top are filled unsorted.

`parts` also shows that the argument asserts of the commands in
`Oversized` admit data the assert of `send_message` aborts on.

## 5. Bounds

- Channel: three commands of one caller or two of each of two callers, with two
  or one faults and as many keys: a command can meet an answer left over from
  the call before the last, and a fault can hit a command and the one after it.
  With two callers a second command of one may slip between the bitmap of the
  other and its pixels. The stray packages are late answers to commands a caller waits
  for (clear, bitmap, pixel), and one nobody takes. The proofs remove these bounds.
- `MicroSd`: sizes on both sides of a chunk (119, 120) and above a package (125);
  125 also stands for the 2^32 at which a location wraps to 0; two names, so that one file can be opened over the other; one restart.
- `PackageReader`: three packages of no and of one data byte, two faults: one
  package can be damaged, the next swallowed and the third must arrive. A junk
  byte read as a length is too short or too long.
- `PageNavigation`: two key threads, six keys one after the other (once through
  all tabs, into the confirmation page and back), three when they overlap; two
  plug-ins make the display return.
- `HotPlug`: two ports, so that a second display can take over, and three
  plug-ins, so that one of them can come back; two key threads among the pages at
  once, so that they can meet. Faults are not bounded.
- `FrameBuilder`: all commands, all lengths up to 260.
- `BoxLayout`: up to three children with minimum sizes 0, 1 and 3 in containers of
  0, 3, 5, 7 and 8: too little space, just enough, shares that do and do not
  divide, and children too big for their share.
- `DashboardView`: the widths of the three texts stand for the fonts, which are
  generated and not in the repository; the shapes have their real 20 pixels; 2^16
  stands for the 2^32 of `unsigned`, which the same wrap-around passes. Keys are
  not bounded.
- `MessagePages`: a queue of 2 instead of 200, so that five messages overrun it;
  five reach every page and come back; two engines in payloads of up to three
  entries, so that one can name an engine twice and another one besides.

- `TreeWalk`: pages of two rows, so that a walk can be between them, and three
  replacements, so that a frame can meet more than one.
- `ShellCommand`: a pipe of two lines, up to four lines: less, as many, and more.
- `Checksum`: 256 packages that take every index of the table, and one with data
  whose first of two neighbouring bytes is damaged in every way, the second not at
  all or in two bits.
- `Shapes`: all triangles and parallelograms with vertices in four columns and in
  lines 0, 1, 3 and 10: slopes up to three pixels a row, and tall shapes, where a
  row meets the sides at fractions smaller than a sixth; a screen of the real size.
- `Bitmap`: widths 1 to 6 need every padding, heights 1 to 3 in both row orders.

`CHECK_DEADLOCK FALSE` stands in every configuration: the bounded workload ends,
a caller may wait for ever after a fault, and an abort or an exception stops the
program.

## 6. Fairness

`CommandChannel` assumes weak fairness of the reader, of the device and of each
caller inside a command: threads are scheduled and the mutex is held only for
finitely many instructions. Starting a command, pressing a key and waking
spuriously are not fair. `AnswersArrive` claims nothing after a fault: the wait
has no timeout. `PackageReader` assumes that the thread runs and its timer
expires, `PageNavigation` that threads run, `HotPlug` that the main thread runs
and a device that works answers; nobody has to plug or unplug. `MCParts` assumes
that the main thread goes on drawing frames and walking the tree, that a key thread
ends the `set_root` it has begun, and that a child process and its parent run when
they can; no key has to come.

## 7. Proofs

All proofs are for every value of the constants that satisfies the `ASSUME` of the
module, in particular for any number of keys, faults, messages, plug-ins and
replacements: the bounds of section 5 that keep TLC finite are parameters here.
What a theorem assumes beyond that is named below.

### The command channel

`CommandChannelProofs`, for any set of callers and any commands:

- `TypeCorrect`: `Spec => []TypeOK`.
- `TokensInvariant`: `Spec => []TokenInv`, the inductive invariant.
- `OwnAnswerInvariant`, `ReturnMeansExecutedInvariant`: consequences of it, and of
  `ShapeInv` once a package has strayed.
- `NoLostWakeupInvariant`: for a single caller.
- `ChannelImplementsRpc`: every step of the channel is a step of `Rpc` or a
  stutter.
- `NothingIsMistakenInvariant`: for any callers and commands, pings included.
- `QueueBoundedInvariant`: for finitely many callers, whatever they call, and
  under every fault, stray packages included.

All but `TypeCorrect`, `NoLostWakeupInvariant` and the last assume `Separated`: what
two callers wait for differs in code or size. It holds of one caller, as in the
application. Without it `OwnAnswer` fails, as `channel_echo` shows.

Stray packages shift the answers, as nothing but code and size is compared.
`TokensInvariant` and `ChannelImplementsRpc` therefore assume that there are none.
The other theorems admit them, and `OwnAnswer`, `ReturnMeansExecuted` and
`NothingIsMistaken` say in themselves what is left: until a package strays (`strayed`)
everything, since `TokensUntilStrayed` keeps the tokens so long, and after it that
the answer a command returns may be one to nobody, never another caller's
(`ShapeInv`: every package of the device has the code and size of its caller's
commands).

`OwnAnswer` is not inductive: that the front package is the caller's own follows
only from knowing that no other package of the same code and size can be there.
`TokenInv` says that a call in flight has one token (its command on the wire, the
device waiting for its pixels, or its answer on the wire or in the queue) and
that a call that is over has none. A fault can destroy a token and never make one,
so a later call of the same caller meets an empty line; a call without a token
waits for ever, which is why nothing wrong is ever returned.

`NoLostWakeup` needs one caller: with several, `notify_one` may wake the wrong
sleeper, who goes back to sleep without passing it on.

`NothingIsMistaken` states what may be mistaken, exactly. `send_message` and
`send_data` are two critical sections, so the command of another caller may get
between a bitmap and its pixels, and the device takes it for pixels: its caller
sleeps for ever, and is never told of a success (`ReturnMeansExecuted`); the caller of
the bitmap is, of a wrong picture. No later command of the same caller gets there, however its
call ends: `RawInv` adds to the tokens where the raw bytes of a caller may
be. And bit 6 alone is cleared from a command byte (line 458), so the refusal
of a ping, 0xC0, is read as 0x80, a key report: `KeyInv` shows that no other
answer is, and that the caller of that ping gets none.

`QueueBounded` compares the packages that are queued or will be with the calls that
are out and the faults there were. `PaidInv` counts everything that can still become
a package: each command on the line and each promise of pixels is one. A step moves
a unit from one place to the next, and only a call or a fault adds one.

### The byte reader

`PackageReaderProofs`, for packages of any size and any number of faults of any kind:

- `ReaderImplementsFifo`: every step of the reader is a step of `LossyFifo` or a
  stutter. `LineInv` says that the bytes in hand and on the line are in the order
  in which they were sent, each at most once, and belong to packages the device
  sent and the driver has not handed on.
- `StopsForCauseInvariant` and `CleanArrivesInvariant`. Neither is inductive: that
  a reader ends up at the end of a package depends on where it began.
  `Framed(k)` says that the bytes in hand and the next `k` on the line are whole
  packages from the beginning of one to the end of one; `StepInv` says that all
  of the line is framed while the reader is in step, and that for each package
  that is to arrive the line is framed up to its last byte. The lemma
  `FramedNext` (a framed reader is complete exactly at the last byte of a package)
  carries both.

### Ports and devices

`HotPlugProofs`, for any ports and plug-ins: `HotPlugTypeCorrect`,
`ObjectsMatchPortsInvariant`, `EndsForCauseInvariant`. `HotPlugInv` adds
that no object is of a later plug-in than the last one, that the main display
is connected, except between the moment its port is found gone and the choice of
another one, that a new list contains the ports of all objects that work, and
that every object works and every listed port is there while nothing has been
unplugged. `CauseInv`, for `EndsForCause`, says what each cause takes away: as long as
nothing was unplugged and the line was good every object has its reader, and as
long as no two threads met among the pages a key thread that is about to put up a
page puts up the one that is not shown (`KeysApart`), so that registering it
cannot throw.

### Pages and keys

`PageNavigationProofs` has two parts. Without assumptions, for key threads that
overlap in any way and displays that come back: `HandlerIsAliveInvariant`.
`HandlerInv` says that who is within `set_root` holds the page it made and who is
within a handler a page to work on.

Under `Serial` (a key thread starts when no other runs, and the display is plugged in
at most once): `RootIsThePageInvariant`, `CallsLivePagesInvariant`,
`TabIsShownInvariant`, `StopsWhenProcessedInvariant`, `PlugAnytimeOnce`, and
`PagesImplementNavigation`, that each step is a step of `Navigation` or a stutter.
`Serial` is the ordinary case and what `pages_serial` checks, for any number of keys
and key threads; the two findings `pages_processed` and `pages_replug` are what
happens without it. The main thread may still show the first page
while the key thread runs. `SerialInv` says, for each place in the broadcast and
in `set_root`, what the root, the list of components, the handler, the event and
the tab are there: the half-done states that the properties do not speak about.

### The pages of messages

`MessagePagesProofs`, for a queue of any size and any number of messages: handlers
are those of the page shown (`CallbacksMatchPageInvariant`, which is
inductive because the messages of pages and of the viewport are apart) and
messages are lost at a full queue only (`LossOnlyAtLimitInvariant`).
`LossOnlyAtLimit` does not say where the numbers it compares come from: `QueueInv`
adds that what is queued or lost has been received, so that the number of the next
message is new and goes to the end of an ordered queue.
`CountedWereAnnouncedInvariant` is for any engines and payloads of any length, with
any repetitions: the names of the entries counted as loaded are in the list
afterwards, which has none twice. The counters count entries: with a repeated name
`loaded` may exceed the length of the list, so the theorem compares the names, and
bounds their number by the counters (`CountersAgree`).

### The driver: files, frames, a command of the shell, the CRC

`DriverProofs`, for any files, sizes and contents of the card: the flag is true in
one life of the program (`FlagIsTrueInvariant`) and no file is opened over an open
one (`NeverOpensOverHolds`). `FlagIsTrue` alone says nothing of an open that is half
done; `FlagInv` adds that it has a name to open and that it reaches the device only
after the flag was down.

`FramesFitHolds` is a fact about the table of commands: the lemma `LengthsFit` goes
through all of them, and but for the eight in `Oversized` none has more than 120
bytes of data. The assert on 124 bytes is what keeps the length byte from wrapping.

`ReturnsOnlyAll` is the half of `ReturnsWhatFits` that is about safety, for pipes and
outputs of any size: what `run_command` returns is all of the output, and it was
in the pipe at once. `ShellInvariant` counts every line in the pipe or in the
string, and says that nothing is read before the child has ended.

`ChecksumCatchesHolds` is for packages of any length and contents, and damage that
changes two neighbouring bytes behind the length in any way. It has two halves.

- *The CRC is the device's.* Both sums are recursive functions. `SumsRun` shows that
  the definition of `Sums` has a solution: `RunExists` builds it step by step, taking
  the steps as a function, which a lemma can have as a parameter. From there both
  agree after every byte, for the table makes up for eight steps (`SumStep`).
- *Damage changes it.* The high byte of a new sum is that of the entry alone, and no
  two entries share it, so it tells which entry was taken (`HighByteTells`). Hence
  the last byte can be told from the high byte of the sum (`ByteTells`), the old sum
  from the new one (`SumTells`), and two bytes from the sums around them
  (`TwoBytesTell`). `TestTells` takes the places one by one: damage inside the data
  is traced back from the end (`SameAfter`), damage of the last byte of data and the
  first of the CRC shows in the other byte of the CRC, and damage of the CRC alone
  leaves the sum it is compared with.

The facts about exclusive-or are proved (`ByteIsXor`), those about the table are
`TableAssumption`, which has no parameter: TLC settles it, all of it, not a
small instance of it. Damage of the length, which moves the place of the CRC, is
in `PackageReader`.

### Components: the walk, the layout, the dashboard

`ComponentProofs` has three parts.

*The walk of the tree*, for pages of any number of rows and any number of
replacements: `WalkMeetsLiveInvariant`. `TreeInv` adds what the viewport's list
is at each step of `set_root` (`RootIsShown`), and that what the walk holds
lives or was lost in this frame, which the fetching of components keeps
(`ComponentsKnown`) and the key thread too (`WalkHolds`).

*The space of a container*, for any number of children, any minimum sizes and any
size of the container: `SpaceIsSharedHolds`. `SpaceIsShared` is about the end;
`BoxInvariant` says why the loop gets there.

- `Refitting`: between two rounds what may still be given out is enough for the
  minimum sizes of those who stretch, and it is exactly what the others leave.
- `Removed`: a child that was taken out would not fit a share now either. Taking out
  a child that is larger than its share makes the shares of the others smaller, so
  this stays true, and it is why the children taken out are the larger ones
  (`SharesAreFair`). If all were taken out the sum of the minima would be more
  than there is, so the last never is.
- `Shared`: the sums after the last round. The fractions are carried from child to
  child, so the sizes add up to the share times their number plus the last carry
  (`CarriesCancel`), and that carry is the remainder of the division, or one less
  where `float` may fall short (`CarryEnd`).

A set of children has no order to recurse over, and the library's induction
theorems need an operator as a parameter. The lemmas that go from child to child
take a least counterexample instead: `LeastNumber` says that a set of numbers that
is not empty has a least one.

*The dashboard*, for screens, texts, shapes and unsigned words of any size:
`DrawnOnScreenInvariant` and `QuietFrameIsTrueInvariant`. Both assume `TextsFit`:
each text, alone, is no wider than the page. The fonts are generated and not in the
repository, so this is a condition on the fonts and not on the code; the widths of
the run satisfy it. It leaves the hard case open, a label centred by one text and drawn
with another. What is proved of it is that the label starts on the screen and
ends where the difference of the two widths takes it (`EndsCentred`), beyond the
screen for fonts whose texts differ that much; in the run they do not. In a frame
without a key it is on the screen for all fonts. `ViewInv` says for each step of a frame what has been
measured and drawn so far and, if no key has come since the frame began,
that it is the selected tab's. The progress bar is arithmetic: `Step` subtracts
in `unsigned` and may wrap, and `WrapsBack` shows that adding the width undoes it
for every size of the word, from which `BarFits` follows.

### Pictures and shapes

`DrawingProofs`, for pictures of any width and height: `PictureIsUprightHolds`.
`BitmapInvariant` says that the scanlines copied so far are in their places and that
`pxIndex` is at the beginning of the next one, padding included; that the byte
found there is the pixel's is division with remainder by the padded width
(`RawPixel`), and that rows do not overwrite each other is the same by the width
(`PlaceElsewhere`).

For shapes with any vertices on any screen: `FillsInsideHolds`, under the conditions
of the property (`Whole`), which `triangle` shows the code does not always meet.
It rests on two lemmas about numbers. `ReachedNear`: the sum of slopes, truncated
and perhaps a pixel off, is within one pixel of the side. `BorderNear`: so is
the integer border of a parallelogram, whichever way it leans and whichever
end is on top. `TriangleMeets` and `FourMeets` say which two sides a row lies
between, the corner in the middle and level sides included, and `ShapeInvariant`
that the rows before `row` are filled between their sides.

The attempt to prove it corrected the property. It used to say that a shape exceeds
its right side by less than a pixel. The sides are measured in sixths of a pixel,
rounded down, and a side that is a fraction of a sixth away from a whole number
of pixels is rounded to a place a whole pixel off. Tall shapes have such rows, and
the run that had no tall shapes now has them: one pixel, not less, is what holds.

## 8. What is only model-checked, and what is not modelled

Liveness (`AnswersArrive`, `KeysDispatched`, `Settles`, `KeyThreadsEnd`,
`ChangesAreNoticed`, `TabComesToShow`, `PageComesToShow`, `ReturnsWhatFits`) is
beyond the prover and stays with TLC, but for the safety half of the last
(`ReturnsOnlyAll`). The safety properties of the passing runs are all proved. What the
prover was told without proof is in `TableAssumption`, which TLC computes, and in the
assumptions on the constants.

Not modelled: the race on the control blocks of `shared_ptr` (undefined behaviour
beyond what `TreeWalk` allows; the other models interleave whole accesses), the
reader thread's use of a device object that has been destroyed (`ObjectsMatchPorts`
bounds when it can happen), `MarginContainer` (four constants, on no page keys
reach), palettes of other depths than eight bits, the font reader, which nobody
uses, the command line, the connection of the web socket client, and messages it
cannot parse. The type invariants of `PackageReader`, `PageNavigation` and `HotPlug`
are part of what is proved; no run lists them. Components and the reasons are listed
in `PROJECT.json`.

The repository holds 73,483 lines of code, of which 67,628 are vendored libraries
(`src/lib`: a JSON parser, a test framework, a web socket library). They are left
out: they are not this program's logic, and the program uses them through the few
calls whose effects the modules state. Of the program's own 5,800 lines the
modules stand for about 2,000; the rest is declarations, generated tables of
strings, the construction of pages from containers and texts, and the command
line's printing of options.
