# A TLA+ model of W32HttpServer

W32HttpServer is a small HTTP server with a window, for every Windows from 95 on.
This directory holds a specification of it: the thread pool and the server it uses on
Windows 9x, the completion-port server it uses on Windows NT, the way a request is
read and answered and a response body is produced, and the window's start/stop cycle
around all of that. TLC checks the specifications on small instances; TLAPS proves, for
every instance, every invariant and every action property of the passing runs, and the
safety part of the three refinements. The reference is the code under `src/W32HttpServer`; `ARCHITECTURE.md`
is only quoted where the code does something else.

## 1. Inventory of the system

| Component | Source | State | Operations | Interacts with |
|---|---|---|---|---|
| Windows 9x thread pool | `thread_pool.c` 8-167 | array of 64 work items, linked queue, stack of free indices, semaphore, mutex, event, `is_shutdown` | init, queue_work, worker loop, shutdown | called by the listener and the GUI thread; calls the client handler |
| NT completion port pool | `thread_pool.c` 170-445 | port, worker threads, `is_shutdown` | init, associate, worker loop, shutdown, post accept/recv/send | kernel completes operations; calls the completion handlers |
| NT server | `server_win32.c` 216-270, 433-548 | client contexts (operation, stream), listening socket | listener thread, accept/recv/send completion | posts operations, frees contexts |
| Windows 9x server | `server_win32.c` 163-213, 342-430 | listening socket, client contexts | accept loop, blocking client handler | queues jobs to the pool |
| Start and stop | `server_win32.c` 27-106, 272-289; `main_window_handlers.c` 354-476 | `g_is_server_run`, `g_server_config`, `ssocket`, button state | click, start_server, stop_server, listener thread, STARTED/STOPPED messages | GUI thread and listener thread share globals; messages flow back |
| Response streaming | `server_win32.c` 317-328, 552-698 | stream kind, file handle and remaining bytes, directory handle, phase and pending entry | next chunk, close | pulled by either server |
| Request resolution | `server_win32.c` 709-835 | none of its own; sets up a stream | serve_http_request | parser, builders, file system |
| HTTP parser, builders, MIME | `server_http.c` | none | parse, build_*, url_decode, resolve_file_path | request resolution |
| Logging | `logging.c` | `g_parent_log` | init_log, print_log, log_printf | any thread to the window |
| Window, layout, about box | `main_window.c`, `main_window_handlers.c` 1-351 | fonts, controls | WinMain, layout, DPI change | GUI only |
| Folder picker | `main_window_handlers.c` 1-110, 478-533 | function pointers, `g_document_root` | init, shutdown, click | read by the start click |
| Platform detection | `platform_detect.c` | none | detect_platform | start_server |

What is hard here: worker threads, listener, GUI thread and kernel interleave; a
5 s timeout bounds the wait for workers that may be busy for longer; the shutdown meets
a pool in any state; operations fail half way through a handler; contexts change hands
between kernel, port and workers; socket handles and addresses are reused; globals are
shared by the listeners of successive starts; a message box dispatches clicks in the
middle of a click; a request arrives in pieces; a listing is cut into buffers at any
row; a link travels through HTML, a browser, a decoder and a path. Nothing is
persisted, so there is no crash recovery to model, and the process exit ends all.

What makes each component correct, in short: a pool loses and duplicates neither items
nor wakeups, serves in order, and shuts down; a context has one owner at a time and
ends up freed; no handle is closed under another connection; requests end; a body
arrives whole and in order; what is served is what the URL names and lies below the
document root; one server runs at a time and the button tells the truth about it; a
click returns. Each hazard, at its line, is listed in `PROJECT.json` with the
properties that cover it.

## 2. Plan

Written, in order of importance:

1. `WorkQueue`, `ThreadPool`: the Windows 9x pool and the FIFO it implements, with
   `ListFacts` and `ThreadPoolProofs`.
2. `Exchange`, `IocpServer`: the NT server and the per-connection protocol, with
   `IocpProofs` and `IocpContexts`.
3. `ServerLifecycle`: starting and stopping repeatedly, with `LifecycleProofs`.
4. `Win9xServer`: accept loop, contexts, reused sockets and clients, with `Win9xProofs`.
5. `Delivery`, `ResponseStream`: the chunk generators and what they deliver, with
   `ResponseStreamProofs`.
6. `HttpText`, `Browse`: the parser, the decoder, the path, and the choice of the answer,
   with `BrowseProofs`.

What the plan set out to model and to prove is done. Liveness stays with TLC (section 5),
and what is not modelled is in section 7.

## 3. Modules

### ThreadPool (Windows 9x) and WorkQueue

One action is what a thread does between two points where another can run: a call on a
Win32 object, or an access to shared memory outside the mutex. A worker runs
`loop, wait, lock, unlink, recycle, run, busy`, a caller of `thread_pool_queue_work`
`lock, take, link, signal`, the GUI thread `init, create, up, event, join, done`.
The linked list is the sequence `queue` of item indices; `free_work_items` and
`free_work_count` are the sequence `free` with the top at the end; `item[s]` is the
item's `param` (its `work_func` is always the client handler). The item is put back on
the free stack by `WorkerRecycle` and read by `WorkerRun`, in the code's order.

Win32 semantics that matter: the wait for two handles reports the semaphore when both
are signalled; a wait or release on a closed handle fails and the code, which looks at
no result, goes on (`Acquire`, `Release`, `SemReleased`); on a closed semaphore a
worker spins until it sees `is_shutdown`. `Late` says where a worker may be when the
5 s wait for it expires: in its handler only (`"busy"`), which is where a slow client
keeps it, or anywhere. `thread_pool_init` fails at any of its creations and then
shuts down the half-built pool. Where it fails at a synchronization object none of
them is kept (their handles have no users yet). `CallerStep` has no limit on
time, so a caller may be anywhere when the shutdown runs.

`WorkQueue` is what the pool promises: a bounded FIFO, from which each worker
takes the oldest job. The refinement maps the queue to the jobs in its items, and a
worker's job to `owed`, the job that was in the item it unlinked. It says nothing
about what a worker then runs: that is `EachJobRunOnce`, which fails.

### Win9xServer

The listener's loop in `run_server_win9x`, the handler `handle_client_win9x` that the
workers run, and the stop. The pool is the work items and the queue of their indices;
what the code does with them under the mutex is one step, which `ExclusiveAccess` allows.
`WorkerTake` ends with the item back on the free stack and the mutex released, and
`WorkerRead` reads it then (`thread_pool.c` 152-159). If a submission has overwritten it
in between, the worker gets another's context: it is `astray`, its own context and socket
are nobody's, the other's is served and freed twice, and nothing is said of what follows.
`ThreadPoolReuse` shows that this happens. So `ContextPlaced`, `OwnConnection` and
`NoSocketLost`, and their theorems, speak of states in which no worker is astray, and
`RequestsEnd` and `StopEnds` end where one is: they say that this read is the only
thing in the server, pool included, that goes wrong in their respect. Of the
free items `Submit` takes any; the code takes the one that was freed last. The test of
`is_shutdown` in `thread_pool_queue_work` (`Queue`) and the submission (`Submit`) are two
steps, as the code takes the mutex after the test.

Addresses and handles are values that come back: `sock` is Winsock's handle table,
`handle[x]` what `ctx->client_socket` holds, and `serves[x]` a ghost that remembers the
connection the context was made for. When the pool refuses a job, `Refuse` and `Drop`
are `destroy_client_context`, and `CloseAgain` is the second `closesocket` on the same
value. Each client connects, may send its request, and may leave at any time. `recv`
returns when the request is there, the client is gone or the socket is closed; what it
received is then answered, also when it is not a whole request. `send` blocks while the
connection is full: what the server sends may fill it (`Sent`, the client is `stalled`), and
then nothing more is sent until the client reads, or leaves. `Cleanup` is
`WSACleanup`, which closes every socket of the process and so ends what a worker is
blocked in.

### IocpServer (Windows NT) and Exchange

A context is its address: `live` is what malloc has handed out, and a freed address
may come back. `inflight` is what the kernel holds, `port` the packets of the
completion port. `KernelCompletes` ends an operation with success, zero bytes or
failure. Workers run `loop, get` and then a handler, cut at each call that posts,
allocates or frees: after `post_recv` in the accept handler the context is no longer
that worker's, and the handler goes on to `acceptNew` and `acceptPost`. The listener
posts `ThreadCount` accepts, then polls the flag. The GUI thread posts one packet
per worker, waits 5 s for each, closes the port, then the socket. `body` counts
the chunks a stream has still to produce; which answer a request gets is a choice.
malloc fails when `Ctxs` is used up. `Failing` names what may fail besides. When the
listener sees the flag it closes the listening socket, which aborts the accepts, and calls
`WSACleanup` (`Cleanup`), which aborts everything else: from then on (`WinsockUp`) every
operation fails, the ones that are outstanding and those a handler still posts.

`Exchange` is the life of one context: created, one accept, one receive, sends, freed,
with server and kernel taking turns.

### ServerLifecycle

Start `i` has pool `i`, listener `i`, socket `i`. `frames` is the stack of
activations of `on_start_click`: `greet, pool, launch, wait, end` for a start,
`flag, shut, close, end` for a stop. `LogThen` is `print_log`: before `init_log` it
shows a message box without an owner, during which the main window still works. Clicks
are only taken when no sent message waits, as `GetMessage` delivers sent messages first.
The listener runs `begin, make, ready, check, accept, close, notify`; on NT it stays at
`check` until it sees the flag down. The globals `running`, `config`, `ssocket` are
shared, and `ListenerClose` closes the global, not the socket its thread made.
Several boxes in a row between two steps of `start_server` are one box. A failure to
detect the platform is covered by a failing pool. `shown` is what the log
tells the user: servers reported as started and not as stopped. `user` says who clicks:
one who `waits` for the log to report the last server stopped, one who `hurries`, or one
who even clicks while a message box is up (`reenters`).

### ResponseStream and Delivery

A response from `serve_http_request` to `stream_close`. For a file, `ReadChunk` reads up
to what is left or to the buffer's size, and may get less; sizes are kept modulo
`SizeModulus` (2^32 in the code), and a low half of 2^32 - 1 is taken for an error, as
`GetFileSize` cannot tell it from one. `offset` is the file pointer, which
`detect_mime_type` has moved and `Rewind` sets back.

For a listing, each turn of the loop in `dir_stream_next` is an action: take the entry
carried over or the next one, skip `.` and `..`, emit a row if it leaves room for the
closing markup, or carry it over. Of HTML only lengths are kept: a directory is the
sequence of the lengths of its rows. Sending is the loop of `process_client_request` on
9x and the chain of send completions on NT, which take the same steps.

`Delivery` is the promise to the client: parts arrive in order, and all of them before
the connection is closed, unless a read or a send failed; and it ends. The parts are
bytes of a file or pieces of a page.

### HttpText, Browse and MCBrowse

`HttpText` is the text work as operators on sequences of character codes:
`parse_http_request` with its unbounded scans, `url_decode`, `is_safe_path`,
`resolve_file_path`. A scan that does not find its character within the received text
yields `Stray`: the code reads on in whatever memory follows. A method that
`method_map` does not have is any value, as the variable is uninitialised. `Resolve`
yields `Overrun` for a path that does not fit: `wsprintf` (`server_http.c` 497) has written
it past the end of `full_path` by the time its length is compared.

`Browse` is a client and a server. The client types a URL, follows a redirect, clicks a
link of the listing it sees or the link to the parent directory; or it mistypes a URL
(any text that does not end the request), or sends a request of another shape. Links are what `dir_stream_next` and `build_http_redirect_response`
make of the entries and the URL, sent back as a browser does: relative to the page's
URL, spaces escaped, cut at `#`. The request arrives in pieces, is received as the
platform does, parsed and answered from a tree of files. `GetFileAttributes` and
`CreateFile` walk the path component by component, as Windows does: `Steps` is where the
components that end up to a position lead, and `Into` drops `.` and goes up at `..`. A
scan that leaves the text, a path that overruns its buffer, or the unchecked path of
`index.html` (line 775) when it is too long, leads to `undefined`, where nothing more is
said. A path with a device's name (`Devices`: CON, NUL and the like, in every directory) or
with a colon, which names a stream, means to Win32 what the tree does not tell: the
answer is `Unsaid`.

Abstractions: a name of one character stands for index.html; file names differ
in more than letter case; Windows' dropping of trailing dots and spaces is left out.
`TreeAssumption` says what a tree is: a directory as its root, the parent of every entry a
directory in it, and names made of characters that a name on Windows may have. What a
client sees for a node is `Shown`; `/` may also show the root's index.html or be refused
(`Home`), as the path of the root is the root without its slash.

What a click means, `want`, is a ghost: the entry, the parent, the redirect's directory. It
is empty where the URL of the page does not tell (`Meant`): a listing also answers URLs
that were mistyped, `/d//`, `/d%2Fe/`, `/d/./`, one with a backslash or with `%00`,
and what its links lead to is then an accident of the text. `EndsApart` says that the URL
ends in a slash of its own, `TakesOff` that cutting it at the slash before takes one name
off. Both speak of the URL alone, so that a history of clicks may start at a mistyped URL
and still be followed. At `/`, a listing is that of a directory named index.html, and the
links there are excluded too (section 6).
That the server does not wait for more once all of a request has arrived is stated as
safety (`server # "recv"`).

### MC modules and proof modules

`MCThreadPool`, `MCIocpServer` and `MCBrowse` are what the runs instantiate: the second
defines the symmetry of addresses, the third trees and URLs. The other modules are run
as they are. `ThreadPoolProofs`, `IocpProofs`, `IocpContexts`, `LifecycleProofs`,
`Win9xProofs`, `ResponseStreamProofs` and `BrowseProofs` hold the inductive invariants and
theorems of the module they extend; `IocpContexts` builds on the invariant of
`IocpProofs`. `ListFacts` has the lemmas that several of them use: lists without
repetitions, sets of at most one element, induction, flattened sequences.

## 4. Runs

| Run | Instance | Shows |
|---|---|---|
| `ThreadPoolJoin` | 2 workers, 2 items, 3 jobs, one caller, a worker may outlive the wait in its handler, fair | items, wakeups, exclusive access, FIFO refinement, queued jobs are served, shutdown returns (143 000 states) |
| `ThreadPoolLate` | as above, 2 callers, workers late anywhere | FIFO as long as the mutex exists (1.8 million) |
| `ThreadPoolReuse` | one caller | violated: a job is run twice and another never |
| `Win9xServing` | queue of 1, 2 workers, 2 connections, 2 handles, 2 contexts, clients that stop reading, malloc and join may fail, fair | up to a late read of an item, contexts are placed and sockets nobody else's, requests end, the stop ends all threads and connections (186 000) |
| `IocpThree` | 2 workers, 3 contexts, failing worker calls | one owner, bounded accepts (1.2 million, up to symmetry) |
| `IocpLate` | 2 workers, 2 contexts, everything may fail | no further leak, Exchange refinement (385 000) |
| `IocpFair` | 2 workers, 2 contexts, failing worker calls, fair | requests end, shutdown returns (263 000) |
| `IocpDeaf` | 2 workers, 3 contexts, failing I/O | violated: a failed operation ends a worker |
| `Lifecycle` | 3 starts, 2 nested activations, users who wait and users who re-enter, failing pool, association and accept, both platforms, fair | servers never overlap, own sockets, no socket left, stop works, a click returns (267 000) |
| `LifecycleHurry` | 2 starts, a user who does not wait | violated: the old listener runs beside the new one |
| `Responses` | buffer of 8, rows of 1, 2 and 6, up to 4 entries, file sizes around the buffer and the modulus 32, fair | chunks fit, entries once, lengths agree, Delivery refinement, each step advances (22 000) |
| `Browse` | paths of 14, buffer of 27, pieces of 1, 3 or all; trees of one entry, its child and an index, which may be a directory; one device, one stream | requests are understood, nothing outside the root, URLs and links lead where they say (201 000) |

Bounds and why they are enough. In the pool, two items make the queue full with one
worker between unlinking and running, and three jobs make a slot be used again while
that worker has not read it; two workers race for the lists and for the last
semaphore count. In the 9x server a queue of one is full as soon as a job waits, which
is when the second `closesocket` happens, and its one item is used again as soon as it is
free; both handles and both addresses are used again,
and with two contexts malloc also starves by itself. In the NT server, two workers
complete two operations of one connection at once if anything allows it; the third
context lets a request be served while both accepts are posted again; one chunk makes
the sequence head, chunk, end; two starve malloc. Three starts let a listener of the
first meet the third. `MaxNesting` bounds the clicks inside message boxes, which the
code does not. In the response run a row of 6 is alone in a chunk, four entries fill two
to five buffers with every split, a page with and without `../` begins
differently, and sizes lie at, below and above one buffer, several buffers and the
modulus. In the browsing run paths are long enough for one level below a directory and
short enough for each length check to fail; every request of the run fits the buffer
except the longest, which meets its end; names have the characters that mean something
in a URL, and mistyped URLs have each of the things that make `../` lead elsewhere but `%2F`. The invariants proved by TLAPS do not depend on the bounds.

Fairness. Weak fairness of each thread: Windows schedules every runnable thread.
Nothing is assumed of users and clients except, in `ThreadPool`, that a handler ends
(a client that stays connected and sends nothing, or reads nothing, holds a 9x worker:
`recv` and `send` have no timeout; `Win9xServer` makes no such assumption, its clients
have no fairness, and shows that the stop ends nevertheless), in `IocpServer`, that a send completes in the end (TCP gives up on a
silent peer), and in `ServerLifecycle`, that a message box is dismissed. Acquiring the
mutex needs only weak fairness in `ThreadPoolJoin`, because few threads compete.
`Win9xServer!RequestsEnd` is about clients that have sent their request or gone away, and
excepts one that stays and stops reading for good: for the others nothing ends before the
stop does.

Properties that are expected to fail are the findings of `PROJECT.json`: they state
what a document or comment says and the code does not do. Deadlock is checked in all
runs; `Terminated` marks the states in which the program really has ended, or, in
`Browse`, in which its behaviour is undefined.

## 5. Proofs

**ThreadPool**, from `PoolAssumption` (positive numbers of items and workers, a finite
set of callers, distinct names) alone:

* `TypeCorrect`: `Spec => []TypeOK`. That `sem` never exceeds its maximum and that
  indices stay in range.
* `ItemsConserved`: `Spec => []SlotsConserved`.
* `SignalsAccounted`: `Spec => []SignalAccounting`.
* `EmptyWakeupNever`: `Spec => []WokenFindsWork`.
* `AccessExclusive`: `Prompt => (Spec => []ExclusiveAccess)`, where `Prompt` says that a
  worker outlives the join only in its handler and that one thread submits. Without either
  it is false: a worker that is late between the flag and the lists finds the mutex
  closed, and so does a second submitter.
* `PoolIsFifo`: `Spec => FifoWhileOpen`, the refinement of `WorkQueue` until the
  mutex is closed, for any number of callers and for late workers.
* `PoolImplementsFifo`: `Prompt => (Spec => ImplementsWorkQueue)`, the refinement to the end.

The inductive invariant is `IInv == Typing /\ MutexOwned /\ SlotsConserved /\
SignalAccounting`. `Typing` adds to the types where each thread can be and
what the phase of the init implies (`Control`). `MutexOwned` says the thread inside a
critical section owns the mutex: without it two threads could move the same item.
`SlotsConserved` bounds the length of the queue, hence of the semaphore. It speaks
until the mutex is closed, as a late worker destroys it afterwards. `SignalAccounting`
counts threads in a state, so its step lemma shows for each action how the three numbers
move. `AccessExclusive` adds `Joined`: the workers the shutdown has passed have ended or
come from their handler straight to the flag, which is set, and it has passed all of them
when it closes the handles. The refinement needs two
invariants more: a worker without a job owes none and a caller has one (`JobsPlaced`), and
the item a caller is about to link holds its job (`Filled`). What keeps items apart
(`ItemsApart`) is not the mutex as such but that one thread is inside; `ItemsStep` and
`StepRefines` are stated about that, and used twice: with the mutex for `PoolIsFifo`, and
with `AccessExclusive` for `PoolImplementsFifo`, where a submission that the shutdown has
overtaken goes on without a mutex.

**IocpServer**, from `IocpAssumption` (a positive number of workers, a name for no
context, whatever subset of the failures) alone:

* `TypeCorrect`: `Spec => []TypeOK`.
* `OneOwner`: `Spec => []SingleOwner`, for any number of workers and addresses.

`SingleOwner` counts holders, which is awkward in an induction. `Owners` says the same
without counting: what a worker handles, a packet carries or the listener is about to
post is allocated, not with the kernel, not lost, and none of the other owners'; no two
workers and no two packets have the same context. The operation of what the kernel and
the packets hold is set, which types the dispatch to a handler; `Counters` bounds the loop
counters. The lemmas are the moves of a context (freed, posted, created, given back,
queued, taken, lost with the port), each shown once and used by every action that makes
the move. `OneHolder` counts at the end: of sets with at most one element at most one
is not empty.

`IocpContexts` goes on from there:

* `NoFurtherLeak`: `Spec => []NoOtherLeak`.
* `AcceptsStayBounded`: `Spec => []AcceptsBounded`.
* `FollowsExchange`: `Spec => ImplementsExchange`, the refinement of `Exchange`.

Its invariant is `CInv == IInv /\ Unborn /\ Stages /\ Kept /\ AcceptsWithin`. `Kept` is the
converse of `Owners`: what is allocated and not lost is with the kernel, in a packet, a
worker's or the listener's; each path through a handler has to put it somewhere.
`Stages` ties the point a handler is at to the operation of its context, which is what
`Exchange` sees; without it the accept handler might post a receive on a context whose
accept is still to come. `AcceptsWithin` counts the accepts posted and the ones
being replaced against what the listener has paid for so far (`Budget`), as the bound
itself says nothing of an accept that a handler has ended and not yet replaced.
`Unborn`: a worker that does not exist holds nothing. The steps of a worker, the
listener and the GUI thread are each one of a few moves of a context, so that every
conjunct is shown once per move and not once per action.

**Win9xServer**, from `Win9xAssumption` (a positive capacity, any
numbers of connections and chunks, names for no context and no handle, whatever subset of
the failures):

* `TypeCorrect`: `Spec => []TypeOK`.
* `ContextsPlaced`: `Spec => []ContextPlaced`.
* `ConnectionsOwned`: `Spec => []OwnConnection`.
* `SocketsKept`: `Spec => []NoSocketLost`.

The last three hold of the code up to the first late read of a work item, and say so
(`~Astray`).

`IInv == TypeOK /\ Placed /\ Sockets`. `Placed` says where contexts are, by the point each
thread is at, so that the places exclude each other; no item is on the queue twice, as
`Submit` takes a free one. `Sockets` relates contexts, handles
and connections: two contexts that still own a socket have different handles, each open
connection belongs to one of them or is the listener's new one, and between the two
`closesocket` calls of the refusing branch the handle is free and nobody has it:
the listener alone accepts, so the second call closes nothing. After `WSACleanup` no
socket is open and the contexts' handles mean nothing, hence the case on `exited`.

**ServerLifecycle**, from `LifecycleAssumption` (any number of starts, room for
one click, whatever subset of the users and the failures):

* `TypeCorrect`: `Spec => []TypeOK`.
* `ListenerAlways`: `Spec => []OneListener`.
* `StopAlwaysOffered`: `Spec => []StopOffered`.
* `SocketsClosed`: `Spec => []NoSocketLeft`.
* `SocketsOwned`: `Spec => OwnSocketOnly`, about steps.

The properties speak of users who wait for the log. `IInv == TypeOK /\ Ledger /\ Stacked /\
Locked /\ Alone /\ Flagged /\ Owned`. What such a user waits for is a count of
messages, so `Ledger` says that the log and the messages on their way add up to the
listeners that run: there are numbers `p` of what the log will show after each message.
From an empty ledger follows that no listener is left when the next start begins
(`Alone`). `Stacked` gives every nested start its own number, `Locked` makes the GUI's
wait for `cfg->lock` mean that the listener is in its loop, `Flagged` that `stop_server`
has lowered the flag before it returns, and `Owned` that the one open socket is the
global one while its listener is between making and closing it.

**ResponseStream**, from `StreamAssumption` and `RoomAssumption`: the closing markup
fits the reserve, the opening markup and the footer fit one buffer, and so do a row
and the reserve. These are the sizes the comments of `dir_stream_next` count on.

* `TypeCorrect`, `ChunksFit`, `EntriesOnce`, `LengthAnnounced`: `TypeOK`, `ChunkFits`,
  `EachEntryOnce` and `LengthKept`, for every directory, file, buffer and modulus.
* `ResponseDelivers`: every step is one of `Delivery`; this is `ImplementsDelivery`
  without its fairness.
* `ResponseAdvances`: `Spec => EachStepAdvances`, which is why a response ends.

The invariant is the conjunction of where the control can be and what it implies
(`Control`), that an entry is pending only after it was fetched and the footer comes
after the last (`Enumeration`), that there is room for the footer while a listing is
generated (`Room`), that an empty buffer means everything made was sent (`Account`),
and that an empty chunk comes only at the end of the stream (`EmptyIsEnd`). The last needs
that `RoomAssumption` lets every row into an empty buffer, else the generator would
return 0 before the end, and that the pieces made are those of the rows emitted so far
(`Count`, `PageSoFar`).

`WorkLeft` weighs what is left of the body (bytes, or parts of the page and entries not yet
emitted) ten times, and adds how far the loop is from the end of its turn. A
carried-over entry uses up nothing, but the buffer before it is not empty, again by
`RoomAssumption`, and its row fits the next. With this, that the response ends under
the fairness of its thread is a matter of no step being blocked, and only that is left to
TLC.

**Browse**, from `TextAssumption`, `TreeAssumption` and `RequestAssumption`: for every
tree, every URL a client may send, every size of the buffer and of the pieces.

* `TypeCorrect`: `Spec => []TypeOK`.
* `ServedBelowRoot`: `Spec => []Confined`, about URLs whose path fits the buffer and names
  no device and no stream.
* `RequestsUnderstood`: `Spec => []RequestUnderstood`.
* `TypedServed`: `Spec => []TypedIsServed`.
* `LinksServed`: `Spec => []LinksLead`.
* `TypedDecodes`, `SafeWalk`: url_decode undoes a browser's encoding of a path, and a path
  without two dots in a row does not leave the root.

The decoder and the walk along a path are recursive functions, and what they yield is
shown by induction. The induction theorems of the library take an operator, which the
provers cannot be given; `SetInduction` of `ListFacts` is about a set of numbers and
serves as well: `StepsDef` and `DecodeDef` show with it that the functions satisfy their
recursive equations, and every further lemma about them is one more use.

`ServedBelowRoot` needs no invariant beyond the answer's: a path without two dots in a row
cannot go up (`SafeWalk`), and `ResolveFacts` says that this is what
`resolve_file_path` lets through of the paths that fit, whatever was decoded.
`RequestsUnderstood` reads the
request character by character (`CharsOf`): the first space, the second and the end of the
header line are where the client put them, because URLs and methods have no space or line
end, so the only blank line is the last one (`CompleteMeans`), and a beginning of the
request that the 9x server takes is all of it (`BeginningUnderstood`). `TypedServed` goes
the way of a URL: a name and its encoding are related by `Encodes`, which url_decode
undoes (`TypedDecodes`); the decoded path has no forbidden character and walks back to
the node (`TypedReaches`), and the answer is the node's, with and without its slash
(`NodeAnswered`), at the root too, where nothing is left of the path (`RootAnswered`).

`LinksServed` rests on the same middle: `Reaches(url, node)` says that a URL decodes to an
acceptable path that walks to the node, and ends in a slash just when the path does, and
`ReachesAnswered` gives the answer. The links are shown to keep it: what a text
that ends in no part of an escape decodes to is not disturbed by what follows
(`DecodeApart`), so a redirect adds its slash (`RedirectReaches`), an entry its name
(`EntryReaches`), and `../` takes one name off (`ParentReaches`). A link starts from a page, and
that the page is the answer to the URL that was asked, in whatever pieces the request came,
is `PageOf`: a request of which the parser finds the ends has its URL complete (`UrlRead`),
even if the header is not. From a listing or a redirect one reads back which directory the URL
reached (`DirectoryReached`).

The inductive invariant is `IInv == TypeOK /\ asked \in Requests /\ parsed \in Parses /\
Arrived /\ Awaiting /\ Unanswered /\ Filled /\ Understanding /\ Answering /\ Lost /\ Typing`:
what has been received is a beginning of the request (`Arrived`), what is still being
received has not met its end (`Awaiting`) and what was taken has, or fills the buffer
(`Filled`); the parse is that of what was received and the page the answer to it
(`Understanding`, `Answering`); the server is lost only where the code is undefined
(`Lost`); and a typed request is that of the node it is meant for (`Typing`). `LinksServed`
needs `JInv` on top: a page was read from a request that the parser did not run out of
(`Sound`), and what a link or redirect asks for reaches what it means (`Aimed`). The
induction is in `Aimed`: each click goes from a page that answers the URL before it.

Only model-checked:

* All liveness, which is out of the provers' reach, with the fairness in it:
  `QueuedIsDequeued`, `ShutdownReturns` of both pools, `RequestsEnd` of both servers,
  `ServerStops`, `GuiReturns`, `StopEnds`, and the fairness of `Delivery` in
  `ImplementsDelivery`.
* That no thread waits for ever: TLC looks for deadlocks in every passing run.

## 6. Known, and not the subject of a run

The models show these too, and no run is spent on them.

Threads and contexts:

* Jobs still queued when the 9x server stops may never be run or freed, and
  `iocp_pool_shutdown` leaves the contexts of outstanding operations (`lost`), at least
  the posted accepts, allocated, whatever `ARCHITECTURE.md` 366-367 says of graceful
  shutdown and leaks. `NoOtherLeak` says that nothing else leaks.
* A client of the 9x server that stays connected and stops reading holds its worker in
  `send` (`server_win32.c` 555), as one that sends nothing does in `recv` (362), until the
  server is stopped: as many of them as there are workers, and nobody is served.
* A user who starts the server again before the log shows the last STOPPED message gets
  it afterwards, and the button offers to start a server that runs
  (`main_window_handlers.c` 374).
* On the NT server, `create_client_context` copies the address of the peer from the null
  pointer it is given for an accept (`server_win32.c` 300). On Windows that read
  faults when the first accept is posted. `IocpServer` takes it to return something, as
  there would be no NT server to speak of otherwise.
* A failure in the middle of `handle_accept_completion` (454) returns before the accept is
  replaced: the server keeps one accept less for good. `AcceptsBounded` excludes the
  other direction only.
* `g_is_server_run` can count to 2, in spite of the comment `0 -> 1`: a listener that
  ends by itself offers the start button again without resetting it.
* The warning box of the very first start (`start_server` logs before `init_log`) lets a
  second click start a second pool inside the first start.
* The listener of either platform calls `WSACleanup` when it ends and cuts answers short
  that workers still send (`ARCHITECTURE.md` 366).
* `iocp_pool_init` creates a socket (`thread_pool.c` 203) before the listener thread has
  called `WSAStartup`.

Requests and responses:

* A method that is not in the table, such as HEAD, is the value of an uninitialised
  variable, and may be served as GET (`server_http.c` 55; the comment at
  `server_win32.c` 733-734 says otherwise). A prefix of a method's name is that method.
* A request without header lines sends the search for the blank line past the end of the
  text (`server_http.c` 109), also when the request is as short as a client may
  make it (`ARCHITECTURE.md` 360). `RequestUnderstood` speaks of requests with a header.
* On 9x a request with a body in the same piece does not end with a blank line, and the
  worker waits for more; on NT a request that arrives in more than one piece is parsed
  after the first.
* `dir_stream_next` puts names into links as they are (632-640), so that a link whose name
  has `%`, `+` or `#` does not lead back to its entry, in spite of the comment at 630-631.
  A name with two dots in a row has no URL at all. `LinksLead` and `TypedIsServed` say
  what does work.
* A directory named index.html in the root: `/` lists that directory (the path of the
  index is what `server_http.c` 490-493 makes of the root, and is found to be a directory,
  `server_win32.c` 766-803), while the links of the page are relative to `/` and miss its
  entries. `LinksLead` says nothing of links clicked at `/`.
* A listing answers URLs that are not its directory's own, and there `../` goes up one slash
  of the URL, not one directory: from `/d%2Fe/`, `/d//` or `/d/./`, or where a backslash
  separates. After `%00` the URL goes on and the path does not. A redirect adds its slash
  to the text of the URL, and a `%` near the end takes it in (`/d%4` becomes `/d%4/`).
  `LinksLead` speaks of a click when the URL before it has none of this.
* The document root without an index.html answers `/` with 404, although `//` lists it.
  URLs with a query are refused (403), as `?` is a forbidden character.
* `resolve_file_path` compares the length of a path after `wsprintf` has written it
  (`server_http.c` 497), so that a long URL overruns `full_path`; the path of `index.html`
  (`server_win32.c` 775) is put together without a check of its length. The model ends at
  both, as undefined. The row of a long name (over about 187 characters) overflows
  `entry[420]`, and the model assumes that it fits. A redirect of a URL of 259 characters
  gives one the server refuses.
* Files of 4 GB or more are sent modulo 4 GB with a Content-Length that agrees, and one
  whose size has a low half of 2^32 - 1 is answered with an error (812).

## 7. Not modelled

* The configuration, with the pool in it, is a local variable of `on_start_click`, which
  returns while others use it. The models take the memory as intact: after this
  undefined behaviour no state would mean anything.
* `CreateThread` failing for the listener (the GUI then waits for ever) is in
  `ServerLifecycle` and no run makes it fail: nothing remains to be checked after it.
* Log messages are on the sender's stack and read later by the window. The text that is
  shown may be arbitrary, and no state of the program depends on it.
* `make_socket` looks at no result, so the models start from the socket it returns.
* In `server_http.c`, `find_header` and `nocase_compare` are called by nothing, the MIME
  table is a look-up, and of the response builders only the kind of the answer, its
  Location and the lengths of its parts are kept (the Content-Length of error pages is
  approximate in the code).
* What Win32 makes of device names and of `name:stream`. `is_safe_path` lets both through;
  `Browse` gives the answer no meaning.
* The folder picker and `platform_detect.c` run once, on one thread, and leave a path and
  a name; layout, fonts and the about box keep no state that anything else reads.
* Memory ordering: `is_shutdown` is a plain variable, read by workers in a loop with
  system calls; its write is taken as visible at once.
