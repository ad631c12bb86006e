# A TLA+ model of device-twm-t1

The repository is the device tree of an Android phone with a Qualcomm MSM7x27:
hardware libraries that run inside the system's servers, and the tools `adb`
and `fastboot`. This directory models the parts of it in which threads,
processes or machines meet, and the pure functions that decide sizes and
layouts. TLC checks all of it on small instances. TLAPS proves ten parts for
every value of their constants: the two layers of the pmem allocator, the lock of
a buffer, posting to the display, the one camera object, the socket pairs of
Windows, the usb transfers of adb, and of libril the connection, the wake lock and
the network time.

Everything is translated from the source. A definition keeps the name of its
function where TLA+ allows it, and `PROJECT.json` gives the lines it stands for.

Contents

1. The system and its modules
2. How the code is modelled
3. What the runs check
4. Bounds
5. Fairness
6. What is proved
7. What is only model-checked
8. Where the code and its texts disagree
9. Limits of the code that the models show
10. Not modelled

## 1. The system and its modules

| part of the system | source | module |
|---|---|---|
| heap of a pmem device | `libgralloc/allocator.{h,cpp}` | `BestFitAllocator`, which implements `PmemHeap` |
| buffers from `/dev/pmem` and `/dev/pmem_adsp` | `libgralloc/pmemalloc.cpp`, end of `gpu.cpp` `free_impl`, `mapper.cpp` `terminateBuffer` | `PmemAllocator`, on top of `PmemHeap` |
| locking a buffer | `libgralloc/mapper.cpp` | `BufferLock` |
| posting to the display | `libgralloc/framebuffer.cpp` | `FramebufferPost` |
| slots of the framebuffer | `libgralloc/gpu.cpp`, `framebuffer.cpp` | `FramebufferSlots` |
| sizes of buffers | `libgralloc/gpu.cpp`, `pmemalloc.cpp` | `BufferSizes` |
| timers and event loop of libril | `libril/ril_event.cpp`, `ril.cpp` | `RilTimer` |
| command connection, requests, answers | `libril/ril.cpp`, watch table of `ril_event.cpp` | `RilConnection` |
| wake lock of unsolicited messages | `libril/ril.cpp` | `RilWakeLock` |
| the last network time | `libril/ril.cpp` | `RilNitz` |
| layout of requests and answers | `libril/ril.cpp` (`dispatch*`, `response*`) | `RilParcel` |
| routing of sound | `libaudio/AudioHardware.cpp` | `AudioRouting` |
| the one camera object | `libcamera/QualcommCameraHardware.cpp` | `CameraSingleton` |
| preview, recording, pictures, focus | same | `CameraHardware` |
| parameters, exif table | same | `CameraSettings` |
| sizes, pools, cropping, country table | same | `CameraSizes` |
| sensors | `libsensors/*.cpp` | `Sensors` |
| event loop of adb | `tools/adb/fdevent.c` | `Fdevent` (records), `FdeventLoop` |
| streams of adb | `tools/adb/sockets.c`, `adb.c` | `AdbStream` |
| transports of adb | `tools/adb/transport*.c`, `sockets.c` | `AdbTransport` |
| usb devices of a Linux host | `tools/adb/usb_linux.c`, `transport_usb.c` | `UsbLinux` |
| file transfer | `tools/adb/file_sync_{client,service}.c` | `FileSync` |
| debugger connections | `tools/adb/jdwp_service.c` | `JdwpService` |
| descriptors on Windows | `tools/adb/sysdeps_win32.c` | `Win32Files` |
| socket pairs on Windows | same | `BipBuffer`, which implements `ByteQueue` |
| event loop on Windows | same | `Win32Looper` |
| fastboot | `tools/fastboot/{fastboot,engine,protocol}.c` | `Fastboot` |

How they interact:

- A buffer is allocated by `PmemAllocator`. It sees its heap only through
  `PmemHeap`, which `BestFitAllocator` implements. The buffer is then locked
  and unlocked through its handle (`BufferLock`). A buffer that is a slot of the
  framebuffer comes from `FramebufferSlots` and is posted through
  `FramebufferPost`.
- libril runs one event loop. `RilTimer` has its timers, `RilConnection` its
  descriptors. `RilWakeLock` and `RilNitz` are two pieces of state that the loop
  shares with the vendor's threads. `RilParcel` is what travels over the
  connection.
- The media server runs `AudioRouting` and the camera. `CameraSingleton` is the
  life of the object, `CameraHardware` what happens inside a started one.
- adb moves bytes between local sockets and packets (`AdbStream`), by callbacks
  of the event loop (`FdeventLoop`), over a transport (`AdbTransport`) that may
  be a usb device (`UsbLinux`). `FileSync` and `JdwpService` are services that
  use such streams. The three Windows modules stand for the system calls.

A module that must be model-checked with others is instantiated by an `MC*`
module. A behaviour of such a module picks one of `Parts` and runs it, while the
other parts rest in their initial state. So one run asks one kind of question of
several parts, and a part can appear in several instances (`MCAdb` has four
sets of transports and two of streams). One part of most `MC` modules is extended
and not instantiated: `PmemAllocator`, `RilConnection`, `CameraSingleton`,
`UsbLinux` and `BipBuffer`. The properties of these that a run checks are then the
very definitions that the theorems of section 6 are about.

## 2. How the code is modelled

- One action is one critical section, one atomic operation, one system call, or
  one callback of an event loop. Where two threads share a word without a lock,
  the read and the write are separate actions (`bufferMask`, `lockState`,
  `s_last_wake_timeout_info`, `s_lastNITZTimeData`, `mCurSndDevice`).
- Loops whose correctness is in question take one step per iteration
  (`BestFitAllocator`, `RilTimer`, `AdbTransport`).
- Lists are modelled by their pointers where a stale pointer can matter
  (`RilTimer`, `AdbTransport`), and by sequences otherwise. The pending list of
  `RilConnection` is kept by the slots of `watch_table`, because
  `processReadReadies()` fills it in their order and `firePending()` empties it in
  that order.
- Memory that is freed stays distinguishable from memory that is allocated, and
  addresses are used again (`RilWakeLock`, `RilNitz`). A transport that was
  freed is filled with 0xee, and a thread that still uses it sees that.
- A condition variable is its signal: a signal with no waiter is lost.
- `Faults` names the calls that an instance lets fail. Anything that fails takes
  the error path of the code.
- What is undefined ends a behaviour: `RilTimer` stops when the loop follows a
  pointer to an event that was freed, `CameraSettings` when a null pointer is
  followed. History variables (`overwritten`, `taken`, `raced`, `dropped`,
  `exposed`, `ignored`, `kept`, `left`) record that something went wrong which the
  code does not prevent. The properties hold in every interleaving and say, in
  terms of these, exactly what is excepted; sections 8 and 9 have the properties
  without the exceptions, which TLC violates.
- Sensors: the ring of a sensor is a sequence with the read position of
  `InputEventReader`. The pending mask and the enabled flag are fields of the
  sensor. `pollEvents` is one loop over the sensors, with `revents` of the last
  `poll()` kept between calls as the code keeps it. A report has values, because
  two of the sensors drop one whose values cancel each other.
- UsbLinux: a handle is a record with its urbs, its descriptors, `dead`, `mark`
  and the program counters of its two threads. `h->lock` and `usb_lock` are read
  off the program counters, because each is held from one step to the next at
  one place only.
- Fastboot: `main()` turns the command line into the queue word by word, a step
  for every command with the words that it takes. Then every packet to and from
  the boot loader is a step.
- FileSync: a file is a number of chunks and a time. Names are numbers, and the
  device has two directories. `utime()` does not fail.
- RilParcel: a parcel is a sequence of typed cells. A parcel that ends early
  does so at the boundary of a field.

Facts about the build that decide what is modelled: `TARGET_MSM7x27` is
defined; `HDMI_DUAL_DISPLAY`, `USE_ASHMEM` and `HAVE_FM_RADIO` are not
(ashmem is used for buffers that no hardware needs); adb is
built with `select()`; `storeTargetType()` forces the camera's target to
MSM7627; `NEW_LIBRIL_HTC` is a choice of the initial state of `RilParcel`.

## 3. What the runs check

Eight runs pass.

**best_fit** (`MCBestFitAllocator`). Every sequence of allocations and frees on
a heap of four pages. `Tiles`: the chunks cover the heap without a gap or an
overlap. `Coalesced`: no two neighbours are free, except around the chunk that
`dealloc()` is merging. `BestFit`: `alloc()` takes the smallest free chunk that
fits, the first of several. `ImplementsHeap`: the list implements `PmemHeap`, so
that `-ENOMEM` means that no page boundary has enough room behind it, and every
call returns.

**buffer_lock** (`MCBufferLock`). Three threads on one handle.
`MutualExclusion`, `LockStateExact` (the lock word counts the locks, those a
failed `mmap()` leaves behind included), `HeldIsMapped`, `FlushedBeforeReuse`.

**graphics** (`MCGraphics`). `NothingLeaks`: on every error path of the two pmem
allocators each region and descriptor has one owner, and mapped regions are
disjoint. `free_impl()` unmaps a buffer of `/dev/pmem_adsp` twice; it stays mapped
until its own free all the same, unless it was mapped between the two `munmap()`
calls of another thread. `PostsInOrder`: the queue to the display is bounded, and
between posts only the current buffer is locked. `SlotsExact`: with two threads, no
slot is handed out twice before an allocation's update of `bufferMask` was
overwritten by a free, and the mask is exact before any update was. `SizesFit`:
planes fit their buffers; the renderer is told the size that is allocated, for the
tiled format rounded up to 8192 bytes; `clp2()` is the next power of two.

**ril** (`MCRil`). `TimersSound`: both lists stay linked both ways, every timer
is in one of them, callbacks run in order, never early and never after removal,
and a pointer that the loop has without `listMutex` is to an allocated timer unless
that timer was removed since it was read. Threads and callbacks remove any timer at
any moment.
`ConnectionSound`: one connection at a time, and a request is answered at most
once. `AnswersWhenQuiet`: where clients go away only while nothing is being sent,
the answer goes to the client that asked, messages are whole although several
threads write, and the loop never waits on a closed descriptor. `UnsolicitedSound`:
while the wake lock is held its release is on its way, whatever the race. The last
network time was sent, or is kept for the next client, and its copy is freed once;
excepted are a time whose send fails when the client connects, and what follows
once a connection is set up while a thread keeps a time. `ParcelsExact`: what one side writes is what the other reads, field by
field, and a request that is cut short never passes on an integer nobody read.

**media** (`MCMedia`). `RoutingCoherent`: when no call is in progress the driver
is on a device the settings ask for, and what `doRouting()` remembers is where
the driver is. `OneCamera`: one object runs the camera and `createInstance()`
returns it. `FrameThreadSound`: no thread finds its heap cleared, the camera is
not stopped while it focuses, one frame thread at a time. `OncePerPicture`: a
picture is announced once and its fragments stay in the heap. `SettingsCoherent`:
where `initDefaultParameters()` has run, `getParameters()` reports what the driver
has unless it refused, and a colour effect and a white balance are never both set;
the exif table is sound. `SizesFit`: what is offered fits what is allocated.
`SensorsSound`: every report of an enabled sensor is put into the caller's buffer
once, whole and in order, unless its values cancel each other or the `poll()` of
that call fails afterwards; the buffer is not overrun unless a `read()` is
interrupted; and no input event is left in a ring that nobody looks at.

**adb** (`MCAdb`). `EventsCoherent`: pending list, pending bits and events agree
and what is watched is served. `OneCredit`: on a connected stream exactly one of
reader, WRTE, backlog and OKAY may move the next packet. `Delivered`: what
arrives is a prefix of what was written, all of it at the end of file, and a
client is told OKAY or FAIL. `TransportsSound`: lists, tables and descriptors
survive transports that come and go. `FreedInTime`: a usb transport is freed
after both threads have ended and no stream is left to it. `UsbSound`:
`usb_write()` reports success only for what the device took, the kernel holds no
buffer of a call that returned, and only devices that are gone are kicked.

**liveness** (`MCLiveness`). `CallsReturn`: `fb_post()`, the calls of the camera
and every push, sync and pull end, and a picture that was asked for comes. Three
waits are excepted, each by a state predicate: `startPreview()` for a snapshot mode
that no thread will end (`ModeLeft`), `takePicture()` for a picture whose encoding
failed (`EncoderLost`), and a sync of many files (`SyncStandstill`).
`EventLoopServes`: timers fire (unless one was removed while the loop had a pointer
to it), clients are accepted, the wake lock is released.
`StreamsEnd`: when one end of a stream closes so does the other, a transport that
fails is freed, and the handle of a usb device that is pulled out is closed.

**tools** (`MCTools`). `RegionsSound` and `ImplementsQueue`: the bipartite buffer
of a socket pair implements a bounded queue. `EmulationSound`: a descriptor of
Windows has one owner, and none is lost but for those that
`socket_loopback_server()` leaves when it gets no socket; hooks are what fdevents
ask for, through sockets that wait on the closing list and hooks that are started
again.
`JdwpSound`: trackers know the virtual machines, a descriptor waits at one of
them. `CopiesWhole`: success is reported for whole files only, apart from three
failures that neither side reports (a refused pull, a local file that cannot be
read, an `unlink()` that fails), and what those leave behind is said; no half of a
file stays on the device unless it could not be removed. `NoStandstill`: the two
ends both wait only while "adb sync" asks for times, and only with at least two
files more than both directions of the stream hold. `FastbootSound`: whole images go
into the partitions that the command line names, an update leaves a device that the
requirements reject untouched, also by `-w` (unless the line names a partition before
the update), no closed handle is used, and the host does not wait for a device that
waits for it.

Four runs are violated: they check a sentence of the repository that the code
does not keep.

| run | sentence | what the code does |
|---|---|---|
| `ril_conn_late` | `ril.cpp:2156` "mark pending requests as "cancelled" so we dont report responses" | `RIL_onRequestComplete` reads `cancelled` after it has unlinked the request: the answer goes to the next client |
| `audio_mode` | `AudioHardware.cpp:303-304` "make sure that doAudioRouteOrMute() is called by doRouting()" | `clearCurDevice()` takes no lock, and a running `doRouting()` stores its device over the cleared one |
| `adb_disconnect_free` | `transport.c:224` "The transport will not actually be closed until both threads exit" | `unregister_transport` drops a reference that nobody took |
| `win32_read_late` | `sockets.c:267-268` "returning here is ok because FDE_READ will be processed in the next iteration loop" | the Windows looper has lost the record of the readable socket by then |

## 4. Bounds

Counters that the code leaves unbounded are bounded by a constant in a guard:
`MaxOrphans`, `MaxStuck`, `MaxChanges`, `MaxTime`, `MaxUnsol`, `MaxMessages`,
`MaxTimes`, `MaxRecords`, `MaxObjects`, `MaxPictures`, `MaxReports`, `MaxCalls`,
`MaxStreams`, `Units`, `MaxFds`, `MaxBytes`, `ClosesTotal`, `MaxChunks`,
`MaxPhrases`, `MaxPage`, `MaxInfo`, `QueueMax` and `Capacity`. The comments of the
MC modules say why each instance is large enough. The main reasons:

- a heap of four pages and requests below, at and above a page: a chunk is split in front,
  behind and on both sides, and a hole is filled exactly;
- three threads on a buffer: an exchange fails twice, or a reader finds the
  buffer being mapped by another while a third leaves;
- three timers: one is inserted between two, and a callback removes the next of
  two that have expired; two threads add and remove them meanwhile;
- two connections of libril: an answer can meet the wrong client;
- three bytes in a socket pair: both regions hold some;
- two usb devices with one serial number: a device is plugged in again while its
  old transport is taken down (two network devices are too many states);
- rings of one and four input events instead of one and 32: they wrap;
- four files to sync over a stream of one message: with three there is always room
  for the last answer, with four there is not;
- a unit of two instead of 1000 or 64 for the sensors: values below it are cut off;
- fastboot: every command line of two of 22 phrases, which are commands with and
  without their words, and words that belong to the command before or to none;
  three directories, four devices.

The passing runs have between 35 thousand and 1.4 million states and take from a
few seconds to three minutes.

`CHECK_DEADLOCK FALSE` is set where a system may stop: a loop that waits in
`select()` with nothing to come, or programs that have all ended. Where that
might hide a wait that never ends, the liveness run and `NoStandstill` ask.

## 5. Fairness

Weak fairness of a thread's next step stands for a scheduler that runs every
thread that can run: the composer and the display thread; libril's loop and the
vendor's threads inside a call; the callbacks of adb's event loop; the threads of
a transport; the threads of the camera and of its library; both ends of a file
transfer; the usb threads. The environment (clients, devices, users) is not
fair: nobody has to connect, to plug in, or to write.

Strong fairness is used in these places:

- `Select` of `RilTimer`: while threads add timers the loop is often not in
  `select()`, and when it is, the wakeup pipe lets it go on.
- `Send` of `RilConnection`: `s_writeMutex` is taken again and again by others;
  a mutex is not given to the same threads for ever.
- `MainRegistration` and `MainPacket` of `AdbTransport`: `select()` reports every
  ready descriptor and `fdevent_loop` calls all that are pending, so none is
  passed over for ever.
- `usb_close` of `UsbLinux`: `device_poll_thread` sleeps a second in each round
  without `usb_lock`. `WriterEnds`: packets that were queued for a transport are
  finitely many, so that the writer comes to its next read of the queue.

Fairness makes the calls of `BestFitAllocator` run to their end: the caller has
`mLock`.

## 6. What is proved

Eight modules hold theorems. All proofs are for every value of the constants
that satisfies the named assumptions.

**`BestFitAllocator_proofs`**, from `SizesAreBytes` (heap sizes and requests are
positive, which `alloc_impl()` and `init_pmem_area_locked()` see to).
`TypeCorrect`, `TilesAlways`, `CoalescedAlways`, `OwnedAlways`,
`PageAlignedAlways` and `BestFitAlways` follow from `Invariance`. Its inductive
invariant has these properties and adds: `Ordered`, that of any two chunks the
earlier in the list ends before the later starts, because adjacency alone does
not say so of chunks further apart without an induction over the list; `Control`,
what the locals of a call in progress are; and `ScanInv`, that the scan has seen
no better chunk than the one it remembers. `alloc()` inserts up to two chunks;
the lemma `CarveList` reduces that to two splits, each of which keeps the
invariant.

The module ends with the refinement. `HeapImplemented`: every run of the
allocator is a run of `PmemHeap`. The regions in use are those of the
chunks in use (`OwnedExactly`), so that only the two ends of `alloc()` need an
argument. A region that it carves lies in a free chunk, hence apart from all
others. When it answers `-ENOMEM` the scan has passed every chunk (`ScanInv`);
had some page boundary enough room behind it, the chunk around that boundary
would be free and large enough, because neighbours of a free chunk are in use.

**`PmemAllocator_proofs`**, from `PmemAssumption` (sizes and error numbers are
positive, and `clp2()` of a size does not overflow). `NothingLeaksAlways`: for any threads, sizes and number of
descriptors, and whichever calls of the kernel fail. `NothingLeaks` speaks of
sets of regions and counts of descriptors, which is not inductive. `Invariance`
has it holder by holder, where a holder is a buffer that a caller owns, one that
could not be unmapped, or a call under way: regions of two holders do not overlap
(`RegionsApart`), descriptors of two holders differ (`FdsApart`), and what the
heap, the kernel and the descriptor table know is what the holders have
(`RegionsKnown`, `FdsKnown`, `MappedKnown`). `AdspApart` is about the second device:
a buffer that is not `exposed` shares no page with another one, nor with what a free
has still to unmap. That is why the second `munmap()` of a free takes no page from
anybody: `mmap()` answers only pages that are not mapped, and a buffer that got
pages between the two calls is `exposed` from then on.

**`BufferLock_proofs`**, from `ThreadsAreFinite` and `KindsOfMemory`.
`TypeCorrect`, `MutualExclusionAlways`, `LockStateExactAlways`,
`HeldIsMappedAlways`, and `FlushedAlways` (if no buffer is in pmem_adsp, see
section 8) follow from `Invariance`, for any number of threads. The argument: a
writer's exchange succeeds only on a lock word without readers or writer. The
word counts the locks, so there are none. While the writer has the buffer no
other exchange succeeds, so the word is what the writer read when it gives the
lock back, and it is the one that clears `LOCK_STATE_WRITE`. So exclusion needs
the exactness of the word, and the exactness needs exclusion: the invariant has
both, and for each thread what it relies on between two atomic steps (`LockInv`,
`WriterInv`, `FlushInv`), what a failed `mmap()` leaves behind (`OrphansInv`) and
where a dirty buffer is (`DirtyInv`). `CountIsSum` and `DirtyKept` carry the
arithmetic and the cache through the steps.

The second half of that module is about `FramebufferPost`. `PostsAlwaysInOrder`:
the queue to the display holds at most as many frames as there are buffers, and
one more for every change of the swap interval, however many there are; and
between posts exactly the current buffer is locked. It leaves out waits that
return without a signal (`Spurious`), where section 8 has what happens. The bound
on the queue is not inductive. `FramesBounded` counts the frames under way, the
queue and the one at either end, against the slots that are not available and the
changes. `disp_loop()` gives a slot back for every frame, so the difference grows
only when `fb_post()` takes a slot that is not available (`Blind`). With an
interval of 0 it tests the slot first, and with an interval of 1 it has waited for
it in the post before; so that it happens once after a change, and the change pays
for it. `PostOrder` says which slot is next, and `PostLocks` which locks a post
under way has taken.

**`CameraSingleton_proofs`**, from `Assumptions` (clients and threads have
different names). `OneCameraAlways` is for any number of clients and objects, if
starting a camera fails only for want of the rpc devices; section 8 has what the
other failures do. What `createInstance()` relies on, and no line of the code says,
is that an object which nobody holds any more has set `singleton_releasing`, or is
held by somebody who is about to (`ObjectOK`): who drops the last pointer has
called `release()`, or found the object released by a thread that holds it until it
is marked. Then nobody makes a second object before the destructor of the first has
run, and the destructor, which clears the singleton whatever it names, clears it of
its own object (`OneDestroyer`). `OpenerOK` says that the thread that opens the
device runs only while its object starts, so that nobody else writes `camerafd`
before it is read; `ClientOK` and `WorkerOK` say what a client and a worker thread
hold at each of their steps.

**`BipBuffer_proofs`**, from `BipAssumption` (a buffer of at least one byte).
`Inductive` is the invariant: the shape of the two regions, what either end holds
between its steps, and that the bytes in the regions are those written and not
yet read, in order. `RegionsAreSound` and `InOrder` follow, and
`QueueRefinement`: every step of the buffer is a step of `ByteQueue` or leaves
the queue as it is.

**`UsbLinux_proofs`**, from `Bounds` (the number of transfers of a write is a
natural number). `BuffersReturnedAlways` holds whatever fails.
`UsbSoundAlways` adds `WriteIsTrue` and `OnlyGoneAreKicked`, where the bus can be
read and no transfer is 110 bytes long (section 9). The invariant is one of each
handle (`Sound`: what its urbs, its two threads and its counts of bytes say of each
other) and one of the handles and the scan (`Scanned`: what the marks mean at each
stage). A step of a thread or of the bus touches one handle (`LocalStep`), a step
of the scan replaces at most one (`ReplaceStep`).

**`RilUnsolicited_proofs`**, for `RilWakeLock` and `RilNitz`. `ReleaseAlwaysComes`
needs nothing but types: any number of threads may race for
`s_last_wake_timeout_info`, because a thread that disarms a timer is about to set
another. `WakeLockSound` adds, for one thread that timers do not interrupt, that
the pointer names an allocated record or none and that a disarmed timer never
releases the lock; its invariant `SInv` says which timers are allocated, which one
is live, and whose turn it is. `NitzSound` is about every interleaving of the thread
and the loop, with sends that fail: until the two have overlapped while a connection
is set up (`raced`), the last time was delivered, is kept, or went with the copy
whose send failed. `NitzInv` says for each step of either where the last time is and
that the pointer names a block that is allocated; that one of the two is at rest while
the other works follows from `raced` being false. They assume that the null pointer is
no address.

**`RilConnection_proofs`**, from `Names` (connections, requests, threads and the
null pointer have different names). `RequestsSound` is for any set of `Faults`.
Its invariant has two parts. `AInv`: a request that a sender carries has left the
list, nobody else carries it, and no answer to it was written; so the one that is
written is the only one. `LInv` says who has the listening socket:
`RIL_register()`, the table, the pending list, or the connection that was accepted
in its place; and that a descriptor that is open is `s_fdCommand`. `QuietSound` is
for clients that go away only while nothing is being sent. `QInv` adds that
`s_fdCommand`, the event in the table and the descriptor that any sender has read
stand for one connection (`Calm`, `Sender`), that a length without its data is
about to be completed by the thread that has `s_writeMutex` (`Halves`), and that
a request that may still be answered was sent on that connection (`Owed`). What
`OnlyClientsClose` excludes closes the connection under a sender or under the
loop; section 8 has what follows for a failed write and for the debug port. TLC
checked these invariants, and those of `FramebufferPost`, `CameraSingleton`,
`UsbLinux`, `RilWakeLock` and `RilNitz`, on instances of up to 1.2 million states
first.

## 7. What is only model-checked

Liveness, because the prover has neither fairness nor `ENABLED`: the
run `liveness`, and that the calls of `BestFitAllocator` return. Anything that a recursive definition computes
for every input, because the provers cannot use an induction theorem that takes an
operator: `clp2()`, the sizes of the camera, the layouts of `RilParcel`, and
`TimersSound`, which follows the pointers of a list of any length. (A proof can
take the least counterexample of a set of numbers, as `LeastNat` does, but not
unfold a recursive definition.) The assembly of `MC` modules, which pick one part
of several: the theorems are about the parts.

The following are within the prover's reach and are only checked on instances so
far: `SlotsExact`, the event loops and streams of adb, its
transports, the threads of a started camera, the audio routing, the sensors, file transfer, the
debugger connections, the descriptors of Windows and fastboot.

## 8. Where the code and its texts disagree

The four violated runs of section 3 are the disagreements that have a run. The
following properties are stated in the modules and are violated too, when the
module is instantiated as the second column says. Each quotes a comment, a
document or an assertion of the repository. A constant that is not named is as in
the MC module of the part.

| property (module) | instance | what happens |
|---|---|---|
| `NeverUsedAfterFailure` (PmemAllocator) | as in MCGraphics | `pmemalloc.cpp:139` "pmem couldn't be initialized, never use it": an initialisation that failed with EPERM looks like one not yet tried (`MASTER_FD_INIT` is -1, line 131), so the next call tries again |
| `FlushedBeforeReuse` (BufferLock) | `Kinds` with `"adsp"` | `mapper.cpp:253` "flag for flushing at unlock": `gralloc_unlock` (289) cleans the cache of pmem and ashmem buffers only |
| `GrabbedBeforeUnlock` (FramebufferPost) | as in MCGraphics | `framebuffer.cpp:424` "after new buffer grabbed by MDP can unlock previous": the first pass of `disp_loop` (168) marks the buffer on the display as available |
| `SleepsWhileEmpty` (FramebufferPost) | `Spurious <- TRUE` | `framebuffer.cpp:140` "wait (sleep) while display queue is empty": an `if` around the wait (141), so that a spurious wakeup reads an empty queue |
| `CopiedOnPost` (FramebufferPost) | `PageFlips` with `FALSE` | `gpu.cpp:69` "memcpy'ed to the main screen when post is called": `fb_post` (465) copies the framebuffer to itself |
| `SlotsDistinct` (FramebufferSlots) | as in MCGraphics | `gpu.cpp:86` "find a free slot": `free_impl` (331) changes `bufferMask` without `m->lock` |
| `SlotsMapped` (FramebufferSlots) | as in MCGraphics | `gpu.cpp:56` "the framebuffer is mapped once and forever": a failed `mmap()` (`framebuffer.cpp:712`) leaves `module->framebuffer` set |
| `AlwaysMapped` (PmemAllocator) | as in MCGraphics | `gpu.cpp:211` "PMEM buffers are always mmapped": a buffer of `/dev/pmem_adsp` that is mapped between the two `munmap()` calls of another thread's `free_impl()` loses its pages |
| `RendererFits` (BufferSizes) | as in MCGraphics | `gpu.cpp:285` "The GPU needs 4K alignment, but the video decoder needs 8K": `alloc_impl` aligns the chroma plane to 4096 and `calculateBufferSize` the whole to 8192, a page more than there may be |
| `RemovalSafe` (RilTimer) | as in MCRil | `ril_event.cpp:318` "Remove event from timer list": `firePending` (211) has saved `next`, which a callback or a thread may unlink and free, and unlinks events without `listMutex` (212) |
| `ExpiredAreTaken` (RilTimer) | as in MCRil | `ril_event.cpp:171` "see if now >= ev->timeout": the code (174) has `>` |
| `LoopGoesOn` (RilConnection) | `Faults` with `"write"` | `ril.cpp:2213` "start listening for new connections again": `blockingWrite` (1203) closes a descriptor that is still watched, and the loop ends with EBADF |
| `AssertsHold` (RilConnection) | `Faults` with `"debug"` | `ril.cpp:2180` "assert(fd == s_fdCommand)": an order of the debug port (2394) closes the connection under the loop |
| `HeldForTheLast` (RilWakeLock) | `Overlap <- TRUE` | `ril.cpp:2875` "Cancel the previous request": it is cancelled after the send (2876), and may have released the lock of the new message |
| `LastIsAllocated` (RilWakeLock) | `Overlap <- TRUE` | `ril.cpp:2894` "clear it when the callback occurs": the callback may run before the pointer is stored (2880) |
| `NitzReaches` (RilNitz) | as in MCRil | `ril.cpp:2857` "keep a copy of the last NITZ response": a client that connects between the failed send and the store (2853) does not get it; and `onNewCommandConnect` (2228) frees the copy although its send has failed |
| `EarpieceWhileRecording`, `PostProcessed` (AudioRouting) | parts `record`, `play` | `AudioHardware.cpp:1238` "enable routing to earpiece (unmute) if mic is selected as input": `setMicMute_nosync` (330) mutes it. 1373 "enable post proc for new device": the `*_DISABLE` masks are zero and clear all features (930) |
| `StandbyRestores` (AudioRouting) | part `record`, `Inputs` with `"none"` and `"wired_headset"`, `Calls` with `"in_route"` | 2100 "restore output routing if necessary": `standby()` (2101) routes with its own device still set |
| `NoComboDevice` (AudioRouting) | `Outputs` with `{"speaker", "headset"}` | 40 "Headset speaker combo device not supported on this target": the branch (1325) is under an `#ifdef` of a macro that is defined as 0 |
| `ReturnsTheCurrent` (CameraSingleton) | `StartFails` with `"conf"` or `"open"` | comment at `QualcommCameraHardware.cpp:3128-3130`: the destructor of an object that did not start runs after `singleton_lock` was given back, and clears the singleton (2559) of an object that was made meanwhile |
| `OwnDescriptor` (CameraSingleton) | `StartFails` with `"dlopen"` | `startCamera()` returns (1194-1196) without joining (1285) the thread that opens the device, which stores its descriptor in `camerafd` under the next object |
| `MakerAndModel` (CameraSettings), `ThumbnailSmaller`, `RawFits` (MCMedia) | as in MCMedia | comments at 1870 and 2340; a raw picture of 2592x1944 needs 7,558,272 bytes and the pool (2390) has 7,528,448 |
| `SignalsAreWanted` (FdeventLoop) | as in MCAdb | `fdevent.c:463` "make sure we don't signal an event that is no longer wanted": line 467 removes the wanted ones and keeps the others |
| `CloseNamesSender`, `CloseIsNotAnswered` (AdbStream) | as in MCAdb | `protocol.txt:138` and `145`: CLSE is sent with id 0 (`sockets.c:456`) and answered (`adb.c:363`) |
| `ClosedIsTold`, `RequestKeepsSocket` (AdbTransport) | part `usb` | `sockets.c:530` and `transport.c:326`: the input thread closes sockets without their close hook (`sockets.c:120`), and while the main thread uses them |
| `ServerSurvives`, `ClientKeepsFd`, and `ListSound` (AdbTransport) | part `network`, the last with a usb device beside it | `OVERVIEW.TXT:22` and `137`, `transport.c:562`: after `adb disconnect` the transport is unlinked twice (894) and its socket closed twice (`transport_local.c:231`) |
| `UnpluggedLeavesList` (AdbTransport) | part `noperm`, under `FairSpec` | `unregister_usb_transport` (944) does nothing for a transport that is not listed yet, which is listed later for ever |
| `WriteNeedsReady` (JdwpService) | `Parts = {"jdwp"}` of MCTools | `protocol.txt:127`: trackers are written to without an OKAY (`jdwp_service.c:618-624`) |

`pmemalloc.cpp:97` says of `8<<20` that it is 16 MiB.

## 9. Limits of the code that the models show

No text promises the opposite of these. Where a property is named without an
instance it is violated as in the MC module of the part, and the property that the
run checks excepts just that case. The others were met by letting an instance do
what the passing runs leave out, and most by adding a member to `Faults`.

libcamera:
- `mInSnapshotMode` is set (3031) after the snapshot thread is created. If the
  thread is faster, nobody clears it, and the next `startPreview()` waits for ever.
- An encoding that fails leaves `mJpegThreadRunning` set, and the next
  `takePicture()` blocks. These two violate `AllCallsReturn` as in MCLiveness.
- `startRecording()` (3427) resets `mReleasedRecordingFrame` without its lock, so
  a release is lost; the wait at 3347 is an `if`.
- `release()` (2509) frees the raw heap while the snapshot thread may use it
  (`Calls <- {"startPreview", "takePicture", "release"}` violates
  `HeapsAreThere`).
- `camframe_timeout_flag` is never reset. A sensor without auto focus notifies
  twice; a focus thread that cannot open the device never does.
- The call of `initDefaultParameters()` is commented out at 3182. Without it
  `sensorType` is a null pointer, which the first `setParameters()` follows
  (`SettersSurvive` is violated). `CameraSettings` has the program with and without
  the call.
- A zoom may exceed the maximum of a new, smaller picture size. A parameter that
  the driver refused is not set again.

libsensors:
- After a call that filled its buffer, `revents` of the last `poll()` is used
  again, so the next call reads the same sensor and blocks while others have data
  (`ServesOthers` is violated).
- A `read()` that is interrupted adds -EINTR to the count of events, and the next
  sensor writes behind the end of the buffer (`BufferKept` is violated). A `poll()`
  that fails after events were read loses them.
- Events of the orientation sensor carry the header of the accelerometer's slot,
  which `OrientSensor` initialises instead of its own.
- yas529 and orient drop a report whose values, cut off to integers, add up to
  zero. With the lost `poll()`, this violates `AllReturned`.

libril:
- An answer is never sent to a request whose count is zero in `dispatchInts`, or
  that cannot be read.
- `number_of_digits` and `uBearerDataLen` of a CDMA message are not clamped.
- Strings of a request that is refused after some were read stay allocated.

adb:
- The usb threads of a Linux host can block each other. `usb_close` has
  `transport_lock` and waits for `usb_lock`; `kick_disconnected_devices` has
  `usb_lock`, and its kick of a read-only handle waits for `transport_lock`
  (`usb_linux.c:512`, `transport.c:943`). With a writeable and a read-only handle
  `HandlesFreed` is violated under `Fairness`; the liveness run has one handle.
- A transfer of 110 bytes whose wait has timed out counts as written, because the
  result is compared with the length (`"110"` violates `WriteIsTrue`), and an
  empty one that is waited for in vain counts as success.
- When `/dev/bus/usb` cannot be opened every device is kicked (`"opendir"`).
- A service that fails during a pull is reported as success (`sync_recv` returns
  0), and a local file that cannot be read while it is pushed is cut short and
  reported as copied. When `unlink()` fails the old tail of a file stays. Each of
  the three violates `SuccessIsWhole`.
- `adb sync` sends all its STAT requests before it reads an answer. With two files
  more than both directions of the stream hold messages both ends wait for ever
  (`NeverBothWait` is violated with the four files of MCTools).
- More virtual machines than fit into an update of 1024 bytes are not reported
  (`UpdateRoom` below their number violates `TrackersKnow`).
- On Windows a reader that is woken by a close loses what is left in the buffer;
  the unlocked count of a pair can leak it; `socket_loopback_server()` keeps its
  entry when `socket()` fails (636; `NoneLeft` of `Win32Files` is violated); a hook
  that is always ready keeps the sockets from being asked; a table that fills up in
  `adb_socketpair` is used through a null pointer.
- A client that hangs up behind its request leaves a stream on the device.

fastboot:
- The last line of `android-info.txt` is ignored when it has no newline.
- `main()` returns 0 although the queue failed.
- "oem" takes the rest of the command line, "boot", "flash" and "flash:raw" the
  next word as a file, also when it is a command.
- A boot loader that asks for less than the image is given less (`"short"`
  violates `FlashedWhole`); one that answers a download with OKAY makes the host
  wait (`"okay"` violates `HostIsServed`).

## 10. Not modelled

- **gralloc entry points, `gralloc_perform`, libcopybit**: tables of functions, a
  descriptor wrapped in a handle, one request turned into one ioctl. What is
  right is decided by the display driver.
- **The ashmem path of `gralloc_alloc_buffer`, `fb_setUpdateRect`**: two system
  calls, and three stored words.
- **Volumes, `AudioFilter.csv`, PCM loops, audio policy**: text handling, loops
  that copy samples, and a table on top of a class that is not in the repository.
- **The camera's 720p path and its stub interface**: not reached in this build;
  forwarding without state.
- **adb's other usb back ends**: the device side is one read or write of a device
  file; libusb, OS X and Windows do what `usb_linux.c` does through libraries that
  are not in the repository.
- **adb's client, command line and console; host requests, listeners and start of
  the server; shell, log, framebuffer and remount services; `sysdeps.h`**:
  sequential text handling, one program run per request, wrappers of one system
  call. Their packets and streams are modelled.
- **`do_sync_ls`, `sync_readtime`, `jdwp_control_init`**: printing, no caller, one
  socket.
- **fastboot's usb, boot images and paths; mkbootimg, rsa, sha**: one transfer at
  a time; the layout of one file; arithmetic on numbers that are out of the reach
  of a model checker.
- **Recovery graphics, init scripts, firmware, kernel modules**: drawing,
  configuration and binaries.
