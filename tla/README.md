# A verification of SSM_IaaS

SSM_IaaS lets a user run a virtual machine in a browser. A **load balancer**
(Node.js) keeps the members, their disk images and the streaming ports in use; a
**VM manager** (C and a shell script) makes, deletes and starts images; a patched
**QEMU** sends its picture and sound and takes its input over the network; a
**web server** (a Node.js cluster) relays between QEMU and the browser.

This directory holds TLA+ models of these parts, checked by TLC on small
instances, and theorems about them, checked by TLAPS for every value of the
constants.

## 1. The system

| Part | State | Operations | Source | Module |
|---|---|---|---|---|
| Start and install requests | two Redis hashes `sessionList1/2` (port -> e-mail) | `requestStartOS`, `requestInstallOS`, `checkOverLogin`, `LoadBalancer`, `setSession`, `initRedis` | `LoadBalancer/routes/select.js`, `LoadBalancer/util/Redis.js` | `PortAlloc` |
| Web server: pages | `req.session.port` | `/`, `requestPort`, close | `WebServer/routes/*.js`, `bin/www` | `PortAlloc` |
| Members | Mongo `members`, the counter `user_index` | login, join, id check | `LoadBalancer/routes/member.js`, `LoadBalancer/model/MemberDAO.js` | `Members` |
| Image catalogue | Mongo `images`, the counter `image_index` | list, create, delete | `LoadBalancer/routes/select.js`, `LoadBalancer/model/ImageDAO.js`, `util/SocketUtil.js` | `Catalogue` |
| Browser: image selection | the shown list | list, create, delete | `LoadBalancer/public/js/common.select.js` | `Catalogue` |
| VM manager | `android[100]`, the working directory, per process | accept, `command()` | `VMManager/vm_manager.c`, `command.sh` | `VmManager`, `ImageHost` |
| QEMU: client data | `client_data.dat` | `IPC_getClientData` | `Qemu-2.4.1/vl.c` | `VmManager` |
| QEMU: sound | files `test001.raw` .. `test100.raw`, `file_pos`, `work_pos` | `alsa_write_pending`, `thread_fb` | `Qemu-2.4.1/audio/alsaaudio.c`, `vl.c` | `RingTurns`, `AudioRing` |
| QEMU: picture | the mapped file `fb_data.ppm` | `make_frameData`, `Update_frameData` | `Qemu-2.4.1/ui/sdl.c` | `FrameBuffer`, `ThreadFb` |
| Web server: workers | `Audio_stream`, `NET_SOCKET_TARGET` | connect, close, data, message | `WebServer/bin/www` | `Relay` |
| Browser and QEMU: input | `check`; the event socket | mouse, key and touch handlers; `thread_sdl` | `WebServer/public/js/*Event_stream.js`, `Qemu-2.4.1/ui/sdl.c` | `InputEvents` |

How a session goes: the browser asks the load balancer for a start or an install.
The load balancer looks in Redis whether the user is connected and which port is
free, reserves it, sends the command to the VM manager and answers the port. The
browser posts the port to the web server, whose worker of that number relays the
VM's streams. When the page closes the worker frees the port of its number in
`sessionList2` and ends the connection of the newest QEMU.

The hard behaviours are the callbacks of concurrent requests between two
commands to a database, answers that come too late for the test they were meant
for, writers on different connections, restarts that free ports still in use,
processes that multiply at each command and share only the disk, a file passed
between two programs that any two launches of one user share, threads that
share counters and a file without a lock, sessions that share the two variables
of a worker, and a reader that takes more from a socket than it handles.

## 2. The modules

**`PortAlloc`**: the life of a streaming port. Each request is a chain of
callbacks (`OnCheck1`, `OnBalance`, `OnReserve`); its commands go on the one FIFO
connection of the load balancer (`wire`), Redis executes them one at a time
(`getSessionList`, `setSession`) and answers in order (`replies`). `OnCheck1`
sends both HGETALLs of the else branches at once, as the code does: the result of
the second check is never looked at. The web server's part is `postPort`,
`requestPort`, `onClose` and `clearSession`, whose HSET arrives on another
connection, at any later time. With `Faults`, a command may end in an error
(`RedisError`), the connection may be lost (`ConnectionLost`), the load balancer
may be restarted (`initRedis`) and a worker's HSET may fail (`clearLost`).
`holders`, `open` and `overlap` are history variables: they record which
reservations stand and which requests were between their read and their write at
the same time. A user has one browser session; a request is made once.

**`Members`**: registration, the check of an id and login. `Post` sends the commands a
handler sends at once; MongoDB executes them in order on the one connection of
the driver (`Execute`), and each answer runs a callback (`Callback`: `OnId`,
`OnLogin`, `OnIndex`). `ConnectionLost` fails all pending callbacks in one turn of the
event loop: those of `findOne` take the error for "not found" (`FailFind`), those of
`getIndexers` and `insertMember` throw and end the process (`FailThrows`), which is
started again by hand (`Restart`). The order of commands on the old and the new
connection is kept. `Taken` is what JavaScript makes of `data == true` for a string:
`Ones` are the ids it converts to 1. `mobile_loginMember` is `loginMember` with
another format of the answer; the form checks in the browser are left out.

**`Catalogue`**: the list of a user's images. `Click` posts a list, a create or a delete,
of what is selected or of nothing; `Execute` and `Callback` are MongoDB and the
callbacks as in `Members`. `OnIndex` starts the three effects of a create together:
the insert, the connection to the VM host (`dial`) and the answer; `OnDeleted` the
two of a delete. `Connected` writes the command: `toString` of an undefined os or
index throws there and ends the load balancer (`Crash`). `Success` and `ShowList` are
the success handlers of the page; answers of different requests arrive in any
order. The host is the abstract `ImageHost`. One thing outside may fail, once
(`MayFail`). `initIndexers` and `getIndexers` count as one call: nothing comes between
them on the wire. `Os` are the kinds whose create leaves a file of the index.

**`VmManager`**: the VM host. A process accepts, reads and handles a command up to
`fork` (`AcceptImageCommand`, `AcceptLaunch`): until then it touches
only its own memory and, for a launch, `client_data.dat`. `fopen` or `fclose` may fail
(`OpenFails`, `CloseFails`): the process goes back to `accept()` where `chdir` has left it, in
the second case with an empty file that a later QEMU reads (`ReadBlank`). `read()` is not
checked: of a connection over which no command comes (`bare`; the load balancer leaves
one when it ends between connecting and writing, `SocketUtil.js:34`) the acceptor waits for
as long as it is open (`AcceptBare`) and dies when it is closed (`ReadNothing`). A command
is taken to arrive in one piece. After `fork` the child accepts
(with copies of `android` and `cwd`), and the parent runs `command.sh` (`Script`),
for a launch until the VM ends (`Exit`). `cwd` is the home directory, a user's
directory or any ancestor of home (`above`). QEMU's part is
`ReadClientData` and `RemoveClientData`. Commands wait in `inbox`, a set: each has
its own connection, so they are accepted in any order. `Proc` bounds the
processes: `fork` fails when none is left. The write of `client_data.dat` is
one step; so is each run of the script for a create or a delete. ubuntu and
windows7 are one OS, `disk`; the emulator for tizen is not in the repository.

**`ImageHost`**: what the VM host promises the catalogue: a command is taken by
one worker, carried out once or not at all, in any order, and nothing else makes
or removes an image. `VmManager` implements it (`ImagesAsPromised`, checked in
`vm_host` and proved) with `waiting` the create and delete commands in `inbox` and
`working` those the processes carry out.

**`RingTurns`**: who is where in the ring of sound files. The audio callback counts a
chunk it has written (`CountChunk`) and moves on to the next file after `FinalCnt` of
them; a callback that has not filled the buffer writes nothing and is no step.
`thread_fb` reads `file_pos` once per picture (`Frame`), then sends (`SendFile`) and removes
(`RemoveFile`) files until its own position has reached what it read (`Drained`). `NewQemu`
is the end of QEMU and the start of a later one. Two modules build on it.

**`AudioRing`**: what is in the files, and what is sent of it. `alsa_write_pending` appends
a chunk and counts it whether or not `fwrite` has written it: what a write leaves is
all of the chunk, a part of it or nothing, as `fwrite` may be cut short and `close(fd)`
drops what the stream still buffers. The model tells only something from nothing, and
the properties do not say that a file is complete. `Encode` sends a file, or fails;
`Remove` removes it. At a `Restart` the counters start again and the files stay. A chunk
is known by the number of its file and its place in it, so that a file that is mixed,
lacks a write or is out of order is told from a good one. `made`, `done`, `sent` and `lapped`
are history.

**`FrameBuffer`**: the picture of a VM, of which the model keeps the places of the file
that do not show their pixel (`stale`). The main thread makes the file at the
first event (`mmap_fb`, `make_frameData`), draws an area (`Blit`) and copies it
(`Copy`, by `Update_frameData`). `Written` is the index arithmetic of the code, which
takes the width of the area (on Android its height) for that of the screen;
`Depth` is the division by which it guesses the bytes per pixel. ffmpeg reads the
file in two halves between which the main thread may run. An Android guest is
taken to have 16 bits per pixel, the branch the code has for it.

**`ThreadFb`**: the composition of `RingTurns` and `FrameBuffer` in `thread_fb`: a picture,
then the sound files finished so far, and again. Without what is in the files the
positions are finitely many, so that the sound goes on for ever.

**`Relay`**: a worker of the web server. Sessions on its port follow each other or
overlap; all share `Audio_stream` (the page that gets the sound) and
`NET_SOCKET_TARGET` (the QEMU that gets the input). Any page's close clears the
first (`AudioClose`) and ends the connection of the second (`EventClose`), any QEMU's
end clears the second (`NetEnd`). An error of a page's sound socket has no handler
and ends the worker (`AudioError`). What a BinaryStream does after `end` and at
an error is taken from its client side, `public/lib/binary.js`. `robbedAudio`, `late`
and `crossed` are history: they record another session's interference.

**`InputEvents`**: one session's input, from the user's mouse, finger and keys through
the handlers of the page, the WebSocket, the worker and TCP to `thread_sdl`. `Read`
takes up to 100 bytes, handles the first message and loses the others, or cuts
the last one in two; what is left of a cut message (`Rest`) is taken for anything.
`Eof` is a read that returns 0 or an error and leaves the buffer as `strtok` left it.
Any button can be pressed and released, inside the canvas or outside; a touch may be
cancelled (`touchcancel`), for which the page has no handler. There is one finger.
Coordinates are left out; the key table is represented by two of its entries
and a key it does not have.

The `MC` modules give the constants for TLC; the `Proofs` modules hold the theorems. Definitions marked `(mutant)` are plausible bugs:
putting one in the place of the definition after it makes TLC refute the property
it is listed with in `PROJECT.json`.

## 3. The runs

| Run | Shows | Bounds |
|---|---|---|
| `port_safety` | a port has two holders only if their read and write overlapped; a "full" for a start is still true when sent; an install port is freed only after a close of a page at its worker, or by a restart; a page is at a port granted to its user | 3 requests, 2 users, 2 of 3 ports scanned, 2 workers, faults |
| `port_dup` | violated: one connection per user | 2 requests |
| `port_full` | violated: full means in use | 3 requests |
| `vm_host` | some process accepts, unless a connection without a command has stopped an acceptor; a QEMU that no other launch of its user has run into has its own port; no base image becomes two android images, although each process chooses by its own copy of `android[]` and two can choose the same one; when all processes have left home, no command is carried out any more; the host implements `ImageHost` | 4 processes, 4 commands of 6 kinds, 2 users, 2 base files and slots, faults |
| `vm_live` | every command is accepted though VMs run for ever; a QEMU that waits for its file gets it unless another launch of its user runs into it; a create makes its image unless a process has left home | 4 processes, 3 commands, no faults |
| `members` | every member has an index of its own, whatever breaks and however often the counter is inserted; the counter is there when it is counted; a login after a confirmed join is not refused, and no request is forgotten, unless the connection broke | 3 requests, 2 ids (one equal to 1 for JavaScript), faults |
| `members_usable` | violated: an id shown as usable has no member | 2 requests |
| `audio_ring` | until the writer laps the sender, what the writes to a sound file have left is sent once and in order, or is missing where ffmpeg failed, and is tried sooner or later; sound of an earlier QEMU only in the first lap | 3 files of 2 chunks, 4 files written by each of 2 QEMUs |
| `thread_fb` | no update writes outside the mapped file; areas as wide (on Android as high) as the screen are shown; the first picture begun after the last drawing shows the screen, though sound is written for ever | 3 files of 2 chunks, any number of files and of QEMUs, a screen of 6 by 2, areas of a row, 5/6 of a row and a column, 1 drawing per QEMU |
| `catalogue` | catalogue and disk agree when nothing is under way, nothing failed and no delete overtook its create; the page shows its user's entries when its answers are in, unless lists overtook each other; a create never overwrites an image while the indexes fit their field; a deleted entry does not come back; requests are answered | 1 user, 1 os, 3 requests, 1 image from before, 1 worker of the host, indexes modulo 2, one fault |
| `relay` | sound and input go to the newest page and QEMU or to nobody; a page is silent, and a QEMU outlives its page, only through another session, a failed request or a late QEMU; otherwise the QEMU ends | 2 sessions, faults |
| `input` | what is down in the guest is what the page reported last, and what the user holds, unless a message was lost or cut; no button goes down that was not pressed; QEMU ends with its page | 1 key, 3 messages, 2 of which fit into one read |

The exact conditions are in the comment of each property.

*Why the bounds are enough for the cases to occur.* Three requests are enough for two
to share a port while a third runs between them; with two scanned ports of three,
"full", the second port and the unscanned port all occur. Four processes and four
commands let `fork` fail, let two launches of one directory overlap and let a
process be used twice; three are enough for two processes to choose the same base
image. One index differs from another by the width of the field
(256 in the code), so that two indices fall on one image. Four files in a ring of
three go round once and can lap the sender; two QEMUs are enough for one to find the
files of another. On a screen of 6 by 2 an area of 5/6 of a row is
copied to other places with the depth of the screen, and a column makes the code
guess a depth it does not handle; all other areas are left to the proofs.
In `catalogue` three requests are a create, a delete of it and a list, in any order.
Two sessions suffice for each kind of interference in `relay`. In `input` three messages
with room for two are a read that handles one and loses one, and a read that
cuts one in two.

Deadlock is not checked: requests, commands and messages are bounded and users
may stop.

**Fairness** (weak, in all cases). Redis and MongoDB execute what they are sent, and the
event loop runs the callbacks of the answers it has (`catalogue`). Some
acceptor is woken when a connection waits, scripts and QEMU run (`vm_live`). `thread_fb` is
scheduled, ffmpeg ends (`audio_ring`, `thread_fb`). The worker's event loop forwards messages and
closes, and `thread_sdl` reads (`input`). The end of QEMU at the end of its connection is
fair only where the code forces it, with a whole message left in the buffer
(`relay`, `input`); with any other buffer the thread may spin. Nothing is assumed of
users, of the end of a VM, or of faults.

**Composition and refinement.** `Catalogue` uses the host only through `ImageHost`, which
`VmManager` is shown to implement (`ImagesAsPromised`): what is shown of the catalogue
does not depend on how the host forks. `ThreadFb` puts the turns of the sound ring and the
picture into the one thread that serves both; `AudioRing` adds to the same turns what the
files hold.

**Findings.** `port_dup`: a user can have two pages open although the browser says
that a connected id is refused. `port_full`: a start is refused as full although
the holder of a port has left, because the close handler clears only
`sessionList2`. `members_usable`: the id check calls a registered id usable (and,
for the same reason, a join registers it again), because the id that `checkIdMember`
passes is compared with `true`. See `PROJECT.json`.

## 4. The proofs

All are for every value of the constants that satisfies the assumptions named in
the modules: any number of users, requests, ports, processes, images, sessions,
files and pixels, with or without faults. The type invariants and the inductive
invariants below are proved; the runs check what follows from them.

**`PortAllocProofs`** (the scan covers no more than the ports there are, no more workers
than ports, no user is called "null").

* `TypeCorrect`: `Spec => []TypeOK`. `OverlapInvariant`: `Spec => []OverlapInv`.
* `PortsSharedOnlyByOverlap`: `Spec => []SharedSlotsOverlap`. This is not inductive: a request
  that has been told that a port is free takes it two steps later. `OverlapInv`
  therefore says the same of what is under way: a request with a "balance" reply in
  the queue (`SeenFree`) or a HSET on the wire (`ToReserve`) is still open and overlaps
  every holder the port has got since. That needs each request to have one
  outstanding command (`Single`, `InOneQueue`, `Awaited`), open requests to overlap each
  other (`OpenOverlap`), and a port that reads "null" to have no holder (`FreeUnheld`).
* `UnscannedFree`: `Spec => []UnscannedStayFree`, ports behind the scan are never given away.
* `ViewerGranted`: `Spec => []ViewerOnGrantedPort`, by `ViewInv`: the port in a browser or in a
  session was granted to a request of its user (`Granted`).
* `FullIsCurrent`: `Spec => FullStartIsCurrent`, because a port that is free now was free in
  every reply a start waits for (`ReadsOld`): nothing but a restart frees these ports.
* `FreedAfterClose`: `Spec => ReleasedAfterClose`, because a worker's HSET is
  only on its way after a close (`ClearsFromClose`).

**`MembersProofs`** (`None` is no index, no Boolean and no request).

* `TypeCorrect`: `Spec => [](TypeOK /\ QueueInv)`. `QueueInv` says that the answers belong to the
  oldest pending callbacks and that the commands of the others are on the wire in
  the same order, each command of a request once: without it nothing relates an
  answer to the callback that gets it.
* `CounterBeforeCount`: `Spec => []CounterThere`, by `CounterInv`: a `getIndexers` on the wire has an
  `initIndexers` before it, unless the counter is there already.
* `IndexesDiffer`: `Spec => []OwnIndex`, by `IndexInv` and `CountInv`: a registration has its index
  before the callback that inserts it runs, and the indexes in answers, requests
  and members are all different and no larger than the counter. This holds through
  a lost connection, whose failing callbacks run in the order of the pending ones.
* `JoinedCanLogin`: `Spec => []LoginAfterJoin`, by `LoginInv`: the insert a browser was told of is
  executed, or on the wire before the query of a login posted after it.
* `AllAnswered`: `Spec => []NobodyForgotten`, by `ForgottenInv`: a request without an answer has a
  pending callback that gives it or leads to it, and the second query of a login
  finds its member.

**`VmManagerProofs`** (the constants have their types, the workload consists of commands).

* `TypeCorrect`: `Spec => [](TypeOK /\ Working)`. `TypeOK` alone is not inductive: the
  image a script makes has its type because the process has a command (`Working`).
* `HostAccepts`: `Spec => []SomeoneAccepts`. A fork takes a process out of `accept()` and puts
  another one in; besides, only a connection without a command takes one out, and
  the process is then in `read()` or dead.
* `BaseImageOnce`: `Spec => []BaseImageUsedOnce`. The inductive form adds that the base images
  left are among those of the first day. A create finds its base image there and
  moves it, or makes nothing; a delete gives none back.
* `OwnPort`: `Spec => []AloneOnOwnPort`, by `AloneInvariant`: the launch is the only one of its
  user between the write and the removal of `client_data.dat` (`Undisturbed`), QEMU
  runs in its user's directory or in home and a process never stands in a user's
  directory that does not exist (`Places`). Who removes the file in the directory of
  an undisturbed launch is then the launch itself.
* `StraysNeverReturn`: `Spec => StrayForGood`, an action property.
* `HostKeepsPromise`: `Spec => ImagesAsPromised`, the refinement of `ImageHost`: an accept of an
  image command is a `Take` or a `Drop`, the end of its script a `Finish`, all else a stutter.

**`ThreadFbProofs`** (at least two files, at least one chunk in each; a screen of at least
one pixel). First of the ring of sound files alone, `AudioRing`:

* `TypeCorrect`: `Spec => []TypeOK`; `RingInvariant`: `Spec => []RingInv`.
* `SoundInOrder`: `Spec => []FinishedFilesInOrder`; `OldSoundOnce`:
  `Spec => []OldSoundFirstLap`. Both need `RingInv`: which writes a file holds follows from
  its distance from `work_pos` and from `done` and `made`.

Then of the thread that serves both, `ThreadFb`:

* `FbTypeCorrect`: `StreamSpec => []FbTypeOK`.
* `NoWriteOutside`: `StreamSpec => []WritesInFile`: the index computed with the width of the
  area is never larger than the right one, so it stays inside the mapping.
* `WholeAreasAreShown`: `StreamSpec => []WholeAreasShown`, by `ShownInv`.

**`RelayProofs`** (`None` is no session).

* `TypeCorrect`; `SoundNewest`: `Spec => []SoundToNewest`; `SilentRobbed`: `Spec => []SilentWhenRobbed`;
  the two are inductive together (`SoundInvariant`).
* `InputNewest`: `Spec => []InputToNewest`; `OrphansExplained`: `Spec => []OrphanExplained`. The
  latter needs `TargetInv`: a QEMU no other one has run into is the target, hence the
  one a page's close ends.

**`InputEventsProofs`** (keys are numbers, a read has room for at least one message). Of any
number of messages, any number of which one read may take.

* `TypeCorrect`: `Spec => []TypeOK`.
* `GuestFollows`: `Spec => []GuestFollowsPage`, by `MouseInv`. The property speaks of the moment when
  nothing is under way; before that, the newest mouse message under way tells what
  the page takes to be pressed, or there is none and the guest has it (`Follows`). A read
  that drops all but its first message keeps this, or has dropped the newest one,
  which `stale` records. `FlowInv` says where messages can be at all, so that the ones the
  worker drops before QEMU has connected are the only ones there are.
* `NoPhantoms`: `Spec => []NoPhantomButton`, from the same and from `PageInv`: what the page takes to
  be pressed is pressed, unless it could not tell the release.
* `KeysFollow`: `Spec => []KeysFollowUser`, by `KeyInv`, which is `Follows` for each key of the table.

**`CatalogueProofs`** (`None` is no number, no os, no request and no command; the field of
the index tells at least one apart).

* `TypeCorrect`: `Spec => []TypeOK`, by `BaseInv`: answers belong to the oldest pending calls, the
  other calls are the end of what is on the wire, behind those of a broken connection
  (`QueueInv`), and a call fits the request it is made for (`CallInv`). `TypeOK` alone is not
  inductive: a callback stores what an answer holds, which has the right type
  because it answers that call.
* `DeletedGone`: `Spec => []DeletedStaysGone`, by `EntryInv`: an index that was counted is that of one
  answer, one insert on the wire or one entry (`IndexInv`), an entry a page shows or asks
  to delete included. So no insert brings back what a delete has removed (`GoneInv`),
  also when it is left on the wire by a load balancer that has ended.
* `NothingOverwritten`: `Spec => NoOverwrite`, an action property, by `HostInv`: there is one create
  command for an index, in one place of its way to the host (`OneCreate`, a part of `OrderInv`), and an index
  that is still to be made an image of has no file yet (`ImageInv`).

**`CatalogueAgreeProofs`** (the same assumptions; it builds on `CatalogueProofs`).

* `CatalogueAgrees`: `Spec => []CatalogueMatchesHost`, by `AgreeInv`. The property speaks of the moment
  when nothing is under way; before that, an entry that is there or coming (`Coming`)
  has its image or one being made (`Made`) and is not being deleted, and an image
  without an entry is being deleted (`Leaving`).
* `PageCurrent`: `Spec => []ShownIsCurrent`, by `ViewInv`: MongoDB answers the lists in the order they
  were asked for (`ListOrder`); while the insert of a create the page was told of is not
  executed, a list of that user is behind it on the wire (`NewsComing`); and what is shown,
  or is in the newest answer, is the list of the entries, or the page still has
  something to get that leads to a newer one (`PageInv`).

## 5. What is only model-checked

Liveness, which TLAPS cannot do here: `EveryRequestAnswered`,
`EveryCommandAccepted`, `AloneBoots`, `CreateMakesImage`, `EveryFileTried`, `PictureCatchesUp`,
`EndsWithPage` and `QemuEndsWithPage`. All invariants and action properties that a passing run
checks are proved. That a start or install request is answered, and that a close frees the
install port in the end, is not checked. The violations are counterexamples of TLC.

## 6. Not modelled

* The tree under `src/` is mostly upstream QEMU 2.4.1 and vendored libraries
  (`node_modules`, jQuery, `jsmpg.js`, `binary.js`, `jquery.redirect.js`), over a million lines.
  They are not this project's code and are taken as they are used: of QEMU, the
  functions the project added or changed are modelled. The modules therefore cover
  nearly all of the stateful code of SSM_IaaS itself and a very small share of the tree.
* Playback in the browser (decoding and scheduling by the browser and `jsmpg.js`),
  page layout, form checks, the buttons that switch the selection page between its
  modes and the filter of its install list.
* Routes without state, process start and configuration.
* `server_for_web.c` and the scripts under `VMManager/` other than `command.sh`: an older
  manager nothing builds. `thread_audio`: its loop is `while(0)`.
* In the picture: the conversion of colours, the resizing of the host's window
  (`SDL_VIDEORESIZE`, where the file keeps its old size), its scaling and the full screen by
  keys with ctrl and alt, and a display update that comes before the first SDL event has
  mapped the file (a hazard of `PROJECT.json` without a property: which comes first is
  decided outside this code).
* In the input: coordinates and their turning for Android, a second finger, and codes
  beyond the 250 entries of the key table. A touch that the browser cancels is
  modelled, but no property covers it: `mobileEvent_stream.js` has no handler of
  `touchcancel`, `check` stays 1 and the guest's button stays down until the next touch ends.
  `NoPhantomButton` leaves that time out.
* At the VM host: a command that arrives in several segments, of which `read()` would
  take the first.
* In the sound: how much of a chunk a short `fwrite` has written, and the end of QEMU when
  its file cannot be opened (the stream it then writes to is NULL), which is a `Restart`.
* Timing: sleeps and time-outs are arbitrary delays.
