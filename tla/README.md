# Verification of the Symbian stem kit's own code

The repository ("FCL stem kit") cuts a Symbian^3 ROM down to a stem that boots to
a menu on an emulated board. Its own code is a set of replaced components: parts of
the system whose dependencies were cut (`breakdeps/`), the start-up of the
device (`startup/`), board support and debugging (`hacks/`), stubs (`perfopts/`), and
Perl tools that put the ROM together (`tools/`). The rest is ROM lists, feature tables
and captured logs.

This project models that code in TLA+, checks the models with TLC and proves what
matters most with TLAPS.

## Inventory

| Component | State | Operations | Talks to |
|---|---|---|---|
| Key sound server, `breakdeps/eikkeysoundserver.cpp` | sid list, sound list, default map, foreground stack, lock, disabled key; per session a uid, a stack, two flags | one message per operation; session opened, session dies; volume notification | application clients, window server animation, profiles repository |
| Keyboard driver, `hacks/syborg_keyboard.cpp` | a ring of key codes with position and count, a message queue | interrupt handler, DFC, HAL call, message handler | keyboard hardware, kernel DFC thread, event queue |
| Start-up policy and command lists, `startup/` | main and sub-state, reset counter (persistent) | next state, command list of a state | system state manager |
| Emergency and service call detector, `breakdeps/AknEcs.cpp` | key queue, match status, detector state, key timer | key, pointer, buffer set by the application, timeout | window server events, CenRep, dialler, observer |
| ROAP engine, `breakdeps/DRMEngine/RoapEng.cpp` | request and response, contexts, nonces, signing chain, drm time | one request and one response handler per protocol message | rights issuer, rights server, key storage |
| DRM rights server and clock, `breakdeps/DRMEngine/DRMRightsServer.cpp` | the tries of a start, its threads, the semaphore a client waits at; rights objects in two directories; backup handler and client; contents in use | start, import, backup events, session calls, change of the database from outside | file server, rights database, clients, helper threads |
| DRM key storage, `breakdeps/DRMEngine/DrmStdKeyStorage.cpp` | folders of keys and certificates, the path, the key and the root that are selected, the serial number | select, import, read chains, sign, serial number | file system, crypto library |
| Audio and tone players, `breakdeps/mmfclient*player.cpp` | player state, pending callback | play, stop, prepare, timers | application callbacks |
| Socket client, `breakdeps/usocket.cpp` | session and sub-session handles | forwarding | socket server |
| SVG listeners, `breakdeps/SVGEngineImpl.cpp`, `SVGDocumentImpl.cpp` | eight lists of listeners | add, remove, tell | client, animations |
| SVG document, `breakdeps/SVGDocumentImpl.cpp` | temporary files, error, modes, the tree, images on their way | load by bytes, name, handle or string; image loaded | file server, DRM agent, parsers |
| SVG engine, `breakdeps/SVGEngineImpl.cpp` | document, link under the pointer, link asked for, buffer and context | set document, pointer and user events, set buffer, render a file | client, graphics |
| SVG decoder and drawing, `breakdeps/Svgdecoder.cpp`, `SVGEngineImpl.cpp` | the tree, the lists of elements to be looked at again, images bound while drawing | read elements, look up references, take out what fails its tests, draw | document, graphics |
| File server client, `hacks/cl_file.cpp` | the caller's pending statuses; requests on their way to the server; the positions and lengths packed into message slots | read, write, seek, lock, size, flush, cancel, for two classes with positions of different widths; handing a file to another process | file server |
| ROM tools, `tools/` | the conditional and include stack of an OBY file | filter, sort, build | files |

Most components share nothing with those of another row. The ROAP engine calls the rights
server, the clock and the key storage; the SVG engine holds a document, which is filled by a
document load, which runs the decoder; and the lists of listeners belong to engine and document. The
rest meets outside this repository, in the kernel, the window server or the file server. So
a module models one component, and what it calls outside is modelled inside it, as the
choice of every answer that the code has a path for. The seam between the SVG modules is
narrow: a load ends with a tree that is whole or not (`SvgDocument`, with `SvgDecoder` inside its step `Parse`), an
engine is given a document that was loaded (`SvgEngine`), and a callback is a place where the
client may call anything again (`SvgEngine` and `SvgListeners` both explore that).

What makes each component correct:

- **Key sound server.** Clients are applications, and each of them may die at any point
  of its dialogue. The lock never survives its holder, the foreground pointer never
  dangles, no sound map is destroyed while a stack holds it, and the sid list stays
  sorted and names living sounds only.
- **Keyboard driver.** An interrupt handler and a DFC share a ring without a lock: the
  ring is never indexed out of bounds, no key is made up, and none is stranded.
- **Start-up.** Commands fail, are retried and are awaited late, over resets of the
  device: what the menu needs is there when it starts, and the device settles.
- **Detector.** Timers race keys: a locked phone calls the service number only if it is
  what was typed, once, and not long after.
- **ROAP engine.** A protocol of several exchanges over a context that is kept between
  them: nothing is asserted that a lost or refused exchange took away, nothing is signed
  with another exchange's messages, device and issuer agree on domains and time.
- **File server client.** A position is packed into a machine word or a descriptor, by
  overload and by value, and the request outlives an asynchronous call: the server gets
  the position that was asked for, and each call is answered once.
- **Key storage.** What is selected is spread over a path, a key and two flags, each set at
  its own moment, over files that an import writes one by one: key and chain belong to one
  root wherever a selection leaves, and no root is lost but by an import that was cut short.
- **Rights server.** A start may fail anywhere and is tried again, and the power may go: a client
  that waits is always released, rights are granted once, one bad file stops no other
  directory, and the backup client never calls a handler that was deleted.
- **SVG listeners.** Who is called may add and remove listeners: nobody is called twice,
  and nobody is missed unless somebody was removed.
- **SVG document.** Every step of a load may fail: success shows the whole of the content that was
  asked for, temporary files are left only by a failure, content that was opened without rights stays
  marked as thumbnail only, the listeners hear of images when the last is there.
- **SVG engine.** Callbacks call the engine again: clients know which link the pointer is
  over, the link asked for last is followed once, and rendering a file on the side leaves no trace.
- **SVG decoder.** Elements are put into lists to be looked at after the rest was read,
  and taken out of the tree meanwhile: none of these lists names a deleted element, exactly what passes its tests
  is left, and exactly what is to be shown is drawn.
- **Socket client, ROM tools.** Not modelled; see the end.

`PROJECT.json` lists every hazard at its line, with the properties that
cover it.

## Plan

A module is written so that it can be proved about: parameters are CONSTANTS with named
assumptions, one action stands for one operation, and there are no RECURSIVE operators.
The proofs of module `M` are in `M_proof`, except that `Keys_proof` is about `KeyboardDriver`,
`KeySoundServer` and `EcsDetector`, `Drm_proof` about `DrmKeyStorage` and `RightsServer`, and `Svg_proof`
about `SvgListeners`, `SvgDocument` and `SvgEngine`. The modules of such a group have no names
in common, so that one module can extend them all. `ListLemmas` holds the lemmas that
several proofs need: induction, and lists that gain or lose an entry.

| Order | Module | Status |
|---|---|---|
| 1 | `SoundContext` (abstract), `KeySoundServer`, which implements it | done, proved |
| 2 | `KeyboardDriver` | done, safety proved |
| 3 | `StartupPolicy` | done, safety proved |
| 4 | `EcsDetector` | done, safety proved |
| 5 | `RoapEngine` | done, proved |
| 6 | `FileClient` | done, proved but for the size |
| 7 | `DrmKeyStorage` | done, proved |
| 8 | `RightsServer` | done, safety proved |
| 9 | `SvgListeners` | done, proved |
| 10 | `SvgDocument`, `SvgEngine` | done, proved |
| 11 | `SvgDecoder` | done, proved |
| 12 | A composition of `RoapEngine` with `DrmKeyStorage` (in place of the root and the device identity that the engine's module chooses now) | planned |
| 13 | `FileTransfer`: Adopt, Duplicate and Transfer of file handles | planned |
| 14 | `ObyFilter`: the stack of conditions and includes of the ROM tools | planned |

`SoundContext` is the abstract specification so far. The next ones worth stating: a
FIFO of codes that may lose some, which the keyboard ring implements while it is not
raced; and a key store that answers with key and chain of one root, which `DrmKeyStorage`
implements between imports.

With these two would come their refinement theorems, which rest on invariants that are proved
already (`KeysInOrder`, `ChainOfTheKey`). No safety property of a run is without a theorem.

## The modules and the code

### `KeySoundServer`, `SoundContext`, `MCKeySound`

One server thread handles one message at a time, so each message of
`CEikKeySoundSession::ServiceL` is one action with the session as its parameter:
`InitSession`, `AddSoundIdBuffer`, `PushContext`, `PopContext`, `BringToForeground`,
`LockContext` and so on. `Connect` and `Close` (the destructor, with `RemoveSids`, the
end of the stack and of the lock) are the ends of a session, and `HandleNotifyInt` is the
volume notification. An operator beside an action that differs from it in one respect
(`InitSessionForgets`, marked "mutant") is that action with a plausible bug; each
property is shown to find one. `iSidList`, `iSoundList`, the default map, the foreground stack and
the lock are variables under their own names. Heap cells are numbers; `soundInfos` and
`soundMaps` are the cells alive, so that a pointer to another cell dangles. A buffer of
sounds may be cut short at any sound, as `AddSoundIdBufferL` may leave. The loops of `AddSids` and
`RemoveSids` are recursive functions of the number of rounds.

`SoundContext` is what clients rely on: one foreground client, and a lock under which it
stays. `KeySoundServer` instantiates it with the foreground stack and the lock as its
two variables.

### `KeyboardDriver`

The interrupt handler (`Interrupt`, `IsrPush` for each code, `IsrEnd`) comes between any two
memory accesses of the DFC. So `FifoPop` and the loop around it are one action per
access: `check` of the count, `pop` of the code, `advance` of `iFifoPos`, `load` and
`store` of `iFifoCount--`, `wrap`, `event`. The split of `iFifoCount--` is what the
compiler may emit for ARM, where a decrement in memory is a load and a store. HAL calls
append to `iMsgQ`, and the message handler takes them in the same kernel thread.
The history variables record what was accepted, what was delivered, and whether an
interrupt brought a code into the window from the store of `iFifoPos` to the store of
`iFifoCount`.

### `StartupPolicy`

`GetNextState` and `GetNextStateAfterError` are the policy's functions, branch by
branch. The three command lists are sets of commands with priority, severity, retries
and whether they are deferred, read off the resource files. The system state manager that
runs them is not in the repository: `Execute`, `Retry`, `Fail`, `Defer`, `MultiWait`,
`DeferredDone` and `DeferredFails` say what the resources ask of it, and are marked external.

### `EcsDetector`, `MCEcs`

`AddChar`, `AddInvalidChar` and `AddSendKey` are the paths of `OfferKeyEventL`, each
with conversion by keyboard layout, drop of the oldest key of a full queue, search and
timer; `SetBuffer`, `ApplicationReset`, `HandlePointerEvent` and `CancelMatch` (the
timer's callback) are the others. A call that may leave has a failing disjunct.
The search for emergency numbers is commented out in this build, so the service number
is all that matches.

### `RoapEngine`

`Create...Request` and `Handle...Response` are the handlers of the same names, each
response with its ways to fail: a bad signature, another issuer, a leave in a server
call. In `HandleReqResponse` the server may set the DRM time by the OCSP response or not
(`updated`); the registration succeeds either way, and `iDeviceTimeError` is dropped only if it
does. `GetRIContext`, `SetDrmTimeSecure` and `StoreRights` are the helpers they share.
The members of the engine keep their names. `request` is what the issuer sees of a
request; issuers accept what they can check. `Trigger`, `Lost` and `Refused` stand for
the base class and the network. `UserSetsTime`, `ClockLost` and `Expires` are what happens
to the clock and the contexts meanwhile.

### `FileClient`, `MCFileClient`

A thread has one `RFile` and one `RFile64` open on the same file. An overload of the code
is an action (`ReadTInt`, `ReadTInt64Length`, ...) that puts its position into a slot: a
word (`Raw`), or a descriptor of a number on the caller's stack (`Package`). `Return` ends
the frame of an asynchronous call, and from then on such a descriptor may hold
any value. `Serve` and `ServeCancel` are the file server, which is external: it takes
requests in order and cancels at once. The word is a constant, so that 2^32 becomes 4 for
the model checker and stays arbitrary for the proofs. The module is the build with
`SYMBIAN_ENABLE_64_BIT_FILE_SERVER_API`.

### `DrmKeyStorage`

`SelectTrustedRoot`, `SelectDefaultRoot`, `ImportDone` and so on are the calls of the same names.
A folder on C: is a function from its files, numbered in the order in which an import writes
them, to what they hold. `path`, `key`, `rootSelected` and `rootIsCmla` are the members
`iFs`'s session path, `iKey`, `iRootSelected` and `iRootIsCmla`; `SelectAt` sets them in the
order of the code, and `CannotLoadKey`, `PanicsForCmla` and `CannotCheckForCmla` are its ends in
between: the key and the root's certificate may fail to be read whatever the files hold, for want of
memory or because they do not decode, and a folder of a single certificate, which an import accepts
(`Chains` has 0), is indexed below zero and panics (`DrmStdKeyStorage.cpp:800`). `ImportLeaves` and `PowerLost` stop an import after any file, or while the
old folder is deleted. A failed `WriteFileL` leaves its file open (`held`): no import of that file
succeeds until the process ends.

### `RightsServer`

`phase` is the place in `ConstructL` where a try to start has come to, one step for each
stretch in which something may leave. `TryLeaves` keeps the threads that run, because
nothing in the code stops them. The import of a directory takes its files one by one, in any
order, since `GetDir` sorts nothing, and has two steps per file: the rights are
added, and the file is deleted. `Off` is a power cut and `WatchedObjectChanged` the reset
that the server itself asks for. Handlers of backups are numbers, with `handlers` those
alive. What a session tells the server is kept in `counting` and `urls`; `playing` and
`accessing` are what the sessions do, for comparison. The database is external: it
may refuse anything.

### `SvgListeners`

A list is told of an event by `BeginTelling`, `CallNext` for each listener and `EndTelling`;
between two of these any listener may be added to or removed from any list. All loops
but one read the number of listeners once. An index past the end panics.

### `SvgDocument`, `MCSvgDocument`

`stage` is the next step of the load that is going on: a client asks for bytes, a name, a
handle or a string, and each is turned into the next kind, through temporary files, until a
parser is reached. Each step may fail with the error path it has in the code, and `temp` says
which temporary files are there and open. A content is four attributes that the steps tell
apart. `Parse` stands for the parser, of which `SvgDecoder` is one. The client sets the modes, and images
arrive, between loads: a load is one call that runs to its end. `lifted` says since the last
success that the client left thumbnail mode, or that a load cleared the mark of the document and then failed.

### `SvgEngine`, `MCSvgEngine`

Calls of the client are actions (`SetDocument`, `ProcessEvent`, `SetGdiContext`, `RenderFile`, ...).
A call that tells the client of a link pushes what it does next on `calls`, and goes on with
`LeftTold`, `AllTold` or `LinkTold` after the client has called what it wants, the engine
again included. `rendering` holds the files that are being rendered, each with the document and buffer
that were there before: `RenderFile` sets others, and while a file is drawn the client is called to update its
presentation and its screen and may call anything, another file included, until `PutBack`. Where no document is
set at line 1182, or the client took it away before line 759, `FollowsNull` ends the process.
`LinkRequest` is an element that asks for a link, and a link asked for before is dropped for it;
`Follows` resets the link without telling anybody when nobody listens or there is no document, and `lost`
says that a link was forgotten untold although there was somebody to tell it to.
Outside of files, the callbacks about presentation and screen are taken as calls that the client makes after
`StartEngine` or `RenderFrame` has returned.

`SvgCommon` declares the `None` that `SvgListeners`, `SvgDocument` and `SvgEngine` share, as
`DrmCommon` does for `DrmKeyStorage` and `RightsServer`.

### `SvgDecoder`, `MCSvgDecoder`

A file is read element by element (`ReadElement`, `ReadEndOfElement`); elements are numbered as they
are read, and decoding may leave at any of them (`Leaves`). A first element that is not svg has no
parent to be appended to (`FollowsNull`). At the end of the file, `RemoveFalseElement` and
`RemoveFalseSwitchCase` take elements one at a time from their lists. A root whose own tests fail is
deleted like any other element and given to the document all the same: `DrawsDeleted` is what happens when it
is drawn. A drawing that leaves (`RedrawLeaves`) keeps the images bound that it has bound until then:
`iGfxContext` counts them, and the next drawing starts inside them. `DrawElements` is the recursion
that draws a tree, written as a function from elements to functions from bound buffers to what is drawn
(`draw`): an element comes before its children and siblings, which have higher numbers.

## What the runs check

Every run explores its whole bounded state space. `Ecs.cfg`, `KeyStorage.cfg`, `Rights.cfg` and
`SvgDocument.cfg` check for deadlocks. `CHECK_DEADLOCK FALSE`
stands in the others: an idle server, driver, engine or thread waits for the next
client, key, trigger or call, and the bound on those ends the behaviour; a
device that is up stays up; a thread that panicked or followed a null pointer is gone. `SYMMETRY` is used where sessions or statuses are
model values and all properties of the run are safety properties.

| Run | Instance | Shows |
|---|---|---|
| `keysound` | 3 sessions, 3 maps, stacks of 2, and no sounds; or 2 sessions of one or two applications, 2 sounds a load, and no foreground (`SoundsOrContext`) | no map in use is destroyed; one loader of the default sounds; the sid list stays sorted and complete; implements `SoundContext` |
| `keyboard` | ring of 2, 5 keys, 2 clients, 2 HAL calls | order is kept unless raced, no code is made up or stranded, the ring drains |
| `startup_boot` | 2 resets, 1 power loss | the menu starts after what it needs, nothing deferred is left, the device settles |
| `ecs` | number of 2 digits, queue of 3, 5 keys or buffers | the match is about the queue, Send calls it once, the match ends |
| `roap` | 1 issuer, 1 domain, 2 roots, 2 triggers, 1 event | domains, time and rights over two exchanges in a row |
| `file` | word 4, sizes to 4, 2 statuses, 3 calls | positions arrive, calls are answered once, cancels settle |
| `keystorage` | 2 roots, one in ROM too, 2 key pairs, chains of 2 signing certificates in ROM and of none or one imported | chain and key belong together; a selection that fails leaves no key or the folder's own; a root is lost only by an import that was cut or brought its certificate alone |
| `rights` | 2 files in 2 directories, one that cannot be deleted, 2 tries, 2 handlers | rights are granted once, a file stays only where an import stopped, handlers live, clients are released |
| `svg_listeners` | 3 listeners, 3 entries in all lists | nobody is missed unless somebody was removed |
| `svg_document` | 5 contents, 2 images a picture, 3 on their way | success, failure, temporary files, the thumbnail mark and images of any sequence of loads |
| `svg_engine` | 2 documents and a file, 3 links, 2 buffers, calls and files 2 deep | what the client knows of links; the link asked for last; files on the side |
| `svg_decoder` | a root and 3 elements of twelve sorts, or 4 of five; 1 image left bound | lists, tests and switches, drawing |

Why the bounds are enough:

- *Sessions.* The foreground and the lock name one session; a second takes them over
  or releases them for it, and a third is there while the two are at it. Two loads of two
  sounds give a copy of a sid, its neighbour and another application's, which is all the
  walk of `RemoveSids` tells apart. The constraint separates sounds from maps and foreground, because
  `iSidList` and the stacks are touched together only by the end of a session, and there
  one after the other.
- *Keyboard.* Five codes wrap a ring of two slots twice, fill it, overflow it and leave
  one more for the race. The proofs hold for every size.
- *Start-up.* The lists are the real ones; two resets separate "none left", "one left"
  and "the first".
- *Detector.* A queue one longer than the number has a number at its start, at its end,
  and pushed out. Five keys fill it, type the number again and press Send.
- *ROAP.* A second trigger meets everything the first has left: a context, chains, a
  domain, a device certificate at the issuer, a broken-off handshake. With two roots the
  context, the device and the RI Hello can disagree. One event is one change of the
  clock or an expiry between any two steps.
- *Files.* Word 4 has each boundary of the code: 1 is the largest TInt, 3 the largest
  TUint (all ones, which also says "here"), 4 needs more than a word. Three calls are two
  outstanding ones and the one that cancels or meets them.
- *Key storage.* Two roots are enough for a selection that is not the default, a root
  in ROM that an import hides, and a listing that stops at one and loses the other. The chain of
  two signing certificates in ROM has a root's and one that is not; an imported one is shorter, so that
  its root's certificate stands elsewhere, or empty, which is the boundary. One serial number is enough for what its
  file may hold: nothing, no number yet, or a number.
- *Rights server.* A file per directory, of which one cannot be deleted, stops its
  directory's import, is read again at the next start, or meets a power cut. Two tries are a first one
  and one that meets the threads of the first; two handlers an old and a new one. The
  proofs hold for every number of each.
- *Listeners.* Three entries in one list are one behind, one at and one ahead of the loop; the
  proofs hold for every length.
- *Loads.* The contents are one per path of the load; the modes change between any two
  loads. Three images on their way are one more than a picture has, so that some belong
  to an earlier tree.
- *Links and buffers.* Two links in one document and one in a file make every crossing:
  to a link, to none, to a link of a document that is gone. A client that calls back from a callback, or
  renders a file within a file, is two calls deep. `OneQuestion` explores the pointer while no link was
  asked for and with one buffer or none, links that were asked for while the pointer is over none, and
  other sizes of the context than its buffer's with neither. The three share the document, who listens
  and the calls under way, which each explores in full; of the rest only the buffer, through
  `PassesThumbNailRestriction`, has a part in two of them.
- *Trees.* Three elements are a switch with two cases, or a switch in a switch with
  one; the run with four adds a switch in a switch with two. The twelve sorts have
  each kind of element with each of its lists, each test passed and failed, and each
  way of not being drawn. One image left bound is what tells a drawing in it from one that begins
  anew; the proofs hold for any number.

### Fairness

- `keyboard`: the processor takes an enabled interrupt and goes on with its handler; the
  kernel thread runs when no interrupt handler does. Both are weak: a handler or thread
  that stays ready is run.
- `startup_boot`: every command that was started ends, in success or in failure, and
  the manager goes on. It is weak fairness of the manager as a whole: no command is forced to
  end well. A process that starts or dies answers its rendezvous; one that hangs
  without doing either is outside the assumption, and the multiple wait of the services has
  no timeout (`r_cmd_multiwaitforever`), so there the device would wait with it.
- `ecs`: a timer that stays running expires. Nobody is assumed to press a key.
- `rights`: a process that can go on with its start does, tries again after its two seconds,
  and gives up when its tries are used up. No call is assumed to succeed, and clients
  and power may do what they like. A helper thread that never reports would hold the
  start up for ever; the code waits for it without a timeout, and the assumption is that it does
  report, as it does on each of its paths.
- No other run assumes any.

## What is proved

TLAPS checks the proof modules for every value of the constants that satisfies their
named assumptions (a ring of at least one slot, an even word, `None` outside the
sets, bounds that are natural numbers, a root that is an svg element). TLC checks these assumptions in each run.

- **`Keys_proof`.** For the ring, `RingInBounds`: `DriverTypeOK` says per place of the DFC where
  `iFifoPos` and `iFifoCount` may be, and with that is inductive. `KeysInOrder` adds
  what the registers hold. `NothingMadeUp` counts codes and does not
  mention order, so that it holds when raced. `NoCodeStranded` needs the types only.
  For the key sound server, `LockHasHolder` alone is not inductive: whoever locks is
  in the foreground, and that it is still there is `ForegroundOpen`. `LockInv` joins the
  two with the types of the session state. From it follow `LockHeld`, `LockKeeps` and
  `RefinesSoundContext` (every step is a step of the abstract context or a stutter).
  `LoaderInv` adds for `OneDefaultLoader` that `iInit` is set while there is a loader.
  `MapsInv` adds for `MapsLive` that before the default map exists there is no map in
  any stack, so that the first one can become the bottom of all of them.
  `SidListStaysSound` goes through the loops: `ListsSound` says of two lists
  and a set of living sounds what `SidListSound` says of the server's, and each round of
  `AddSids` and `RemoveSids` keeps it. A round that adds inserts in front of the first
  greater sid (`InsertAtEntry`), and finds a free cell (`FreshInfo`) because there are twice as many
  cells as entries; a round that removes deletes the cell of the entry that goes (`RemoveRound`).
  For the detector, `MatchInv` joins `DetectorTypeOK`, `MatchIsCurrent` and "a match state is
  armed"; `CallsOnlyServiceNumber` follows step by step.
- **`StartupPolicy_proof`.** The lists are read off the resources, so what the proof needs of them is
  computed once, as facts about each list: what comes first, what waits for what, whose
  failure ends the start-up. `IInv` then says of the list that is executed how far it has come: what was
  passed has been told, has failed or is deferred (`NothingSkipped`), and a deferred command has its
  wait ahead (`WaitToCome`), from which follow `DeferredAwaited` and
  `ServicesInOrder`. It holds for any number of resets and power losses, because a
  reset begins the first list anew.
- **`RoapEngine_proof`.** Four invariants of a few conjuncts each: who is a member while
  a join or a leave is under way, which phases hold a context, what
  the time flags say of the clock, and that a device which joins a domain for its rights has
  stored them or keeps them waiting.
- **`FileClient_proof`.** Lemmas on the slots say for every word width that what
  an overload packs is what the server unpacks, with the exceptions `ServedWhereAsked` names.
  `TransitInv` carries that through the server; `AnswerInv` counts completions;
  `CancelInv` says that what was cancelled is in no request.
- **`Drm_proof`.** For the key storage, `WholeUnlessCut` says that a folder whose last import finished has
  all its files, of one pair; `SelectionFits` says what path, key and flags say of each
  other as long as nothing disturbed them; `DownUnselected` that a process that ended has
  selected nothing. Together they are inductive and give `ChainOfTheKey`, `RootsStay`, `KeyOfPath` and `SerialStays`
  for any roots, pairs and chain lengths, empty chains included.
  For the rights server, `ImportInv` says of every file that it was granted at most
  once and is then gone or about to be deleted (`Once`), and that a file still
  there has its turn to come, or its directory was stopped (`Turn`). `HandlerExists` follows from the handlers
  alone. `UsersCounted` says for any finite set of sessions that the URL counters are the
  numbers of their users.
- **`Svg_proof`.** For the listeners, `LoopInv` says where the loop has been: those told
  and not removed lie behind the next index, those that wait ahead of it while nobody was removed.
  For the document, `LoadInv` says at each step of a load which temporary files there are, what the file or
  handle at hand holds of the content, and whether it was opened without rights, and that a load keeps the
  mark of the document until it looks into the file; `ImageInv` counts the images of
  the tree apart from those of earlier trees. For the engine, `EngineInv` is about the calls that are
  under way: while the client calls nothing from within there is at most one about the pointer and
  one about a link, and what has been told is what the call will leave when it returns (`KnownInv`, `FollowInv`);
  and files end in the order in which they began, inside the calls that were under way (`FilesInv`).
  TLC checked `EngineInv` on the whole instance of `svg_engine` before it was proved.
- **`SvgDecoder_proof`.** `TreeInv` says what reading in order gives: parents come before their children,
  and the descendants of an element have the numbers that follow its own (`NestedInv`). `ListsInv`
  says of each of the five lists which elements of the tree it may name, and gives `ListsAlive`. `ElementsInv` and
  `SwitchesInv` say that an element is in the tree as long as it passes or waits to be tested, with
  all above it (`Stands`, `Chosen`); when no list has anything left, that is `LeavesWhatPasses`. Drawing is proved by induction from the
  last element down: what is drawn of an element and what follows it is the element, what is drawn of its
  first child, and what is drawn of its next sibling; and this is what `DrawsWhatIsShown` says,
  in order and inside the images that are bound, those of earlier drawings that left included.
- **`ListLemmas`.** Induction is stated there for a set of numbers that has zero and successors: the
  library states it for an operator, which the provers cannot instantiate. So a fact about a loop becomes
  a set, that of the numbers of rounds after which it holds.

Only model-checked: the liveness properties (`RingDrains`, `SettlesDown`, `MatchEnds`,
`ClientReleased`), which need fairness and ENABLED. Every other property of every run is a theorem.

Some properties are proved or stated and in no run, because another property of a run
rests on them or says more: the types, `LockHasHolder`, `ForegroundOpen`, `LockKeepsForeground`,
`RemoveSidsTakesLastCopies`, `CallsReturn`, `ContextHeld`, `ChainsAreOwn`, `KeyOfRequest`, `SizeHonest`,
`SerialNeverChanges`, `UsersKnown`, `ToldOnce`, `LiveCountNeverPanics`. Each can be added to the
configuration of its module as it stands.

## Where code and comments disagree

Each of the first five is a definition that says what the comment says. No run holds it; TLC
refutes it when it is added to the named configuration.

| Definition, configuration | Code | Comment |
|---|---|---|
| `SoundListLive`, `MCKeySound.cfg` | `RemoveSids` deletes from two lists at one index, though only one is sorted (`eikkeysoundserver.cpp:736`): a freed sound stays in `iSoundList`, which a volume change walks | "Remove sound at this position" (732) |
| `DefaultSoundsRestored`, `MCKeySound.cfg` | a client that dies between being told to load the default sounds and loading them leaves `iInit` set (279): nobody loads them again | "so they can be restored if this session goes down" (596) |
| `MatchTimesOut`, `Ecs.cfg` | a key that is no character cancels the key timer and returns (`AknEcs.cpp:534`): the match stays | "Just return since it is an invalid character" (563), "timeout between keys" (455) |
| `ServerThinksTimeCorrect`, `Roap.cfg` | a one-pass response, which answers no request, makes DRM time secure as it stands (`RoapEng.cpp:1301`) | "server thinks that the time is correct" (1297) |
| `AsyncReadAtPosition`, `File.cfg` | an asynchronous `RFile64` call names a position in a stack frame that is gone when the server reads it (`cl_file.cpp:2506`) | "Position of first byte to be read" (2475) |

More were met in `SVGEngineImpl.cpp` and are part of the model without a definition of their own:

- A thumbnail in a buffer of more than 80 pixels gets no events (`ProcessEventL`), but is drawn
  all the same when the engine starts (`StartEngine`), where the comment says "Do not render to frame buffer"
  (898). So `FreeIsMarked` speaks of the mark alone, and not of where a marked document is drawn.
- "No matter what" happens in `RenderFileL`, the engine is to be set back "to how it was" (1177-1180). With no
  document set before, line 1182 follows a null pointer instead, and so does line 759 when the client
  takes the document away as it is told to update its screen. The second conjunct of `FileLeavesEngineAsItWas`
  says that nothing else ends in `crashed`; its first says what is put back otherwise.
- A context whose size the client had passed with the buffer gets the size of the buffer when a file
  ends, or keeps that of the file where it cannot be resized (the code calls that "very serious", 1183). The
  property allows both.

In `Svgdecoder.cpp`, `RemoveInternalReferences` (4371) never touches `iImageElements`, which keeps the images that
are deleted: `ListsAlive` is about the five other lists. A first element that is not svg is appended to a
null parent (3363), and a root whose tests fail is deleted and returned as the root (3697, 3562): both end
in `crashed`, the latter when it is drawn.

## What is not modelled

- Parts of modelled components: launching the key sound server's thread; the shutdown
  command lists and the list no transition reaches; metering, transaction tracking and
  the content of multipart responses in the ROAP engine; opening and closing files, names,
  attributes, times and the transfer of handles in the file server client; the secure
  clock, which hands one call to the system; in the SVG components the values of attributes,
  gradients, timers and time container, text search and editing, looking for elements, and the
  text parser, which hand their work to classes outside the repository. What an image or an
  animation does when its element is removed lies in such classes too.
- What a document does with the engine it was given (`SetEngine`): it passes its timer's ticks on
  as events, which follow no link (`SVGDocumentImpl.cpp:1115`), and tells the graphics context of gradients
  (1976). Neither touches what the models keep.
- Callbacks of `UpdateScreen` and `UpdatePresentation` outside of a file: what the client calls
  from them is explored as called after `StartEngine` or `RenderFrame`, so a document that is taken
  away within them is not explored.
- Not yet: the USB/Bluetooth socket client, ROM tools.
- Not planned. The audio and tone players: the stub neither constructs its timer nor adds
  itself to the active scheduler, so the first `Play` panics in `CTimer` and no later
  state is reached. The SAT handler, the OpenVG and CONE stubs: calls without state. The
  profiling tool and the ROM lists: no behaviour.
- Outside the repository, and assumed: the file server takes the requests of a file in order and
  reads a descriptor when it does; the state manager runs commands by
  priority; issuers are honest; the kernel runs one DFC at a time. What these may answer
  is otherwise left open. Wording, formats, cryptography and the contents of messages,
  files and sounds are abstracted away throughout.
