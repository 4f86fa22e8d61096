# libvpl: TLA+ models

libvpl is the dispatcher of Intel VPL. An application links it and asks it for a
*session*; the dispatcher finds the runtime libraries installed on the system
(2.x VPL runtimes, 1.x Media SDK runtimes), asks them what they implement,
matches that with the application's filters, ranks what is left, and creates the
session with the library chosen. From then on it passes calls through.

The dispatcher starts no threads and takes no locks on Linux; on Windows one lock
covers a whole search. A loader and a session are used by one thread at a time, so
one API call is one step, or a few where its system calls may fail one by one. What makes it hard is
not concurrency but *sequences*: two loading modes that share one set of lists,
filters that change between calls, steps of a load that fail half way and are
retried by the next call, and sessions joined, cloned and closed in any order.
The one concurrent actor is the runtime behind a session, which the example
programs feed with frames and wait for.

## Components

| Component | State | Operations | Hard behaviour | Correct when |
|---|---|---|---|---|
| Public 2.x API, `mfx_dispatcher_vpl.cpp` | flags `m_bLowLatency`, `m_bNeedUpdateValidImpls`, `m_bNeedFullQuery`, `m_bNeedLowLatencyQuery` | `MFXLoad`, `MFXUnload`, `MFXCreateConfig`, `MFXSetConfigFilterProperty`, `MFXEnumImplementations`, `MFXCreateSession` | which call brings the lists up to date, after which others | what is enumerated, and what a session runs on, meets the filters set now |
| Loader, `mfx_dispatcher_vpl_loader.cpp` | `m_libInfoList`, `m_implInfoList`, `m_implIdxNext` | search, load, check, query, filter, rank, unload | failures between two steps; retries; two owners of one pointer | indices are unique and dense; order is the documented priority; no pointer to a deleted library |
| Configuration filters, `..._config.cpp` | `m_configCtxList`, `m_specialConfig` | set, combine, validate | several objects set one property; null pointers; the rule that turns low latency mode on | all objects' filters hold; the last setting of a property counts |
| Low latency loading, `..._lowlatency.cpp` | adds to the loader's lists | load one library from fixed directories | the full load after it, and before it | nothing listed twice, read without a description, opened twice |
| Library search, `..._loader.cpp`, `..._lowlatency.cpp` | `m_libInfoList`, `m_bPriorityPathEnabled` | search directories of both systems, validate, prune | links, duplicates, names, repeated loads in a changed environment | what the documented places hold is found once, with the priority of its place |
| MSDK compatibility, `..._msdk.cpp`, `windows/mfx_dxva2_device.cpp` | one record per adapter (`LoaderCtxMSDK`) | query a 1.x runtime per adapter | test sessions and system calls that fail; records used again; two numberings of the adapters | each answer describes its adapter; nothing stays open |
| Linux sessions, `linux/mfxloader.cpp`, `linux/device_ids.h` | per handle (`LoaderCtx`): library, two function tables, runtime session | `MFXInit`, `MFXInitEx`, `MFXInitEx2`, `MFXClose`, `MFXJoinSession`, `MFXDisjoinSession`, `MFXCloneSession` | attempts that fail after a session exists; refused closes; clones | no runtime session is lost or shared; functions and library belong together |
| Windows dispatcher, `windows/` | handles (`MFX_DISP_HANDLE_EX`), the library iterator, the registry | the same calls, `MFXQueryAdapters*` | three searches and a choice among what each found; a second initialisation of the chosen one | the best library is found; libraries are loaded while handles hold them |
| Configuration interface, `mfx_config_interface/` | none of its own | `SetParameter`: video parameters from strings | numeric limits; buffers the application attaches on demand | what is written is what the text says |
| C++ session classes, `mfxvideo++.h` (three copies) | a session and a loader per object, a handle per component | constructors, `Init`, `Close`, joining, cloning, destructors | objects that own handles and objects that copy them | sessions and loaders are closed once, by their owner |
| Example programs, `examples/` | bitstream, surfaces, a loop and its clean-up | decode, encode, process, transcode | frames in flight in a concurrent runtime; draining; failures at every call | each frame is written once and in order; the program ends; memory outlives the tasks that use it |
| Log | output | | | not modelled: output only |
| Tests, headers, documents, environment | | | | the promises that runs refer to come from them |

Interactions: the public API drives the loader; the loader reads the
configuration; low latency loading writes the loader's lists and, in its 1.x
fallback, the configurations; `LoaderCtxVPL::CreateSession` ends in
`MFXInitEx2` of the session component. The query of a 1.x runtime opens and closes test
sessions through the same function. The classes call the C API of either
dispatcher, and the query of adapters is a client of the classes. All are direct
calls; the components share no state but what is named above, so a module takes
what another computes as a constant (below).

## Modules

| Module | Models |
|---|---|
| `Ordered` | order on pairs, selection of a subsequence (`Pick`), stable sort (`SortBy`): what `std::list` and `std::list::sort` do |
| `Dispatcher` | one loader: public API, loader, filters, low latency loading |
| `DispatcherMC` | installations and filter sets for TLC |
| `ConfigFilter`, `ConfigFilterMC` | the `mfxConfig` objects of a loader: all property names, the tests of a description, the special properties |
| `LibrarySearch`, `LibrarySearchMC` | the search for runtimes on both systems, in both modes |
| `Adapters` | graphics adapters through DXGI and Direct3D 9 (used by `LibrarySearch`, `MSDKCompat` and `AdapterQuery`) |
| `MSDKCompat`, `MSDKCompatMC` | the query of a 1.x runtime |
| `Windows`, `WindowsMC` | `MFXInitEx` and the handles of Windows |
| `SessionClasses` | the C++ classes |
| `AdapterQuery`, `AdapterQueryMC` | `MFXQueryAdapters` and its variants, on top of `SessionClasses` |
| `StringParam`, `StringParamMC` | the configuration interface |
| `FrameCopy` | abstract: frames are copied in order, each once, and the copying ends |
| `Examples`, `ExamplesMC` | the example programs and the runtime they drive; implements `FrameCopy` |
| `Session` | the handles of an application and the runtimes' sessions |
| `SessionMC` | installations for TLC |
| `Ordered_proofs` | lemmas on `Pick`, `SortBy` and `InOrder` |
| `Dispatcher_proofs` | in three parts: what each operation on the lists and each step of a load preserves; the theorems on filters, indices and memory; the order of the list |
| `ConfigFilter_proofs`, `Session_proofs`, `MSDKCompat_proofs`, `Windows_proofs`, `SessionClasses_proofs`, `Examples_proofs` | the theorems about the module each is named after |

### Dispatcher

`libs` and `impls` are the two lists, with what the properties need of `LibInfo`
and `ImplInfo`. An implementation refers to its library by an id, so that a
deleted library can be told from one erased from the list (`live`, `Dangling`).
Every action is one API call. The operators that build one (`BuildListOfCandidateLibs`,
`CheckValidLibraries`, `QueryLibraryCapsFull`, `PrioritizeImplList`,
`UpdateValidImplList`, `LoadLibsLowLatency`, `QueryLibraryCapsLow`) have
the names of the functions they stand for and map a record of the lists to
another; `fault` records that the code would have read a deleted object, read or called
through a null pointer, or not returned, after which no call follows.
`MFXCreateSession` is two actions because its two halves share only the last step.

The environment is constants: `Search` is what the directory searches find, in
order, `Caps` what each runtime reports, `MissingFrom` the version of the oldest
function it does not export. A library with `MFXInitialize` is taken for a 2.x runtime (`mfx_dispatcher_vpl_loader.cpp:640`), and two
other functions of it are then called without a test: `MFXQueryImplsDescription` in the query (995, 1023, 1037), `MFXReleaseImplDescription`
when what it returned is rejected (1107) or unloaded (815). `Lacks` says which of the two a runtime does not export; calling it is the
fault `null_call`. `Flaky` runtimes may refuse to be opened, or a
test session, at any call: those that work are an argument of each action.

Abstractions: six properties (`Impl`, `ImplName`, `VendorID`,
`AccelerationMode`, `ApiVersion`, `CodecID`) stand for the properties, one for
each way the code treats them (compared, compared in a list, compared after the others,
capability, special, given by pointer). The API version is one value. The
adapters of a 1.x runtime are entries of `Caps`. Left out: properties that only go
into the session's parameters (threads, device handles, extension buffers, the DXGI adapter),
the query of selected properties, the formats of `MFXEnumImplementations`,
`MFXDispReleaseImplDescription` (it frees what the application was given), failed memory
allocation, and property names or types that are rejected without any effect. A file
that is already open is assumed to open again.

### Session

`ctx[h]` is the `LoaderCtx` behind a handle: the library it keeps open, the
runtime's session, version, implementation type, the library each of the two
function tables points into, and the library name kept for cloning. `rts` are the
sessions the runtimes have, with their parents. `SearchLibs` is
`LoaderCtx::Init`: six names tried in order, each attempt `Try` with
its five ways to fail and the `Close` that follows. `LoadLib` is the same with a name.

What a runtime does is external: it refuses or accepts a session, answers a query
or not (two independent choices per call for `Flaky` runtimes), refuses to close
a session with children, and joins a session to an independent one only. The
pass-through functions look up a table entry and call it: they change nothing and
have no action.

### ConfigFilter

A property is a path of names, as the code splits the string at its dots; `Denoted`
accepts what the chain of comparisons accepts. `ValidateConfig` goes
through the objects and tests each against the description; what it collects on the
way (`SpecialConfig`) is part of the state, as it stays when the objects
change. `Required` is the reference definition the code is compared
with: an implementation is wanted if it meets each object by itself, and the
version put together from all of them.

`Dispatcher` takes the outcome: six properties, one for each way they combine. Worth knowing
when reading the code: the last mfxConfig *created*, not the last call, wins where
a comment says "most recent" (1514, 1625); a special property that was set stays set after a
null pointer unsets it in its object; a codec whose list of profiles, memory types or
formats is empty is invisible to the filters below; and several objects are joined by "and" in
`ValidateConfig` but the last one counts in `CheckLowLatencyConfig`.

### LibrarySearch

A layout is an installation: directories with their entries, what a name
resolves to, the fixed directories, the adapters and the driver store. One action is a full load
(`BuildListOfCandidateLibs`, then `CheckValidLibraries`), a low latency load, a
failed query, or a change of the environment variables. `FoundAt` is the
documented order of the places (`VPL_prg_session.rst`), written without the code's list.
`Dispatcher`'s constants `Search`, `LowLatVPL` and `LowLatMSDK` are
what this module finds. The model ends where a low latency load on Windows goes on with
the first library of a list that was not empty (`mfx_dispatcher_vpl_lowlatency.cpp:312`): it may be
another library, or one already freed.

### Adapters and MSDKCompat

An operator of `Adapters` is a call of `mfx_dxva2_device.cpp` as a function of the machine and of the first
system call that fails; it returns what was found and which references are
left. `MSDKCompat` walks through the query of a 1.x runtime: one action for each call that may
fail (open, version, platform), for each adapter, then Direct3D 9. Adapters may change
when a query begins. `Caps` of `Dispatcher` is what comes out. `MFXClose` of a
test session is assumed to work.

### Windows

`call` is the running `MFXInitEx`; its steps are one library each: `TryLibrary` for the places of
a search (driver store, registry keys by merit, folders), then the default
path, then `Choose`, which orders the candidates with `HandleSort`, initialises the best a second time
and deletes the others. `refs` counts how often a DLL is loaded, `rt` are the runtimes' sessions.
Joining, disjoining and cloning are actions between calls. Keys of the greatest
merit (`MFX_MAX_MERIT`) are excluded, as the iterator starts below it. Not in the
model: the UWP build, the log, the class that reads the registry, runtimes that answer
`MFXClose` with an error other than the refusal for a child (the DLL is then freed
while the session stays open), and `FreeLibrary` failing.

### SessionClasses and AdapterQuery

`stack` holds the objects of a program in the order of their construction. The two builds
(with a loader, or direct) and the two systems are chosen in `Init`. A component
class copies the handle of its session and closes its component in the
destructor. `MFXLoad` is assumed to return a loader; which implementation `MFXInitEx` finds is the
subject of the session modules. `AdapterQuery` opens a `dummy_session` for each
Intel adapter through the same operators and asks it for the workload.

### StringParam

A text is what the conversions look at: length, sign, number, the comma separated parts.
A field is its conversion, the type it is stored as, width and size. The fields of one kind in one structure
are treated alike by the code, and one of them stands for all; `NumExtParam` is
one of its own, since setting it from a text changes how the array of buffers is read. The types of conversion and storage differ for
three fields: `NumRefActiveP`, `NumRefActiveBL0` and `NumRefActiveBL1` are `mfxU16[8]` (`mfxstructures.h:1971`), which the code passes
as `mfxI16*` (`mfx_config_interface_string_api.cpp:692`).
`SetParameter` returns status, structure and the header to attach; the actions are the application's.

What the code does and a reader may not expect: text after a number is ignored
("640x480" sets 640); a FourCC given as a number is cut to 32 bits (324); `NumRefActiveP`, `BL0` and `BL1` take "-1", which
they store as 65535, and refuse 40000; a string is cut to the room of its field (`StoresWhatIsWritten` names these exceptions); the HEVC region is registered
under `MFX_HEVC_REGION_SLICE`, which is 0 and no id of a buffer (61, 1381), so that the header handed out asks for a
buffer no application can know; the statuses of a wrong
array length are positive; an unknown field of a known structure is
`MFX_ERR_INVALID_VIDEO_PARAM`, after the structure has been asked for; two structures
of the table (AI super resolution, frame interpolation) can be asked for and then not set.

### FrameCopy and Examples

`Program` is a table with one row for each of fifteen programs: the components a frame passes, where its surfaces
come from and when they are released, what follows each status, the order of set-up
and clean-up. The actions interpret the row. The runtime is external and runs
concurrently: it accepts a frame or refuses it, keeps frames back, reads surfaces after the call has
returned, completes tasks in order, fails. A refusal takes nothing and may be any status that a loop distinguishes (`MayRefuse`),
at any call, also while the program drains: a busy or lost device for all components, `MFX_ERR_NOT_ENOUGH_BUFFER` for the encoder,
changed or incompatible parameters, another allocation or another surface asked for by the decoder, another surface by VPP. It is given for one call, or from that call on for ever
(`rt.refuses`; a lost device stays lost, and of an answer that ends the loop only the first counts).
The part of the row called `goesOn` (`DecodeLoop`, `EncodeLoop`, `VPPLoop`) lists the statuses on which the loop just goes round again.
`CopiesFrames` maps the program to `FrameCopy`: `out` is the file, `status` follows from the end
of the loop, and `unhandled` is true from the first answer of the runtime on that the program does not treat
(a refusal, or a synchronisation error it drops the frame for). `FrameCopy` has a fairness
condition of its own, so the refinement says that frames do get written.

Worth knowing: hello-encode drops the frame when the device is busy, although its comment
says "try again"; a full output buffer ends the loop of hello-transcode as if drained, while the other encoders go round again with the next
frame and the same buffer (`hello-encode.cpp:197`); after each answer in `goesOn` a loop goes on, also while it drains, and never ends if
that answer stays; `hello-transcode.cpp:163` tests `bs_dec_in.Data` where it has just allocated
`bs_enc_out.Data`; an unknown status ends the program with exit code 0; the VA-API import
destroys its surfaces after the display; one pool for both sides needs at least two surfaces more than the delays. vpl-infer and
the other interop programs are not modelled: beyond the same loop they use another library.

## Runs

Passing runs. The deadlock check is disabled where an application may stop calling
when it reaches a bound, or nothing follows a fault; it is on in `LibrarySearch`,
`MSDKQuery`, `SessionClasses` and `StringParam`.

| Run | Question | Bounds |
|---|---|---|
| `DispatcherFilters` | are indices dense, filters met and the priority order kept while filters change? | 2 configurations, 4 runtimes (one with two implementations, one 1.x with a hole among its adapters, one in the priority path), 3 filters |
| `DispatcherRetry` | do failed and repeated full loads keep the lists sound and 1.x runtimes hidden? | 1.x and 2.x runtime of one device and three 2.x runtimes that lack a function called untested (one the query, one the release with a description that is rejected, one with a description that is listed), all failing at will; `MaxIndex` 0, as the index only decides which session is created |
| `DispatcherLowLat` | is an index unique, are filters met, and has a session the version requested, in any mix of both modes? | the four filters of low latency mode, versions that the GPU runtime has and has not, that runtime failing at each step, the 1.x runtime as fallback; `MaxLibs` 1 |
| `SessionHandles` | is any runtime session lost, shared or mixed up? does a failed call leave something? does the search find the first library that takes the request? | 3 handles (symmetric), 4 libraries, two of them 1.x runtimes of the same version, one failing at will; `MaxSession` 3 |
| `ConfigFilters` | do filters of several objects select what each asks for, and do both modes read the same special properties? | 2 objects, 5 calls out of 16 (some of them rejected), 3 descriptions |
| `LibrarySearch` | is every runtime in a documented place found once, with the right priority, and the right 1.x runtime kept? | 4 layouts (two Linux, two Windows), 4 environments, 7 files, two of them opening only sometimes; `MaxLoads` 2 |
| `MSDKQuery` | does each answer describe its adapter, and does nothing stay open? | 6 machines, `MaxImpl` 2 (4 in the code), every system call failing |
| `Windows` | is the best library found, whatever the order of the keys; are libraries loaded exactly while held? | 5 installations, 5 libraries, 4 methods, 3 versions, `MaxSessions` 2, `MaxFaults` 1 of six kinds |
| `SessionClasses` | are sessions and loaders closed once; does the query of adapters find the right ones in the right order? | 3 objects, 2 sessions, 2 component classes, both builds and systems, 5 machines |
| `StringParam` | is what is asked for enough, and is what is written what the text says, but for the fields that wrap? | 12 keys, one for each conversion, 13 texts around the ends of the ranges, `MaxBuffers` 2, bytes of one bit, `MaxLength` 200 so that a text can be longer than a string field |
| `Examples` | does each program copy its frames and end, and does memory outlive the tasks? | 15 programs, 4 frames, the second larger than the buffer, `MaxBusy` 2 refusals that pass, one that stays, every call failing |

A module whose variables need a type invariant has one (`TypeOK`); where it is not listed in the run it is the first
conjunct of a listed invariant (`LoadedWhileHeld`, `FindsDocumented`, `NothingStaysOpen`, `SessionsOwned`, `SessionsHeld`,
`FindsSuitable`, `ConfigsAreIndependent`, `SurfacesReturned`).

Bounds. Two `mfxConfig` objects are enough for one to override or contradict the other;
indices go to 2, beyond and within the lists; four runtimes make each of the four
sorts matter. Three handles give a parent with two children, or a child of a
parent that was closed. `MaxLibs` bounds the list before a low latency load, as each failed
load makes the list longer; `MaxSession` bounds the sessions of the runtimes, of which a refused close
can leave any number.

In the other runs: two loads are a failed one and its repetition, with a library that opens in one
of them only. Two adapters give the second place to an adapter of another vendor or of another order in
Direct3D 9; the loops over adapters treat the third and fourth as the second. One fault in a Windows call
meets every step of every search, and the call that follows sees what is left. `MaxBuffers` 2 has a structure
twice, a null entry before a structure, and two structures; bytes of one bit make a field of two bytes end at 3, so
that values below, at and above each end are tried (TLC's integers have 32 bits). Four frames are more than the
programs have surfaces in flight, so each surface is used again; streams end with a whole frame (`Trailing` 0), and delays are one frame in
decoder and encoder and none in VPP.

One run shows a place where the code does not do what a comment says; it ends with a violated property
whose comment names the line:

| Run | What happens |
|---|---|
| `LowLatFailsThenUnload` | a library that fails to open again is deleted and stays in the list |

The models show more sequences of this kind, which no run repeats.

Loader and filters:

- A filter set again does not bring back what its first value excluded: an index of -1 is passed over
  (`mfx_dispatcher_vpl_loader.cpp:1511`), though `mfxdispatcher.h:64` says that a new call overwrites the value.
- An implementation listed in low latency mode is listed again by a full load that follows: the
  lists are not discarded (`mfx_dispatcher_vpl.cpp:187`).
- A library opened by a low latency load is opened again by the full load, and closed once
  (`mfx_dispatcher_vpl_loader.cpp:739`).
- When an entry listed in low latency mode does not answer the query for adapter 0, the loop retries the same entry and does
  not end (`mfx_dispatcher_vpl_loader.cpp:1336`, "remove this library" in the next line).
- An entry without a description is appended to a list that is sorted by descriptions later
  (`mfx_dispatcher_vpl_loader.cpp:1597`).
- The name `...decmemdesc.MemHandleType` is documented (`VPL_prg_session.rst:308`), accepted, and sets the profile
  (`mfx_dispatcher_vpl_config.cpp:451`).
- The test of `DRMPrimaryNodeNum` looks at `DRMRenderNodeNum` to see whether the runtime reports one
  (`mfx_dispatcher_vpl_config.cpp:1308`).
- After a full query the filters are changed to those of low latency mode. A low
  latency session is then created from the list as it was: `MFXCreateSession` does
  not update it (`mfx_dispatcher_vpl.cpp:168`), though
  `mfx_dispatcher_vpl_loader.cpp:1646` says it is updated whenever a filter changes.
- A 1.x runtime listed in low latency mode is described in the same pass that hides 1.x
  implementations, too late for the rule (`mfx_dispatcher_vpl_loader.cpp:1276`): it
  keeps its index although a 2.x runtime drives its device.
- `MFXClose` of a parent is refused while a child is joined to it, and clears the
  function table all the same (`linux/mfxloader.cpp:357`). A second `MFXClose` of the
  parent then returns `MFX_ERR_NONE`, and the runtime's session is left without a handle.
- `MFXCloneSession` of a 1.x session that was created for a library by name searches the default
  places (`linux/mfxloader.cpp:760`), and may join a session of another library to it.
- `MFX_IMPL_HARDWARE2` (5) and `MFX_IMPL_HARDWARE4` (7) have the bit of
  `MFX_IMPL_SOFTWARE`, so `LoaderCtx::Init` searches the software library for them too
  (`linux/mfxloader.cpp:247`).
- A clone has none of the functions of API 2.x, as `MFXCloneSession` makes it without asking for them
  (`linux/mfxloader.cpp:718`), and a clone of a session from `MFXInitEx` loads the program itself, as no library
  name was kept (`linux/mfxloader.cpp:733`).

Windows, MSDK and classes:

- `HandleSort` prefers a partly accelerated library where its comment says hardware (`windows/main.cpp:144`).
- A clone of a 1.x session initialises by search and may join a session of another library.
- `GetAdapterList` leaves `dxgi.dll` loaded when a call fails (`windows/mfx_dxva2_device.cpp:365`).
- Two equal GPUs share one device number: the driver store path of the first is used for both.
- Beyond the fourth adapter `MFXQueryAdapters` tests `HARDWARE_ANY`, which is another one. A query with a bitstream consumes from it for each adapter.
- `Close` of an object whose `Init` failed after `MFXLoad` leaves the loader (`mfxvideo++.h:146`); a second `Init` returns
  success with the parameters of the first (262); `Init` reads its version pointer without a test (131).

Configuration interface and examples:

- A call that returns an error may have written the first elements of an array
  (`mfx_config_interface_string_api.cpp:367`; `mfxvideo.h:228` says the parameter is updated on success).
- A library that exports `MFXInitialize` but not `MFXQueryImplsDescription` is called through a null pointer by the next query
  (`mfx_dispatcher_vpl_loader.cpp:995`), one without `MFXReleaseImplDescription` when its description is given back (815, 1107). That the
  list of exported functions is checked comes too late: the check needs the first of the two, and on failure calls the second.
- A loop that goes round on an answer does not count how often: an encoder that answers `MFX_ERR_NOT_ENOUGH_BUFFER` (`hello-encode.cpp:197`), a
  decoder that answers `MFX_ERR_INCOMPATIBLE_VIDEO_PARAM` or `MFX_ERR_REALLOC_SURFACE` (`hello-decode.cpp:201`), or a lost device, at every call, keeps the program running for
  ever; an encoder reads on to the end of its input before.
- A stream that ends within a frame keeps the reader answering that there is more, as it looks at the bytes
  left and not at the end of the file (`hello-transcode/src/util.hpp:428`); the program does not end.
- hello-transcode frees the output buffer of the encoder without closing the components, although its
  comment recommends it (`hello-transcode.cpp:291`): a task that still runs writes to freed memory. For this reason
  `ClosingOutlivesTasks` speaks of the programs that close them.

`MemorySafe` holds in `DispatcherRetry` because no low latency load takes place
there: the run above shows what happens when it does. It allows one fault, the call through a null pointer while a 2.x library without one of
the two functions is listed, and says that there is no other. `EnumeratedSatisfyFilters` and
`DenseIndices` speak of `UpToDate` states: the list was loaded in full,
validated since the last change of a filter, and not appended to since.

Fairness. In `Dispatcher`, `Session` and the other modules whose action is a whole call none is assumed and no liveness claimed: whether
another call comes is the application's choice, and within a call the only thing that could fail to
happen is its return, which `fault = "endless_loop"` covers. In `Windows` a call is a sequence
of steps by one thread, which the operating system goes on running: weak fairness of the step (`WF_vars(Continues)`)
gives `Returns`; whether a call begins is not fair. In `Examples` the program is one such thread,
and the runtime answers every call and completes every task it accepted in the end, which is what
`MFXVideoCORE_SyncOperation` with a limited number of retries relies on. `MaxBusy` bounds the refusals that pass; one that stays is
modelled without a bound. `Terminates` says that the program ends unless the runtime from some call on only gives an answer in `goesOn`, in which case
no loop of the examples ends, and that the stream ends with a whole frame (`Trailing` 0): with the rest of one the
reader goes on for ever.

## Proofs

TLC checks an installation or two; the theorems hold for all values of the constants
that satisfy the named assumptions, without a bound on lists, handles, objects or
calls other than the constants themselves. Each component has one inductive
invariant (`Windows` a second one), a conjunction of named parts, and one lemma per action, under it
one step per part that the action can disturb. Every property
proved is one that a run checks too; of the refinement `CopiesFrames` it is the safety half.

| Module | Theorem | States |
|---|---|---|
| `Dispatcher_proofs` | `TypeCorrectness` | `Spec => []TypeOK` |
| | `IndicesAreUnique` | `Spec => []UniqueIndices` |
| | `FiltersAreMet` | `Spec => []EnumeratedSatisfyFilters` |
| | `SessionsWithinFilters` | `Spec => SessionMeetsFilters` (an action property) |
| | `SafeWithoutLowLatency` | `Spec /\ [][~LowLatencyCall]_vars => []MemorySafe` |
| | `FaultlessWithCompleteRuntimes` | with `CompleteRuntimes` also `[](fault = "none")` |
| | `IndicesHaveNoGap` | `Spec => []DenseIndices` |
| | `NumberedByPriority` | `Spec => []PriorityOrder` |
| `ConfigFilter_proofs` | `ObjectsAreIndependent` | `Spec => []ConfigsAreIndependent` |
| | `BuffersAreLive` | `Spec => []ExtBuffersLive` |
| | `ModesAgree` | `Spec => ModesShareSpecial` (an action property) |
| | `LowLatencyMeetsFilters` | `Spec => []LowLatencySkipsNoFilter` |
| `Session_proofs` | `NoSessionLost` | `Spec => []SessionsOwned` |
| | `LibrariesNotMixed` | `Spec => []OneLibrary` |
| | `InitFindsFirst` | `Spec => []FindsFirst` |
| | `FailuresLeaveNothing` | `Spec => FailedCallsLeaveNothing` (an action property) |
| `MSDKCompat_proofs` | `QueriesCloseAll` | `Spec => []NothingStaysOpen` |
| | `AnswersOfTheirAdapter` | `Spec => []DescribesItsAdapter` |
| | `D3D9NumberIsRight` | `Spec => []D3D9OnSameAdapter` |
| `Windows_proofs` | `LoadedWhileHeldHolds` | `Spec => []LoadedWhileHeld` |
| | `FindsTheBest` | `Spec => FindsBest` (an action property) |
| `SessionClasses_proofs` | `EverySessionHeld` | `Spec => []SessionsHeld` |
| | `EveryLoaderHeld` | `Spec => []LoadersHeld` |
| | `NoDanglingDestructor` | `Spec => []DanglesOnlyIfClosedEarly` |
| | `ComponentsStayOn` | `Spec => []ComponentsKept` |
| `Examples_proofs` | `MemoryOfClosingPrograms` | `Spec => []ClosingOutlivesTasks` |
| | `FramesInOrder` | `Spec => Copy!Init /\ [][Copy!Next]_(Copy!vars)`: each step is one of `FrameCopy`, or a stutter |
| | `SurfacesGoBack` | `Spec => []SurfacesReturned` |

### Assumptions

Each is named in the module that declares the constants, and TLC evaluates it in the module's runs.

- `SearchAssumption`, `RuntimeAssumption`, `LowLatencyAssumption`, `ConfigAssumption` (`Dispatcher`): the constants
  have their types; the search lists a file once; a 1.x runtime has at least one entry, any of which may be a hole, and a 2.x runtime has no holes; what `Lacks` names is a function required since
  2.0, so `MissingFrom` is at most 2.0 then. That a 2.x runtime exports both functions is not assumed (`CompleteRuntimes` is a premise of one theorem).
- `ConfigFilterAssumption` (`ConfigFilter`): a value given for a version is a number, for half of one a number of 16 bits, for an
  extension buffer a structure with its size; versions of runtimes are numbers, and "not set" is not a value.
- `SessionAssumption` (`Session`): types; versions of 1.x runtimes are 1.0 to 1.999; no function is missing
  from version 0.
- `MSDKAssumption` (`MSDKCompat`): a machine is a sequence of cards for each numbering; the LUID of an adapter that DXGI
  lists is not zero, which is what the code takes for "not found".
- `WindowsAssumption`, `MethodsAssumption` (`Windows`): types; versions of libraries are those between 1.0 and that of a 2.x runtime; the
  methods of a run are rows of `implTypesRange`.
- `ClassesAssumption` (`SessionClasses`): types; versions are 1.0 or later, and the component classes are the four of the header.
- `ExamplesAssumption`, `ProgramsAssumption` (`Examples`): types; each frame of a stream takes at least one byte; the runtime suggests two
  surfaces more than its components delay, one for the frame they refer to and one for the next; what stands for "no surface"
  (`MFX_ERR_NOT_FOUND`, a null pointer) is not the number of one; the programs are rows of the table.

### Dispatcher

The inductive invariant of the first three theorems is `TypeOK /\ IndexInv /\ EnumeratedSatisfyFilters`.
`UniqueIndices` alone is not inductive: a load appends entries numbered from `nextIdx`, so
every index in the list must be below it; low latency entries get their description
later, so one without must be the first implementation of its runtime; and
`m_implIdxNext` restarts when the libraries are unloaded, so the lists must be
emptied at the same time. That is `WellIndexed`. Renumbering gives the valid
entry at position k the number of valid entries before it, which is below the
length of the list, which `WellIndexed` keeps at most `nextIdx`.

`SessionMeetsFilters` needs that what `m_specialConfig` holds is the last value set by a configuration, for each
special property that one sets. `SpecialInv` says so, and that there are no configurations
without a loader, as a new loader starts with both empty. The version asked for in low latency mode is compared with
what the runtime reports when it is loaded, the filters of a full load with the list that `MFXCreateSession` brings up to date
before it looks for the index.

`MemorySafe` is proved of loaders that are never asked for a session in low latency mode (`LowLatencyCall`
is that action); `LowLatFailsThenUnload` shows that the restriction is needed. A call through a null pointer leaves the library that lacks the function in the list,
since nothing is removed before the call, and without such a library none happens: that is `FaultlessWithCompleteRuntimes`. The invariant is `Sound`: every library in the list is a live one,
every entry is described, and its library is in the list; and as long as a full load is due no implementation is
listed, since a load fails only if it lists none. Libraries found by a repeated load get ids above
those in use (`LastIdGreatest`), so that a deleted library is never taken for one in the list.

The last part of `Dispatcher_proofs` shows `OrderInv`: in an up-to-date state the valid entries are numbered in list order without a gap
(`Numbered`) and the list is in the order of priority (`Ranked`). `PriorityOrder` compares entries by index and
follows from the two together, but not from itself after the next call: a filter that changes marks the list as out of date, and
the next call keeps the positions and numbers again. `SortByOrders` (`Ordered_proofs`) is the stability of a sort: of two
entries the later one has a greater key, or an equal key and was later before. Applied four times, from the
last criterion to the first, it gives the lexicographic order of the four; entries of the priority path are put before
that with their order kept. The validation that follows only removes numbers, and a subsequence of a ranked list is ranked.

### ConfigFilter

What is proved is that the loops of `ValidateConfig` and `CheckLowLatencyConfig`, which change records as they go through the
objects, answer what `Required` says of the objects as they are. The loops are recursive functions of the number of
objects taken (`Turns`, `Collected`). That such a function exists, and what holds of it after k objects, is
proved by `Counting`: a set that has 0, and with each number the next one, has all up to n. This is a lemma about a set and not
about an operator, and rests on the well-foundedness of the order on the natural numbers, so it needs no induction rule.

- `ObjectsInv`: what an object holds is set and in range, and its buffer pointer is its own copy as it is now. `SetKeepsObject` shows
  it for every way a call ends, rejected ones included, which change the query flag or drop a value before they return.
- `TakenFields`, `Gathered`: after k objects, a special property is the last value set, or what it was before; the
  buffers are those of the objects, the one of object j at the place that counts the objects up to j that hold one.
- `FoundAfter`: after k objects, the test has succeeded if each of them is met by itself, the functions and groups asked for
  are those of the k objects, and each half of the version is that of the last object that gives one, as `Version` or apart.
  A group asked for by an earlier object is tested again with the values of each later one. `TestedAgain` shows
  why this is harmless, which is not obvious from the code: an object that sets nothing in a group asks only
  that the description has an entry there, and the earlier object's test has found one.
- `SettledInv`: unless the last call failed, the special properties are the last values set and the buffers of the
  objects. `ModesAgree` and `BuffersAreLive` follow.
- `LowLatencyInv`: unless the last call failed, low latency mode is on only with the filters it requires (`Entered`) and with a version
  that is the one set (`VersionKept`); where no property is set twice, that is all there is to test.

"Unless the last call failed" is needed, and TLC shows why. Object 1 sets `ImplName` to another runtime and `Impl`; object 2 sets
`VendorID`, `AccelerationMode` and `ImplName` "mfx-gen", and low latency mode goes on. Setting `ImplName` of object 2 to a null pointer
unsets the property and returns `MFX_ERR_NULL_PTR` before the mode is looked at again (`mfx_dispatcher_vpl.cpp:87`): it stays on although the
filters that are left ask for another runtime. The next call that succeeds puts it right. Likewise the special properties are those of
before a failed call.

### Session

`SessionInv` adds to the type invariant:

- `Tables`: what the application and the runtimes hold are functions of the handles in use;
- `ParentsOpen`: a session is joined to one that is still open. Otherwise the `Close` of a
  failed attempt, which the code does not test, could be refused because of a stale child, and the session would be lost;
- `ContextsWhole`: a context has functions exactly as long as it has a session. `Close` asks the table for
  `MFXClose`, so a session in a context without functions would be dropped;
- `Held` and `OneLibrary`, the properties (`Held` is `SessionsOwned` without cardinalities).

`FindsFirst` and `FailedCallsLeaveNothing` rest on one lemma on the search: after any number of failed attempts the
runtimes' sessions are those before the call, and the context is empty but for the functions of version 2, which
`Close` does not reset (`linux/mfxloader.cpp:357` fills one table). That they are harmless, since the next library that is found
replaces all of them or none is asked for, is the part of `LibrariesNotMixed` that a test would not reach. The lemma is an
induction over the six names, which needs no induction theorem because their number is fixed.

### MSDKCompat

The record of an adapter is written over several steps and used again by the next query. The invariant says what it holds at each step
(`NodeRecord` on Linux, `DXGIRecord` on Windows), that a session is open exactly while the
runtime is asked (`OneSession`), that adapters are answered in order (`AnswersInOrder`), and that the number under Direct3D 9 found so far
is of the adapter with the same LUID (`D3D9Search`). `DescribesItsAdapter` needs the clearing of the device number at
the first step: on Windows the device is 0 until the runtime or the loader tells one. The lemmas on `Adapters`
(`D3D9InitFields` and its like) show that each destructor releases what its `Init` took, whichever call failed.

### Windows

A call of `MFXInitEx` tries dozens of libraries with up to four handles of its own, each of which may hold a library, a table of its functions and a
session, or a part of these. The invariant has a part for the handles (`WorldOK`), which every operator of the module takes from
one world to the next, and one for the place in the call.

- `Typed`, `Counted`, `Matched`, `Held`: a library is loaded as often as handles hold it; a handle's functions and session are
  its library's; each session has one handle. These are the property.
- `FreeHoldsNothing`: a handle that is free holds nothing, so to use it again loses nothing.
- `ParentsAreApp`: a session that others are joined to is one of the application. A session with a child
  refuses to be closed, and its library then stays loaded; the destructor deletes the handle all the same (`windows/mfx_dispatcher.cpp:277`).
  As the handles that a search closes and deletes are its own, none of them is refused and nothing is left behind.
- `Searching`: the handles of the call are the one it works with and one candidate for each search that ended well, and there is room for them
  beside those of the application; `Choose` initialises the best candidate again and deletes the others. `Resting`: between calls
  there are none.

The counting (`Counted`) is in terms of cardinalities, as `refs` is a number in the code: loading, freeing and moving a library
from handle to handle each add or take away one element of `Holding`.

`FindsBest` says what a call returns at its end, so the invariant must say what each step before it has found. `Progress` does, for a
call in which nothing failed so far:

- `Results`: the candidates are what the searches before this one should find (`Finds`), and each such search with something to find has
  its candidate. A candidate's version and adapter are those that `FindsBest` ranks it by (`RankedAs`).
- `Visited`, `NoneBefore`: the places that this search has left, and the keys it has tried in the place it is at, have no library that suits.
  The code picks the next key by its merit and its index among the keys left; the property takes the sorted list of the keys
  that fit. The two agree because a key has fewer others before it than one that follows it (`EarlierRanks`), so that the
  sorted list has every key once (`ByMeritOK`).
- `Plain`: the handle that the call works with says nothing of a library it tried before. It is used again after a
  refusal, and a version or an adapter left in it would change the choice.

A search accepts exactly what suits it (`AcceptedSuits`), and what outranks another comes first for `HandleSort`
(`OutranksIsFirst`). `HandleSort` decides further, by version and status, where the property leaves the choice open. `Best` takes the first candidate without
sorting if all are equal to it, so the last lemma shows that none of them outranks it.

### SessionClasses

The theorems are about the specification of `SessionClasses`. The run checks the same properties with the query of
adapters on top (`QuerySpec` of `AdapterQuery`), whose own steps open and close a `dummy_session` through the same operators. Parts
of the invariant:

- `Owned`, `Accounted`: the session of an object is open and of this object alone; an open session is held, or was refused or replaced;
- `LoadersOwned`: a loader belongs to one object, and one that is loaded to an object with a session;
- `MadeAfter`, `FreedEarly`: an object of a component is constructed after the session whose handle it copies, so that it is destroyed
  before it, unless the program closed the session first. This order of C++ automatic objects is all that keeps a
  destructor from a freed handle;
- `Twins`: two objects of a class with one handle know of each other, which `ComponentsKept` needs as an exception.

### Examples

`Resources` says what a program holds at each place: before step k of the set up the first k - 1 things of its list, in the loop all of
them, before step k of the clean up the prefix of the list that had been made, less the first k - 1 things of the
clean up's list: a failure jumps from any step of the set up or the loop to the clean up. The rest is `Idle`: before the set up has made a component, and
after the clean up has closed it, the runtime keeps no surface and runs no task. What remains is about the rows of the table alone
(`Orderly`): nothing a component needs is made after it, or released before it. It is proved for each row
by itself, so a row added to the table must have its lemma. hello-transcode has none, because its clean up closes no component.

For `FramesInOrder` the second part of the invariant, `Flow`, follows the frames on their way, in a program that is still running. `Chained`
lists them from the sink to the source: the last frame written, the output that is announced, the queue of the last component, a frame
the program hands on, the queue of the component before, the last frame that left the source. Along this way the numbers increase,
and as long as everything was handled they increase by one (`Part` for a queue, `Link` for a place that holds one frame or none).
A step moves one frame from one place to the next, which is one lemma about `Chain` each (`ChainLoaded`, `ChainDecodedFirst`,
`ChainAnnouncedLast`, `ChainWritten`, ...), or drops one and leaves `unhandled` true. What the steps need besides:

- `Tasks`: a task is there exactly while its output is awaited, and carries the content of the surface it was made from;
- `Drains`: a component is drained only when what comes before it is empty. With `Answers` (a component that
  asks for more data while it is drained has none left) the chain is empty when the loop ends, so that all frames are written;
- `FewKept`: a component keeps no more surfaces than its delay and one reference. Therefore `GetFreeSurfaceIndex` finds one for the
  next frame, and no frame is read into a surface that still holds one on its way (`InputFound`). This is where the
  two surfaces of `ExamplesAssumption` are used; a decoder takes no surface that is locked, because its own guard says so.

For `SurfacesGoBack` the third part, `Typed /\ Surfaced`, adds the types and the account of the surfaces that the program itself holds.
Between two rounds of the loop that is what the property allows; within a round, `Returned` names each one:

- `StreamReturned`: a program that decodes holds the output the decoder announced, and hello-transcode then the frame it encodes, until
  the call to the encoder returns;
- `FramesReturned`: one that reads raw frames holds the frame it has read, until the call returns, and hello-vpp the surface
  it gets back until that is written. Once such a program drains, nothing is said: the surface acquired for the frame that was not
  there is kept (`LoadFrame`), which `SurfacesReturned` leaves out for the same reason;
- `ImportsReturned`: sharing-vaapi-import holds what the encoder holds, because `ReleaseFreeSurfaces` only gives back what is
  no longer locked;
- `DecoderKeeps`, like `FewKept` for a decoder that runs alone: legacy-decode always finds a surface to work on, although it
  looks for one only before the loop and after `MFX_ERR_MORE_SURFACE`;
- `WorkThere`: the index that the lookup returned is the number of a surface wherever the program uses it.

The answers the programs do not handle are excepted, as in the property. After `MFX_WRN_DEVICE_BUSY` an encoder's surface is given
back although the encoder has not taken the frame: it is the frame that is lost then, not the surface.

### Layout

`Ordered_proofs` has the lemmas on sequences: `Pick` selects, `SortBy` permutes and is stable.
`Dispatcher_proofs` begins with one lemma for each operation on lists and one for each step of a load; then there is one per action, as in
the other modules.

### Only model-checked

- `LegacyHidden`. It is not an invariant for all values of the constants. 1.x implementations are hidden during a full load
  only (`mfx_dispatcher_vpl_loader.cpp:1258`). A load while Direct3D 9 is requested does not hide them, and when the
  application then asks for another mode nothing hides them any more; an implementation of a 1.x runtime that offers both modes stays choosable.
  Likewise a 2.x runtime that a low latency load appends later drives a device without the pass being
  repeated. `DispatcherRetry` checks it where neither is possible: repeated and failing full loads with no Direct3D 9.
- `MemorySafe` with low latency loads is false (`LowLatFailsThenUnload`).
- All properties of `LibrarySearch`, `StringParam` and `AdapterQuery`.
- Liveness (`Returns`, `Terminates`), and with it that `CopiesFrames` also meets the fairness of `FrameCopy`; what depends on `ENABLED`; and
  induction over data: these are out of reach of TLAPS. The modules declare no recursive operator.

## Not modelled

- The query of selected properties only (`MFX_QUERY_PROPERTY`), and what `CreateSession` does with the special
  properties besides the version: they only go into the parameters of the runtime.
- The log, and the formats of `MFXEnumImplementations`: output.
- The UWP build of the Windows dispatcher, which has one fixed library, and the class that wraps the registry.
- vpl-infer and the interop programs with other loops: they are about the libraries they join with this one.
- Headers, environment and build files: nothing that runs. The stub runtimes of the tests: test doubles.
- The pass-through calls of sessions and classes: a table entry is called and nothing changes.

## Plan

An abstract `ImplList` (a set of implementations, filters, one call that returns the i-th best) that
`Dispatcher` without low latency mode implements; with `NumberedByPriority` and `FiltersAreMet` its steps are at hand.
