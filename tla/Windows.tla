------------------------------ MODULE Windows ------------------------------
(***************************************************************************)
(* The dispatcher of Windows: MFXInitEx searches the driver store, the     *)
(* registry, folders and the default path for runtimes, keeps one          *)
(* candidate of each of three searches and returns the best, initialised a *)
(* second time.  A call of it is a sequence of steps here, one for each    *)
(* library it tries; the lock dispGuard keeps other calls out.             *)
(***************************************************************************)
EXTENDS Integers, Sequences, FiniteSets

CONSTANTS
    Lib,            \* runtime libraries
    Runtime,        \* what each is: API version, adapter it reports, partial acceleration
    Installations,  \* systems: adapters, libraries in folders, registry keys, default names
    MaxMerit,       \* MFX_MAX_MERIT
    Methods,        \* implementation methods that MFXInitEx is called with
    Versions,       \* API versions that it is called with
    Faults,         \* what may fail: a subset of AnyFault
    MaxSessions,    \* bound on sessions
    MaxFaults,      \* bound on faults
    None

AnyFault == {"LOAD", "INIT", "VERSION", "PLATFORM", "REINIT", "CLONE"}

V(major, minor) == 256 * major + minor
Major(v) == v \div 256
VPL == V(1, 255)     \* what a 2.x runtime calls itself if initialised by MFXInitEx

Media == {"unknown", "integrated", "discrete"}
Folder == {"tracer", "vpl", "msdk", "app", "module"}
Key == {"user", "machine"}
KeyOf == [device : Nat, merit : 0 .. MaxMerit - 1, lib : Lib]

ASSUME WindowsAssumption ==
    /\ Runtime \in [Lib -> [api : Nat, media : Media, partial : BOOLEAN]]
    /\ \A l \in Lib : Runtime[l].api \in V(1, 0)..VPL
    /\ \A i \in Installations :
         /\ i.adapter \in [0..3 -> {"intel", "other", "none"}]
         /\ i.folder \in [Folder -> Lib \cup {None}]
         /\ DOMAIN i.key = Key /\ \A k \in Key : i.key[k] \in Seq(KeyOf)
         /\ i.default \in [{"hw", "sw"} -> Lib \cup {None}]
    /\ Faults \subseteq AnyFault /\ Versions \subseteq Nat
    /\ MaxMerit \in Nat /\ MaxSessions \in Nat /\ MaxFaults \in Nat
    /\ None \notin Lib \cup Nat

VARIABLES
    inst,           \* the system
    handles,        \* MFX_DISP_HANDLE_EX objects
    refs,           \* how often each library is loaded
    rt,             \* sessions of the runtimes: their library and parent
    call,           \* the running MFXInitEx
    faults          \* faults so far

vars == <<inst, handles, refs, rt, call, faults>>

Handle == 1 .. MaxSessions + 4
Session == Handle

-----------------------------------------------------------------------------
(* Where MFXInitEx looks                                                   *)

\* implTypes without the entry that is unused
Types ==
    << [type |-> "hw", impl |-> "HARDWARE", adapter |-> 0], [type |-> "sw", impl |-> "SOFTWARE", adapter |-> 0],
       [type |-> "hw", impl |-> "HARDWARE", adapter |-> 0], [type |-> "hw", impl |-> "HARDWARE2", adapter |-> 1],
       [type |-> "hw", impl |-> "HARDWARE3", adapter |-> 2], [type |-> "hw", impl |-> "HARDWARE4", adapter |-> 3],
       [type |-> "sw", impl |-> "SOFTWARE", adapter |-> 0] >>

implTypesRange ==
    [AUTO |-> <<1, 2>>, SOFTWARE |-> <<2, 2>>, HARDWARE |-> <<1, 1>>, AUTO_ANY |-> <<3, 7>>,
     HARDWARE_ANY |-> <<3, 6>>, HARDWARE2 |-> <<4, 4>>, HARDWARE3 |-> <<5, 5>>, HARDWARE4 |-> <<6, 6>>,
     RUNTIME |-> <<3, 7>>]

ASSUME MethodsAssumption == Methods \subseteq DOMAIN implTypesRange

\* the storages of each search: all but the application folder, the application
\* folder, the default search path
Storages ==
    << <<"tracer", "vpl", "msdk", "user", "machine", "module">>, <<"app">>, <<"default">> >>

Place(phase, t, s) == [phase |-> phase, t |-> t, s |-> s]
First(method, phase) == Place(phase, implTypesRange[method][1], 1)

\* mutant: the same search again if p was its last place
AfterSameSearch(method, p) ==
    IF p.s < Len(Storages[p.phase]) THEN [p EXCEPT !.s = @ + 1]
    ELSE IF p.t < implTypesRange[method][2] THEN Place(p.phase, p.t + 1, 1)
    ELSE First(method, p.phase)

\* the place that is tried after p, that of the next search if p was the last
After(method, p) ==
    IF p.s < Len(Storages[p.phase]) THEN [p EXCEPT !.s = @ + 1]
    ELSE IF p.t < implTypesRange[method][2] THEN Place(p.phase, p.t + 1, 1)
    ELSE First(method, p.phase + 1)

Storage(p) == Storages[p.phase][p.s]
Type(p) == Types[p.t].type
Adapter(p) == inst.adapter[Types[p.t].adapter]
OnIntel(p) == Type(p) = "hw" /\ Adapter(p) = "intel"
Device(p) == Types[p.t].adapter + 1

-----------------------------------------------------------------------------
(* MFXLibraryIterator                                                      *)

NoLast == [index |-> 0, merit |-> MaxMerit]

\* vendor and device of a key are compared for hardware only
Fits(p, k) == Type(p) = "hw" => OnIntel(p) /\ k.device = Device(p)

\* mutant: of keys of one merit the first
AfterLastLower(last, index, merit) == last.merit > merit

AfterLast(last, index, merit) ==
    last.merit > merit \/ (last.merit = merit /\ last.index < index)

\* the index starts at 0; no merit is higher than libMerit, which starts at 0
SelectKey(p, last) ==
    LET keys == inst.key[Storage(p)]
        left == {i \in DOMAIN keys : /\ Fits(p, keys[i]) /\ keys[i].merit > 0
                                     /\ AfterLast(last, i - 1, keys[i].merit)}
    IN  IF left = {} THEN None
        ELSE CHOOSE i \in left : \A j \in left \ {i} :
               keys[j].merit < keys[i].merit \/ (keys[j].merit = keys[i].merit /\ i < j)

\* Init and InitFolder: a folder has one library, looked for on an Intel adapter
InitFolder(p, type, last) ==
    IF last = NoLast /\ OnIntel(p)
    THEN [lib |-> inst.folder[Storage(p)], type |-> type, last |-> [index |-> 1, merit |-> MaxMerit]]
    ELSE [lib |-> None, type |-> "sw", last |-> last]

\* Init and SelectDLLVersion: the library that follows last at place p
SelectDLLVersion(p, last) ==
    LET nothing == [lib |-> None, type |-> "sw", last |-> last]
    IN  CASE Storage(p) \in Key ->
               LET i == SelectKey(p, last)
                   k == inst.key[Storage(p)][i]
               IN  IF (Type(p) = "hw" /\ Adapter(p) = "none") \/ i = None THEN nothing
                   ELSE [lib |-> k.lib, type |-> IF k.device = 0 THEN "sw" ELSE "hw",
                         last |-> [index |-> i - 1, merit |-> k.merit]]
          [] Storage(p) = "app" -> InitFolder(p, "sw", last)
          [] Storage(p) = "default" ->
               IF last = NoLast /\ (Type(p) = "hw" => OnIntel(p))
               THEN [lib |-> inst.default[Type(p)], type |-> Type(p), last |-> [index |-> 1, merit |-> MaxMerit]]
               ELSE nothing
          [] OTHER -> InitFolder(p, Type(p), last)

-----------------------------------------------------------------------------
(* MFX_DISP_HANDLE.  The operators map a world to the next: handles, the   *)
(* libraries loaded and the sessions of the runtimes.                      *)

World == [h |-> handles, refs |-> refs, rt |-> rt]
Becomes(w) == handles' = w.h /\ refs' = w.refs /\ rt' = w.rt

New(v) == [module |-> None, session |-> None, table |-> None, type |-> "sw", impl |-> "SOFTWARE",
           status |-> "NOT_FOUND", version |-> 0, req |-> v, media |-> "unknown", owner |-> "call"]
\* Close leaves the versions and the adapter as they are
Reset(r) == [New(r.req) EXCEPT !.version = r.version, !.media = r.media, !.owner = r.owner]
Free == [New(0) EXCEPT !.owner = "free"]

Lowest(S) == CHOOSE i \in S : \A j \in S : i <= j
FreeHandle(w) == Lowest({h \in Handle : w.h[h].owner = "free"})
FreeSession(w) == Lowest(Session \ DOMAIN w.rt)
Allocate(w, h, v) == [w EXCEPT !.h[h] = New(v)]
With(sessions, s, lib) ==
    [x \in DOMAIN sessions \cup {s} |-> IF x = s THEN [lib |-> lib, parent |-> None] ELSE sessions[x]]
Without(sessions, s) == [x \in DOMAIN sessions \ {s} |-> sessions[x]]

\* "it is possible, that there is an active child session": the runtime refuses
Refuses(w, h) == \E s \in DOMAIN w.rt : w.h[h].session # None /\ w.rt[s].parent = w.h[h].session
CloseStatus(w, h) == IF Refuses(w, h) THEN "UNDEFINED_BEHAVIOR" ELSE "NONE"

\* mutant: the library stays loaded if it has no session
CloseLoaded(w, h) ==
    IF Refuses(w, h) THEN w
    ELSE [h |-> [w.h EXCEPT ![h] = Reset(@)],
          refs |-> [l \in Lib |-> IF l = w.h[h].module /\ w.h[h].session # None THEN w.refs[l] - 1 ELSE w.refs[l]],
          rt |-> Without(w.rt, w.h[h].session)]

Close(w, h) ==
    IF Refuses(w, h) THEN w
    ELSE [h |-> [w.h EXCEPT ![h] = Reset(@)],
          refs |-> [l \in Lib |-> IF l = w.h[h].module THEN w.refs[l] - 1 ELSE w.refs[l]],
          rt |-> Without(w.rt, w.h[h].session)]

\* the destructor closes, whatever the answer
Delete(w, h) == LET c == Close(w, h) IN [c EXCEPT !.h[h] = Free]

\* a function of the table is required if the requested version has it
FunctionVersions == {V(1, 0), V(1, 1), V(1, 14), V(1, 19), V(2, 0), V(2, 1)}
Exports(lib, since) == Runtime[lib].api >= since \/ Runtime[lib].api = VPL
Missing(lib, v) == \E f \in FunctionVersions : f <= v /\ ~Exports(lib, f)

\* MFXInitialize from 2.0 on; MFXQueryVersion is not called after a warning
LoadSelectedDLL(w, h, lib, type, impl, fault) ==
    LET v == w.h[h].req
        c == Close(w, h)
        s == FreeSession(c)
        opens == lib # None /\ fault # "LOAD"
        inits == opens /\ ~Missing(lib, v) /\ fault # "INIT"
        answers == inits /\ ~Runtime[lib].partial /\ fault # "VERSION"
        loaded == [c.h[h] EXCEPT
                     !.module = IF opens THEN lib ELSE None,
                     !.table = IF opens THEN lib ELSE None,
                     !.session = IF inits THEN s ELSE None,
                     !.version = IF answers THEN IF Major(v) >= 2 THEN V(2, 9) ELSE Runtime[lib].api ELSE @,
                     !.type = type, !.impl = impl,
                     !.status = IF answers THEN "NONE"
                                ELSE IF inits /\ Runtime[lib].partial THEN "PARTIAL_ACCELERATION"
                                ELSE IF opens /\ ~Missing(lib, v) THEN "ERROR" ELSE "UNSUPPORTED"]
    IN  [h |-> [c.h EXCEPT ![h] = loaded],
         refs |-> [l \in Lib |-> IF opens /\ l = lib THEN c.refs[l] + 1 ELSE c.refs[l]],
         rt |-> IF inits THEN With(c.rt, s, lib) ELSE c.rt]

-----------------------------------------------------------------------------
(* HandleSort: negative if a comes first                                   *)

Sign(first, second) == IF first THEN -1 ELSE IF second THEN 1 ELSE 0
FirstOf(s) == LET n == {i \in DOMAIN s : s[i] # 0} IN IF n = {} THEN 0 ELSE s[Lowest(n)]

\* mutant: a higher version is preferred
HandleSortHighest(a, b) ==
    FirstOf(<< Sign(a.type = "hw" /\ b.type # "hw", b.type = "hw" /\ a.type # "hw"),
               Sign(a.version > b.version, b.version > a.version) >>)

HandleSort(a, b) ==
    FirstOf(<< Sign(a.version = VPL /\ b.version < VPL, b.version = VPL /\ a.version < VPL),
               Sign(a.type = "hw" /\ b.type # "hw", b.type = "hw" /\ a.type # "hw"),
               Sign(a.media = "integrated" /\ b.media # "integrated", b.media = "integrated" /\ a.media # "integrated"),
               Sign(a.version < b.version, b.version < a.version),
               Sign(a.status = "NONE" /\ b.status # "NONE", b.status = "NONE" /\ a.status # "NONE") >>)

\* qsort is not stable, and runs only if one of them differs from the first
Candidates == {call.candidates[i] : i \in DOMAIN call.candidates}
Best ==
    IF \A h \in Candidates : HandleSort(handles[call.candidates[1]], handles[h]) = 0
    THEN {call.candidates[1]}
    ELSE {h \in Candidates : \A g \in Candidates : HandleSort(handles[h], handles[g]) <= 0}

-----------------------------------------------------------------------------
(* MFXInitEx, a step at a time                                             *)

Idle == [pc |-> "idle", method |-> "AUTO", place |-> Place(1, 1, 1), last |-> NoLast, current |-> None,
         candidates |-> <<>>, clones |-> None, faulted |-> FALSE]

Init ==
    /\ inst \in Installations
    /\ handles = [h \in Handle |-> Free]
    /\ refs = [l \in Lib |-> 0]
    /\ rt = <<>>
    /\ call = Idle
    /\ faults = 0

App == {h \in Handle : handles[h].owner = "app"}
Fault(f) == f = "none" \/ (f \in Faults /\ faults < MaxFaults)
Counts(f) == faults' = IF f = "none" THEN faults ELSE faults + 1

\* clones is the session that MFXCloneSession makes this one for
Begin(method, version, clones) ==
    LET h == FreeHandle(World)
    IN  /\ Becomes(Allocate(World, h, version))
        /\ call' = [Idle EXCEPT !.pc = "search", !.method = method, !.place = First(method, 1),
                                !.current = h, !.clones = clones]

MFXInitEx ==
    /\ call.pc = "idle" /\ Cardinality(App) < MaxSessions
    /\ \E m \in Methods, v \in Versions : Begin(m, v, None)
    /\ UNCHANGED <<inst, faults>>

MoveTo(c, place) ==
    [c EXCEPT !.pc = IF place.phase > 3 THEN "choose" ELSE @, !.place = place, !.last = NoLast]

\* what a search asks of a library after LoadSelectedDLL
Accepted(phase, r, fault) ==
    CASE phase = 1 -> r.status = "NONE" /\ fault # "PLATFORM"
      [] phase = 2 -> r.status = "NONE" /\ r.version > V(1, 9)
      [] phase = 3 -> r.status \in {"NONE", "PARTIAL_ACCELERATION"}

\* tries the next library of the place; a success ends the search.  One that is
\* "not RT" is not closed.
TryLibrary ==
    /\ call.pc = "search"
    /\ \E next \in {SelectDLLVersion(call.place, call.last)}, fault \in {"none", "LOAD", "INIT", "VERSION", "PLATFORM"} :
       /\ next.lib # None /\ Fault(fault) /\ Counts(fault)
       /\ \E w \in {LoadSelectedDLL(World, call.current, next.lib, next.type, Types[call.place.t].impl, fault)} :
            LET h == call.current
                phase == call.place.phase
                platform == phase = 1 /\ Exports(next.lib, V(1, 19))
                kept == [w EXCEPT !.h[h].owner = "candidate",
                                  !.h[h].media = IF platform THEN Runtime[next.lib].media ELSE @]
                g == FreeHandle(kept)
            IN  /\ fault = "PLATFORM" => platform
                /\ IF Accepted(phase, w.h[h], fault)
                   THEN /\ fault = "none"
                        /\ Becomes(Allocate(kept, g, w.h[h].req))
                        /\ call' = MoveTo([call EXCEPT !.current = g, !.candidates = Append(@, h)],
                                          First(call.method, phase + 1))
                   ELSE /\ \E c \in {IF phase = 2 /\ w.h[h].status = "NONE" THEN w ELSE Close(w, h)} : Becomes(c)
                        /\ call' = [call EXCEPT !.last = next.last, !.faulted = @ \/ fault # "none"]
    /\ UNCHANGED inst

NextPlace ==
    /\ call.pc = "search"
    /\ SelectDLLVersion(call.place, call.last).lib = None
    /\ call' = MoveTo(call, After(call.method, call.place))
    /\ \E w \in {IF call.place.phase = 3 THEN Close(World, call.current) ELSE World} : Becomes(w)
    /\ UNCHANGED <<inst, faults>>

NothingFound ==
    /\ call.pc = "choose" /\ call.candidates = <<>>
    /\ Becomes(Delete(World, call.current))
    /\ call' = Idle
    /\ UNCHANGED <<inst, faults>>

\* "This is a workaround which calls close-init".  The handle is returned, also
\* if the second initialisation fails.
Choose ==
    /\ call.pc = "choose" /\ call.candidates # <<>>
    /\ \E h \in Best, fault \in {"none", "REINIT"} :
       \E others \in {{g \in Handle \ {h} : handles[g].owner \in {"candidate", "call"}}} :
         LET left == [s \in {x \in DOMAIN rt : \A g \in others \cup {h} : handles[g].session # x} |-> rt[s]]
             s == FreeSession([rt |-> left])
             status == IF fault = "REINIT" THEN "ERROR"
                       ELSE IF Runtime[handles[h].module].partial THEN "PARTIAL_ACCELERATION" ELSE "NONE"
         IN  /\ Fault(fault) /\ Counts(fault)
             /\ handles' = [g \in Handle |->
                              IF g \in others THEN Free
                              ELSE IF g = h THEN [handles[g] EXCEPT !.owner = "app", !.status = status,
                                                                    !.session = IF status = "ERROR" THEN None ELSE s]
                              ELSE handles[g]]
             /\ refs' = [l \in Lib |-> refs[l] - Cardinality({g \in others : handles[g].module = l})]
             /\ rt' = IF status = "ERROR" THEN left ELSE With(left, s, handles[h].module)
             /\ call' = IF call.clones # None /\ status = "NONE"
                        THEN [Idle EXCEPT !.pc = "join", !.current = h, !.clones = call.clones] ELSE Idle
    /\ UNCHANGED inst

-----------------------------------------------------------------------------
(* The other calls                                                         *)

\* one named library, which has to accept without a warning
MFXInitEx2 ==
    /\ call.pc = "idle" /\ Cardinality(App) < MaxSessions
    /\ \E lib \in Lib, v \in Versions, impl \in {"HARDWARE", "SOFTWARE"}, fault \in {"none", "LOAD", "INIT", "VERSION"} :
         LET h == FreeHandle(World)
             type == IF impl = "SOFTWARE" THEN "sw" ELSE "hw"
             w == LoadSelectedDLL(Allocate(World, h, v), h, lib, type, impl, fault)
         IN  /\ Fault(fault) /\ Counts(fault)
             /\ Becomes(IF w.h[h].status = "NONE" THEN [w EXCEPT !.h[h].owner = "app"] ELSE Delete(w, h))
    /\ UNCHANGED <<inst, call>>

\* a handle whose runtime refuses is kept
CloseApp(w, h) == IF CloseStatus(w, h) = "UNDEFINED_BEHAVIOR" THEN w ELSE Delete(w, h)

MFXClose ==
    /\ call.pc = "idle"
    /\ \E h \in App : Becomes(CloseApp(World, h))
    /\ UNCHANGED <<inst, call, faults>>

MayJoin(parent, child) == handles[parent].version = handles[child].version

\* the runtime joins a session of its own that has no part in another join
Joins(parent, child) ==
    LET p == handles[parent].session
        c == handles[child].session
    IN  /\ MayJoin(parent, child)
        /\ p # None /\ c # None /\ p # c
        /\ rt[p].lib = rt[c].lib /\ rt[p].parent = None /\ rt[c].parent = None
        /\ \A s \in DOMAIN rt : rt[s].parent # c

MFXJoinSession ==
    /\ call.pc = "idle"
    /\ \E p, c \in App : Joins(p, c) /\ rt' = [rt EXCEPT ![handles[c].session].parent = handles[p].session]
    /\ UNCHANGED <<inst, handles, refs, call, faults>>

MFXDisjoinSession ==
    /\ call.pc = "idle"
    /\ \E s \in DOMAIN rt : rt[s].parent # None /\ rt' = [rt EXCEPT ![s].parent = None]
    /\ UNCHANGED <<inst, handles, refs, call, faults>>

\* the clone of a 1.x session: MFXInit, MFXJoinSession, and MFXClose if they do
\* not join
CloneInit ==
    /\ call.pc = "idle" /\ Cardinality(App) < MaxSessions
    /\ \E h \in App : /\ Major(handles[h].version) = 1
                      /\ Begin(handles[h].impl, handles[h].version, h)
    /\ UNCHANGED <<inst, faults>>

CloneJoin ==
    /\ call.pc = "join"
    /\ \E fault \in {"none", "CLONE"} :
         /\ Fault(fault) /\ Counts(fault)
         /\ IF Joins(call.clones, call.current) /\ fault = "none"
            THEN Becomes([World EXCEPT !.rt[handles[call.current].session].parent = handles[call.clones].session])
            ELSE Becomes(CloseApp(World, call.current))
    /\ call' = Idle
    /\ UNCHANGED inst

\* the clone of a 2.x session, in the library of its parent
Clone2 ==
    /\ call.pc = "idle" /\ Cardinality(App) < MaxSessions
    /\ \E parent \in App, fault \in {"none", "LOAD", "CLONE", "VERSION"} :
         LET h == FreeHandle(World)
             lib == handles[parent].module
             s == FreeSession(World)
         IN  /\ Major(handles[parent].version) = 2 /\ lib # None
             /\ Fault(fault) /\ Counts(fault)
             /\ IF fault # "none" THEN UNCHANGED <<handles, refs, rt>>
                ELSE Becomes([h |-> [handles EXCEPT ![h] =
                                       [New(handles[parent].req) EXCEPT
                                          !.module = lib, !.table = lib, !.session = s, !.type = handles[parent].type,
                                          !.impl = handles[parent].impl, !.status = "NONE", !.version = V(2, 9),
                                          !.owner = "app"]],
                              refs |-> [refs EXCEPT ![lib] = @ + 1],
                              rt |-> With(rt, s, lib)])
    /\ UNCHANGED <<inst, call>>

Continues == TryLibrary \/ NextPlace \/ NothingFound \/ Choose \/ CloneJoin

Next ==
    \/ Continues
    \/ MFXInitEx \/ MFXInitEx2 \/ MFXClose \/ MFXJoinSession \/ MFXDisjoinSession \/ CloneInit \/ Clone2

\* a call that runs goes on
Fairness == WF_vars(Continues)

Spec == Init /\ [][Next]_vars /\ Fairness

-----------------------------------------------------------------------------
(* Properties                                                              *)

\* Handles, sessions and the running call keep their types.
TypeOK ==
    /\ inst \in Installations
    /\ \A h \in Handle :
         LET r == handles[h]
         IN  /\ {r.module, r.table} \subseteq Lib \cup {None} /\ r.session \in Session \cup {None}
             /\ r.type \in {"hw", "sw"} /\ r.impl \in {Types[t].impl : t \in DOMAIN Types}
             /\ r.version \in Nat /\ r.req \in Versions \cup {0} \cup {Runtime[l].api : l \in Lib} /\ r.media \in Media
             /\ r.status \in {"NOT_FOUND", "NONE", "ERROR", "UNSUPPORTED", "PARTIAL_ACCELERATION"}
             /\ r.owner \in {"free", "call", "candidate", "app"}
    /\ refs \in [Lib -> Nat]
    /\ \A s \in DOMAIN rt : s \in Session /\ rt[s].lib \in Lib /\ rt[s].parent \in DOMAIN rt \cup {None}
    /\ call.pc \in {"idle", "search", "choose", "join"} /\ call.method \in DOMAIN implTypesRange
    /\ call.place.phase \in 1..4 /\ call.current \in Handle \cup {None} /\ call.clones \in Handle \cup {None}
    /\ call.candidates \in Seq(Handle) /\ Len(call.candidates) <= 3
    /\ faults \in 0..MaxFaults

\* A library is loaded as often as handles hold it, a handle's functions and its
\* session are those of the library it holds, and no session is open without a
\* handle: nothing is called after it is unloaded and nothing stays behind,
\* whichever step of a search, a clone or a close fails.
LoadedWhileHeld ==
    /\ TypeOK
    /\ \A l \in Lib : refs[l] = Cardinality({h \in Handle : handles[h].module = l})
    /\ \A h \in Handle : /\ handles[h].table \in {None, handles[h].module}
                         /\ handles[h].session # None => /\ handles[h].session \in DOMAIN rt
                                                         /\ rt[handles[h].session].lib = handles[h].module
    /\ \A s \in DOMAIN rt : Cardinality({h \in Handle : handles[h].session = s}) = 1
    /\ call.pc = "idle" => \A h \in Handle : handles[h].owner \in {"free", "app"}

-----------------------------------------------------------------------------
(* What MFXInitEx should find, from the installation alone                 *)

Places(method, phase) ==
    {Place(phase, t, s) : t \in implTypesRange[method][1] .. implTypesRange[method][2], s \in DOMAIN Storages[phase]}
Before(p, q) == p.t < q.t \/ (p.t = q.t /\ p.s < q.s)

\* the keys of a place by merit, equal ones in the order of the registry
Order(p) ==
    LET keys == inst.key[Storage(p)]
        fit == {i \in DOMAIN keys : Fits(p, keys[i]) /\ keys[i].merit > 0}
        first(i, j) == keys[i].merit > keys[j].merit \/ (keys[i].merit = keys[j].merit /\ i < j)
    IN  [n \in 1..Cardinality(fit) |-> CHOOSE i \in fit : Cardinality({j \in fit : first(j, i)}) = n - 1]

\* the libraries of a place, with their types, in the order of their merit
Offers(p) ==
    LET one(lib, type) == IF lib = None THEN <<>> ELSE << [lib |-> lib, type |-> type] >>
        keys == inst.key[Storage(p)]
        order == Order(p)
    IN  IF Type(p) = "hw" /\ Adapter(p) # "intel" /\ (Storage(p) \notin Key \/ Adapter(p) = "none") THEN <<>>
        ELSE IF Storage(p) \in Key
             THEN [i \in DOMAIN order |-> [lib |-> keys[order[i]].lib,
                                           type |-> IF keys[order[i]].device = 0 THEN "sw" ELSE "hw"]]
             ELSE IF Storage(p) = "default" THEN one(inst.default[Type(p)], Type(p))
                  ELSE IF Type(p) = "sw" THEN <<>>
                       ELSE one(inst.folder[Storage(p)], IF Storage(p) = "app" THEN "sw" ELSE "hw")

\* a runtime that every call to succeeds at
Suits(phase, lib, v) ==
    /\ ~Missing(lib, v)
    /\ Runtime[lib].partial => phase = 3
    /\ phase = 2 => Runtime[lib].api > V(1, 9) \/ Major(v) >= 2

\* the first library of the first place that has one
Finds(method, phase, v) ==
    LET suits(p) == {i \in DOMAIN Offers(p) : Suits(phase, Offers(p)[i].lib, v)}
        places == {p \in Places(method, phase) : suits(p) # {}}
    IN  {[phase |-> phase, lib |-> Offers(p)[Lowest(suits(p))].lib, type |-> Offers(p)[Lowest(suits(p))].type] :
            p \in {q \in places : \A r \in places \ {q} : Before(q, r)}}

\* a 2.x runtime, then hardware, then an integrated adapter
Rank(f, v) ==
    << Runtime[f.lib].api = VPL /\ Major(v) < 2 /\ ~Runtime[f.lib].partial, f.type = "hw",
       f.phase = 1 /\ Exports(f.lib, V(1, 19)) /\ Runtime[f.lib].media = "integrated" >>
Outranks(f, g, v) ==
    \E i \in 1..3 : Rank(f, v)[i] /\ ~Rank(g, v)[i] /\ \A j \in 1 .. i - 1 : Rank(f, v)[j] = Rank(g, v)[j]

Chosen == {h \in Handle : handles[h].owner = "candidate" /\ handles'[h].owner = "app"}
Chooses == call.pc = "choose" /\ Chosen # {}

\* Unless something failed on the way, MFXInitEx returns a library that none of
\* those it should have found outranks, and fails only if there is none: no
\* place is left out, visited in the wrong turn, or spoilt by the place before.
FindsBest ==
    [][ LET v == handles[call.current].req
            found == UNION {Finds(call.method, phase, v) : phase \in 1..3}
        IN  call.pc = "choose" /\ ~call.faulted =>
              /\ (found = {}) = (Chosen = {})
              /\ \A h \in Chosen : \E f \in found : /\ f.lib = handles[h].module /\ f.type = handles[h].type
                                                    /\ \A g \in found : ~Outranks(g, f, v) ]_vars

\* A call returns: every search ends, after the last key of every place.
Returns == call.pc # "idle" ~> call.pc = "idle"
=============================================================================
