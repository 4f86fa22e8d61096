-------------------------- MODULE LibrarySearch --------------------------
(* Where a loader finds runtimes: BuildListOfCandidateLibs and
   CheckValidLibraries (mfx_dispatcher_vpl_loader.cpp) for a full load,
   AddSingleLibrary and its callers (mfx_dispatcher_vpl_lowlatency.cpp) for a
   low latency one, on both systems.  Module Dispatcher starts where this one
   ends: its constants Search, LowLatVPL and LowLatMSDK are what is found here.

   A layout is one installation:
     windows   which of the two systems it is
     holds     directory -> its entries, in the order the system lists them; an
               entry is the kind of its name and the file it stands for ("gone"
               when the name does not resolve)
     system, legacy, exe, install
               the fixed directories of each search, in its order
     sysdir    the only system directory low latency mode tries on Windows
     dxgi, pnp the adapters, and the display devices of the driver store with
               the directory each gives for 2.x and for 1.x (None for no value)
   Kinds of names: "vpl" libvpl*, "gen" libmfx-gen, "msdk" libmfxhw64,
   "dispatcher" libvpl.so, libmfx.so, libvpl.dll, "tracer", "other". *)
EXTENDS Adapters, SequencesExt

CONSTANTS Layout, File,
          Runtime,    \* file -> [vpl, msdk, named, minor], see below
          Envs,       \* values of the three environment variables
          Flaky,      \* the files that may open one time and not another
          MaxLoads    \* bound: loads of one loader

(* A runtime exports MFXInitialize (vpl), MFXInitEx and MFXClose (msdk); its
   resolved path holds the name of the 1.x library (named); a test session of a
   1.x library answers version 1.minor (0: no adapter answers). *)
ASSUME SearchAssumption ==
    /\ Runtime \in [File -> [vpl : BOOLEAN, msdk : BOOLEAN, named : BOOLEAN, minor : Nat]]
    /\ MaxLoads \in Nat

VARIABLES layout,
          env,          \* the environment variables of the process
          libs,         \* m_libInfoList
          priorityPath, \* m_bPriorityPathEnabled
          loads,        \* loads of this loader so far
          stage,        \* "empty", "listed", "failed" (the query failed) or "loaded"
          tried,        \* the environments and adapters of its full loads
          up,           \* the files that opened in the last full load
          picked        \* the last low latency load: the file found and the file used
vars == <<layout, env, libs, priorityPath, loads, stage, tried, up, picked>>

None == "none"
PrioSpecial == 0
PrioLegacyDriverStore == 10000
PrioLegacy == 10001

\* A Windows variable that is too long reads as if it were not set.
TooLong == <<"too long">>
ParseEnvSearchPaths(l, value) == IF l.windows /\ value = TooLong THEN <<>> ELSE value

\* DriverStoreLoader::GetDriverStorePath: the first Intel display device with this
\* device number whose registry key has the value.
DriverStoreDir(l, device, key) ==
    LET hits == {k \in DOMAIN l.pnp : /\ l.pnp[k].intel /\ l.pnp[k].device = device
                                      /\ l.pnp[k][key] # None}
    IN  IF hits = {} THEN None
        ELSE l.pnp[CHOOSE k \in hits : \A j \in hits : k <= j][key]

\* GetSearchPathsDriverStore: one directory for each adapter that has one.
DriverStore(l, adapters, key) ==
    LET dirs == [k \in DOMAIN adapters |-> DriverStoreDir(l, adapters[k].device, key)]
    IN  SelectSeq(dirs, LAMBDA d : d # None)

------------------------------------------------------------------------------
(* The full search *)

Location(dirs, prio, vplOnly) ==
    [k \in DOMAIN dirs |-> [dir |-> dirs[k], prio |-> prio, vplOnly |-> vplOnly]]

\* BuildListOfCandidateLibs: the directories of each priority, in search order.
Locations(l, e, adapters) ==
    Location(ParseEnvSearchPaths(l, e.priority), PrioSpecial, FALSE) \o
    (IF l.windows
     THEN Location(DriverStore(l, adapters, "vpl"), 1, TRUE)
          \o Location(l.exe, 2, FALSE)
          \o Location(ParseEnvSearchPaths(l, e.path), 4, FALSE)
          \o Location(ParseEnvSearchPaths(l, e.search), 5, FALSE)
          \o Location(DriverStore(l, adapters, "msdk"), PrioLegacyDriverStore, FALSE)
          \o Location(l.legacy, PrioLegacy, FALSE)
     ELSE Location(ParseEnvSearchPaths(l, e.path), 1, FALSE)
          \o Location(l.system, 3, FALSE)
          \o Location(ParseEnvSearchPaths(l, e.search), 5, FALSE)
          \o Location(l.legacy, PrioLegacy, FALSE)
          \o Location(l.install, 9999, FALSE))

\* Windows asks for one pattern after another, Linux reads the directory once.
Patterns(l, vplOnly) ==
    IF l.windows THEN IF vplOnly THEN <<{"vpl"}, {"gen"}>> ELSE <<{"vpl"}, {"gen"}, {"msdk"}>>
    ELSE <<{"vpl", "gen", "msdk"}>>
Matches(l, loc) ==
    LET entries == IF loc.dir \in DOMAIN l.holds THEN l.holds[loc.dir] ELSE <<>>
        ps      == Patterns(l, loc.vplOnly)
    IN  FlattenSeq([p \in DOMAIN ps |->
            SelectSeq(entries, LAMBDA x : x.kind \in ps[p] /\ x.file # "gone")])

NewLib(file, prio, link) == [file |-> file, prio |-> prio, type |-> "unknown", link |-> link,
                             live |-> TRUE]
\* Two entries are the same when their paths are: a low latency load keeps the
\* path it tried (link), a full load the one the system resolved.
Listed(L, file) == \E k \in DOMAIN L : L[k].file = file /\ ~L[k].link

\* As if a file were listed again for every directory that holds it.
AddEntryAgain(L, x, prio) == Append(L, NewLib(x.file, prio, FALSE))

\* As if the last directory decided the priority.
AddEntryLast(L, x, prio) ==
    IF Listed(L, x.file)
    THEN [k \in DOMAIN L |-> IF L[k].file = x.file THEN [L[k] EXCEPT !.prio = prio] ELSE L[k]]
    ELSE Append(L, NewLib(x.file, prio, FALSE))

AddEntry(L, x, prio) ==
    IF Listed(L, x.file) THEN L ELSE Append(L, NewLib(x.file, prio, FALSE))

SearchDirForLibs(l, L, loc) ==
    FoldLeft(LAMBDA M, x : AddEntry(M, x, loc.prio), L, Matches(l, loc))

BuildListOfCandidateLibs(l, e, adapters, L) ==
    FoldLeft(LAMBDA M, loc : SearchDirForLibs(l, M, loc), L, Locations(l, e, adapters))

------------------------------------------------------------------------------
(* Which candidates are runtimes; opens is the set of files that open. *)

\* Whether the table holds the 2.x functions: that of a library that does not open
\* keeps what an earlier load put there.
LoadAPIExports(lib, opens) ==
    IF lib.file \in opens THEN Runtime[lib.file].vpl ELSE lib.type = "vpl"

TypeOf(lib, opens) ==
    LET r == Runtime[lib.file]
    IN  IF LoadAPIExports(lib, opens) /\ lib.prio < PrioLegacyDriverStore THEN "vpl"
        ELSE IF lib.file \in opens /\ r.named /\ r.msdk /\ r.minor # 0 THEN "msdk" ELSE "none"

\* As if a runtime of the driver store had no preference.
BestMSDKAnywhere(T) ==
    LET msdk == {k \in DOMAIN T : T[k].type = "msdk"}
    IN  {k \in msdk : \A j \in msdk :
            \/ Runtime[T[k].file].minor > Runtime[T[j].file].minor
            \/ Runtime[T[k].file].minor = Runtime[T[j].file].minor /\ k <= j}

\* The 1.x runtime that is kept: from the driver store if there is one there, the
\* highest version, the first of equals.
BestMSDK(T) ==
    LET msdk  == {k \in DOMAIN T : T[k].type = "msdk"}
        store == {k \in msdk : T[k].prio = PrioLegacyDriverStore}
        pool  == IF store # {} THEN store ELSE msdk
    IN  {k \in pool : \A j \in pool :
            \/ Runtime[T[k].file].minor > Runtime[T[j].file].minor
            \/ Runtime[T[k].file].minor = Runtime[T[j].file].minor /\ k <= j}

CheckValidLibraries(L, opens) ==
    LET T    == [k \in DOMAIN L |-> [L[k] EXCEPT !.type = TypeOf(L[k], opens)]]
        kept == {k \in DOMAIN T : T[k].type = "vpl"} \cup BestMSDK(T)
        ks   == SelectSeq([k \in DOMAIN T |-> k], LAMBDA k : k \in kept)
    IN  [j \in DOMAIN ks |-> T[ks[j]]]

------------------------------------------------------------------------------
(* The low latency search: the first directory whose library opens and exports
   the entry point. *)

\* As if the version were left out of the name of the 2.x library.
LibNameUnversioned(type) == IF type = "vpl" THEN "other" ELSE "msdk"

LibName(type) == IF type = "vpl" THEN "gen" ELSE "msdk"

LowLatencyDirs(l, adapters, type) ==
    IF l.windows THEN DriverStore(l, adapters, type)
    ELSE IF type = "vpl" THEN l.system ELSE l.system \o l.legacy

\* AddSingleLibrary: the file a directory gives, or None
SingleLibrary(l, dir, type, opens) ==
    LET entries == IF dir \in DOMAIN l.holds THEN l.holds[dir] ELSE <<>>
        hits == {k \in DOMAIN entries :
                    /\ entries[k].kind = LibName(type) /\ entries[k].file \in opens
                    /\ Runtime[entries[k].file][type]}
    IN  IF hits = {} THEN None ELSE entries[CHOOSE k \in hits : TRUE].file

\* LoadLibsFromDriverStore, LoadLibsFromMultipleDirs, LoadLibsFromSystemDir
FirstLibrary(l, dirs, type, opens) ==
    LET found == [k \in DOMAIN dirs |-> SingleLibrary(l, dirs[k], type, opens)]
        hits  == {k \in DOMAIN dirs : found[k] # None}
    IN  IF hits = {} THEN None ELSE found[CHOOSE k \in hits : \A j \in hits : k <= j]

AddSingleLibrary(L, file, type) ==
    Append(L, [NewLib(file, IF type = "vpl" THEN 1 ELSE PrioLegacy, TRUE) EXCEPT !.type = type])

\* LoadLibsLowLatency tries 2.x, 1.x, and on Windows 1.x in the system directory,
\* where it then takes the first library of the list, not the one just added.
\* again: the files that open a second time; a library that does not is deleted
\* but stays in the list.
Attempt(l, dirs, type, opens) == [file |-> FirstLibrary(l, dirs, type, opens), type |-> type]
Attempts(l, adapters, opens) ==
    <<Attempt(l, LowLatencyDirs(l, adapters, "vpl"), "vpl", opens),
      Attempt(l, LowLatencyDirs(l, adapters, "msdk"), "msdk", opens)>>
    \o (IF l.windows THEN <<Attempt(l, <<l.sysdir>>, "msdk", opens)>> ELSE <<>>)

UsedLib(l, L, k) == IF l.windows /\ k = 3 THEN 1 ELSE Len(L)

\* alone: the list was empty before
Nothing == [found |-> None, used |-> None, alone |-> TRUE]
TryLibrary(l, r, a, k, again) ==
    LET L == AddSingleLibrary(r.libs, a.file, a.type)
        u == UsedLib(l, L, k)
        works == /\ L[u].live /\ L[u].file \in again
                 /\ a.type = "msdk" => Runtime[L[u].file].msdk
    IN  IF r.done \/ a.file = None THEN r
        ELSE [libs |-> [L EXCEPT ![u].live = works], done |-> works,
              picked |-> [found |-> a.file, alone |-> Len(L) = 1,
                          used |-> IF L[u].live THEN L[u].file ELSE "freed"]]

LoadLibsLowLatency(l, adapters, L, opens, again) ==
    LET as == Attempts(l, adapters, opens)
        start == [libs |-> L, done |-> FALSE, picked |-> Nothing]
        r1 == TryLibrary(l, start, as[1], 1, again)
        r2 == TryLibrary(l, r1, as[2], 2, again)
    IN  IF l.windows /\ adapters = <<>> THEN start
        ELSE IF l.windows THEN TryLibrary(l, r2, as[3], 3, again) ELSE r2

------------------------------------------------------------------------------
(* One loader in a process whose environment may change. *)

Works == {File \ F : F \in SUBSET Flaky}
\* What GetAdapterList may answer; Linux does not ask.
AdapterLists(l) ==
    IF l.windows THEN {GetAdapterList(l, f, {}).list : f \in 1..(Len(ListCalls) + 1)} ELSE {<<>>}

Init ==
    /\ layout \in Layout /\ env \in Envs
    /\ libs = <<>> /\ priorityPath = FALSE /\ loads = 0 /\ stage = "empty"
    /\ tried = {} /\ up = {} /\ picked = Nothing

Setenv(e) ==
    /\ env' = e /\ e # env
    /\ UNCHANGED <<layout, libs, priorityPath, loads, stage, tried, up, picked>>

\* A library deleted by a low latency load and still listed ends the model here:
\* module Dispatcher follows what a later call does with it.
Usable == \A k \in DOMAIN libs : libs[k].live

\* FullLoadAndQuery up to the query; it is repeated after a failure.
FullLoad(opens, adapters) ==
    /\ loads < MaxLoads /\ stage \in {"empty", "failed"} /\ Usable
    /\ LET L == BuildListOfCandidateLibs(layout, env, adapters, libs)
       IN  libs' = CheckValidLibraries(L, opens)
    /\ priorityPath' = (priorityPath \/ ParseEnvSearchPaths(layout, env.priority) # <<>>)
    /\ stage' = IF libs' = <<>> THEN "failed" ELSE "listed"
    /\ tried' = tried \cup {<<env, adapters>>}
    /\ up' = opens /\ loads' = loads + 1
    /\ UNCHANGED <<layout, env, picked>>

\* QueryLibraryCaps: a failed one leaves the 2.x libraries that answered with
\* implementations that lack functions.
Query(works, left) ==
    /\ stage = "listed"
    /\ stage' = IF works THEN "loaded" ELSE "failed"
    /\ libs' = IF works THEN libs
               ELSE SelectSeq(libs, LAMBDA b : b.type = "vpl" /\ b.file \in left)
    /\ UNCHANGED <<layout, env, priorityPath, loads, tried, up, picked>>

LowLatencyLoad(opens, again, adapters) ==
    /\ loads < MaxLoads /\ stage \in {"empty", "failed"} /\ Usable
    /\ LET r == LoadLibsLowLatency(layout, adapters, libs, opens, again)
       IN  /\ libs' = r.libs /\ picked' = r.picked
           /\ stage' = IF r.done THEN "loaded" ELSE "failed"
    /\ loads' = loads + 1
    /\ UNCHANGED <<layout, env, priorityPath, tried, up>>

\* MFXUnload, then MFXLoad
NewLoader ==
    /\ stage \in {"failed", "loaded"}
    /\ libs' = <<>> /\ priorityPath' = FALSE /\ loads' = 0 /\ stage' = "empty"
    /\ tried' = {} /\ up' = {} /\ picked' = Nothing
    /\ UNCHANGED <<layout, env>>

Next ==
    \/ \E e \in Envs : Setenv(e)
    \/ \E o \in Works, a \in AdapterLists(layout) : FullLoad(o, a)
    \/ \E o \in Works, g \in Works, a \in AdapterLists(layout) : LowLatencyLoad(o, g, a)
    \/ \E w \in BOOLEAN, left \in Works : Query(w, left)
    \/ NewLoader

Spec == Init /\ [][Next]_vars

------------------------------------------------------------------------------
(* What the documentation says (VPL_prg_session.rst, legacy search order): a
   location has a rank, a runtime is found at the first location holding it. *)

Holding(l, dirs, kinds) ==
    {x.file : x \in UNION {{l.holds[d][k] : k \in DOMAIN l.holds[d]} :
                              d \in ToSet(dirs) \cap DOMAIN l.holds}
                   \cap [kind : kinds, file : File]}

AnyName == {"vpl", "gen", "msdk"}
DocumentedAt(l, e, adapters, prio) ==
    LET E(v) == ParseEnvSearchPaths(l, v) IN
    CASE prio = 0 -> Holding(l, E(e.priority), AnyName)
      [] prio = 1 -> IF l.windows THEN Holding(l, DriverStore(l, adapters, "vpl"), {"vpl", "gen"})
                     ELSE Holding(l, E(e.path), AnyName)
      [] prio = 2 -> IF l.windows THEN Holding(l, l.exe, AnyName) ELSE {}
      [] prio = 3 -> IF l.windows THEN {} ELSE Holding(l, l.system, AnyName)
      [] prio = 4 -> IF l.windows THEN Holding(l, E(e.path), AnyName) ELSE {}
      [] prio = 5 -> Holding(l, E(e.search), AnyName)
      [] prio = 9999 -> Holding(l, l.install, AnyName)
      [] prio = PrioLegacyDriverStore -> Holding(l, DriverStore(l, adapters, "msdk"), AnyName)
      [] prio = PrioLegacy -> Holding(l, l.legacy, AnyName)

\* The order of the search; the install directory comes after the legacy ones.
Ranks == <<0, 1, 2, 3, 4, 5, PrioLegacyDriverStore, PrioLegacy, 9999>>
FoundAt(l, e, adapters) ==
    {<<f, Ranks[r]>> : <<f, r>> \in
        {fr \in File \X DOMAIN Ranks :
            /\ fr[1] \in DocumentedAt(l, e, adapters, Ranks[fr[2]])
            /\ \A s \in 1..(fr[2] - 1) : fr[1] \notin DocumentedAt(l, e, adapters, Ranks[s])}}

\* Every variable keeps its type.
TypeOK ==
    /\ layout \in Layout /\ env \in Envs /\ loads \in 0..MaxLoads
    /\ stage \in {"empty", "listed", "failed", "loaded"} /\ priorityPath \in BOOLEAN
    /\ \A k \in DOMAIN libs : /\ libs[k].file \in File /\ libs[k].type \in {"vpl", "msdk"}
                              /\ libs[k].prio \in ToSet(Ranks) /\ libs[k].link \in BOOLEAN

\* A first full load lists each documented 2.x runtime that opens once, with the
\* priority of the first documented location that holds it, whatever links,
\* repeated directories and names lead to it, and no 2.x runtime of another
\* place (one found first in a 1.x directory is not used).
FindsDocumented ==
    TypeOK /\ (stage = "listed" /\ loads = 1 =>
        LET listed == SelectSeq(libs, LAMBDA b : b.type = "vpl")
            t == CHOOSE t \in tried : TRUE
        IN  /\ {<<listed[k].file, listed[k].prio>> : k \in DOMAIN listed}
                 = {fp \in FoundAt(layout, t[1], t[2]) :
                        fp[1] \in up /\ Runtime[fp[1]].vpl /\ fp[2] < PrioLegacyDriverStore}
            /\ Cardinality(ToSet(listed)) = Len(listed))

\* Of the 1.x runtimes found, a full load keeps one, of the highest version, and
\* one of the driver store before any other.
KeepsBestMSDK ==
    stage = "listed" /\ loads = 1 =>
        LET t == CHOOSE t \in tried : TRUE
            usable == {fp \in FoundAt(layout, t[1], t[2]) :
                        LET r == Runtime[fp[1]]
                        IN  /\ fp[1] \in up /\ r.named /\ r.msdk /\ r.minor # 0
                            /\ ~(r.vpl /\ fp[2] < PrioLegacyDriverStore)}
            store == {fp \in usable : fp[2] = PrioLegacyDriverStore}
            pool == IF store # {} THEN store ELSE usable
            kept == {k \in DOMAIN libs : libs[k].type = "msdk"}
        IN  /\ Cardinality(kept) = (IF usable = {} THEN 0 ELSE 1)
            /\ \A k \in kept, fp \in pool :
                   /\ \E g \in pool : g[1] = libs[k].file
                   /\ Runtime[libs[k].file].minor >= Runtime[fp[1]].minor

\* Also when loads are repeated in a changed environment, a library has the
\* priority that its first location had in one of them, and special priority only
\* where the loader knows that ONEVPL_PRIORITY_PATH was given.
PriorityFromSomeLoad ==
    \A k \in DOMAIN libs : ~libs[k].link =>
        /\ \E t \in tried : <<libs[k].file, libs[k].prio>> \in FoundAt(layout, t[1], t[2])
        /\ libs[k].prio = PrioSpecial => priorityPath

\* Low latency mode looks at no other place than a full load: the library it
\* finds is a candidate of a full load in the same environment, and it goes on
\* with this library.  The exception is the system directory of Windows when the
\* list was not empty: there the first library of the list is used, which may be
\* another one or one already freed.
LowLatencyWithinFull ==
    /\ picked.found # None =>
         \E a \in AdapterLists(layout) :
             \E p \in ToSet(Ranks) : <<picked.found, p>> \in FoundAt(layout, env, a)
    /\ picked.used = picked.found \/ (layout.windows /\ ~picked.alone)
==========================================================================
