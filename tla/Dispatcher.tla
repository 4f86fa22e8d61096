---------------------------- MODULE Dispatcher ----------------------------
(***************************************************************************)
(* The loader context of the dispatcher (class LoaderCtxVPL) behind the    *)
(* 2.x entry points MFXLoad, MFXCreateConfig, MFXSetConfigFilterProperty,  *)
(* MFXEnumImplementations, MFXCreateSession and MFXUnload, on Linux: how   *)
(* runtime libraries are found, loaded, queried, filtered and ranked, and  *)
(* which one a session is created with.  Each action is one whole API      *)
(* call: a loader is used by one thread at a time.                         *)
(*                                                                         *)
(* Runtimes are constants: the files a search finds, what they export and  *)
(* what they report when queried.                                          *)
(***************************************************************************)
EXTENDS Ordered

CONSTANTS
    File,        \* runtime libraries, by full path
    Search,      \* <<[file, prio], ...>>: what the directory searches find, in order
    Kind,        \* [File -> {"vpl", "msdk", "partial", "other"}]: what a file exports
    Caps,        \* [File -> Seq]: description per implementation (VPL) or adapter (MSDK)
    MaxCaps,     \* no runtime reports more implementations than this
    NoCaps,      \* entry of an adapter the MSDK runtime cannot use
    ApiVer,      \* [File -> Nat]: API version a session of the runtime reports
    MissingFrom, \* [File -> Nat]: API version of the oldest required function not exported
    Lacks,       \* [File -> SUBSET Untested]: those of the functions called without a test
    LowLatVPL, LowLatMSDK, \* what LoadLibsFromMultipleDirs opens, or NoFile
    NoFile,
    Flaky,       \* files whose loading or test session may fail at any call
    Setting,     \* <<property, value>> pairs the application may set
    Unset,       \* MFX_VARIANT_TYPE_UNSET
    NoSession,
    MaxConfig,   \* bound on the mfxConfig objects of a loader
    MaxIndex,    \* bound on the index i passed by the application
    MaxLibs      \* bound on the libraries listed before a low latency load

\* lower values = higher priority (enum LibPriority)
PrioSpecial == 0
PrioLowLatency == 1
PrioLegacyDriverStore == 10000
PrioLegacy == 10001

\* versions are 1000 * Major + Minor; 1.255 is what a VPL runtime reports when
\* it is opened through its 1.x compatibility entry point
CompatVersion == 1255

Property == {"Impl", "ImplName", "VendorID", "AccelerationMode", "ApiVersion", "CodecID"}
PtrProperty == {"ImplName"}
SpecialProperty == {"AccelerationMode", "ApiVersion"}

\* MFXQueryImplsDescription and MFXReleaseImplDescription, which the loader calls
\* without a test: a library is only known to export MFXInitialize.  Both are
\* required from API 2.0 on; the list of functions is reported from 2.2 on
Untested == {"Query", "Release"}
RequiredFrom == 2000
FunctionsFrom == 2002

\* what each element of Caps[f] says
IsDesc(d) ==
    /\ DOMAIN d = {"Impl", "ImplName", "VendorID", "AccelerationMode",
                   "modes", "codecs", "ver", "dev"}
    /\ d.ver \in Nat

ASSUME SearchAssumption ==
    /\ Search \in Seq([file : File, prio : Nat])
    /\ \A j, k \in DOMAIN Search : Search[j].file = Search[k].file => j = k
ASSUME RuntimeAssumption ==
    /\ Kind \in [File -> {"vpl", "msdk", "partial", "other"}]
    /\ MaxCaps \in Nat
    /\ ApiVer \in [File -> Nat]
    /\ MissingFrom \in [File -> Nat]
    /\ Lacks \in [File -> SUBSET Untested]
    /\ \A f \in File : Lacks[f] # {} => MissingFrom[f] <= RequiredFrom
    /\ DOMAIN Caps = File
    /\ \A f \in File : DOMAIN Caps[f] = 1..Len(Caps[f]) /\ Len(Caps[f]) \in 0..MaxCaps
    /\ \A f \in File : \A i \in DOMAIN Caps[f] :
         \/ Kind[f] = "msdk" /\ Caps[f][i] = NoCaps
         \/ Caps[f][i] # NoCaps /\ IsDesc(Caps[f][i])
    /\ \A f \in File : Kind[f] = "msdk" => Len(Caps[f]) > 0
ASSUME LowLatencyAssumption ==
    /\ NoFile \notin File
    /\ LowLatVPL = NoFile \/ (LowLatVPL \in File /\ Kind[LowLatVPL] = "vpl")
    /\ LowLatMSDK = NoFile \/ (LowLatMSDK \in File /\ Kind[LowLatMSDK] \in {"msdk", "partial"})
    /\ Flaky \subseteq File
ASSUME ConfigAssumption ==
    /\ \A s \in Setting : s[1] \in Property /\ s[2] # Unset
    /\ \A s \in Setting : s[1] = "ApiVersion" => s[2] \in Nat
    /\ Unset \notin Nat
    /\ MaxConfig \in Nat /\ MaxIndex \in Nat /\ MaxLibs \in Nat

VARIABLES
    open,        \* the loader handle exists (between MFXLoad and MFXUnload)
    configs,     \* m_configCtxList: per mfxConfig, its value of each property
    libs,        \* m_libInfoList
    impls,       \* m_implInfoList
    nextIdx,     \* m_implIdxNext
    lowLatency, needUpdate, needFull, needLowLat, \* m_bLowLatency, m_bNeed...
    special,     \* m_specialConfig: acceleration mode and API version
    leaked,      \* files dlopen'ed more often than their LibInfo will dlclose
    fault,       \* undefined behaviour reached inside a call: it never returns
    ret,         \* status of the last call
    session      \* the implementation the last created session runs on

lists == <<libs, impls, nextIdx, leaked>>
flags == <<lowLatency, needUpdate, needFull, needLowLat>>
vars == <<open, configs, lists, flags, special, fault, ret, session>>

-----------------------------------------------------------------------------
(* Configuration                                                           *)

\* mutant: a new mfxConfig whose properties are not initialised
NoFilterGarbage == [p \in Property |-> "garbage"]

NoFilter == [p \in Property |-> Unset]

\* the value of p in the last mfxConfig of the list that sets it
LastSet(cs, p) ==
    LET setters == {k \in DOMAIN cs : cs[k][p] # Unset}
    IN  IF setters = {} THEN Unset
        ELSE cs[CHOOSE k \in setters : \A j \in setters : j <= k][p]

\* CheckLowLatencyConfig: the properties that low latency mode requires are
\* set as required, and no other property that filters is set
CheckLowLatencyConfig(cs) ==
    /\ LastSet(cs, "Impl") = "HW"
    /\ LastSet(cs, "ImplName") = "mfx-gen"
    /\ LastSet(cs, "VendorID") = "Intel"
    /\ LastSet(cs, "AccelerationMode") # Unset
    /\ LastSet(cs, "CodecID") = Unset

\* special properties keep their last value when no mfxConfig sets them
UpdateSpecial(sp, cs) ==
    [p \in DOMAIN sp |-> IF LastSet(cs, p) = Unset THEN sp[p] ELSE LastSet(cs, p)]

D3D9Requested == special["AccelerationMode"] = "D3D9"

\* one mfxConfig against one description; the caps of codecs are not known
\* for 1.x runtimes and do not exclude them
CheckProps(cfg, d, kind) ==
    /\ \A p \in {"Impl", "ImplName", "VendorID"} : cfg[p] \in {Unset, d[p]}
    /\ cfg["AccelerationMode"] \in {Unset} \cup d.modes
    /\ kind # "msdk" => cfg["CodecID"] \in {Unset} \cup d.codecs

ValidateConfig(cs, d, kind) ==
    /\ \A k \in DOMAIN cs : CheckProps(cs[k], d, kind)
    /\ LastSet(cs, "ApiVersion") # Unset => d.ver >= LastSet(cs, "ApiVersion")

-----------------------------------------------------------------------------
(* Lists                                                                   *)

LibIds(L) == {L[k].id : k \in DOMAIN L}
LibOf(L, m) == L[CHOOSE k \in DOMAIN L : L[k].id = m.lib]
DescOf(m) == Caps[m.file][m.idx]

\* a list holds a pointer to a LibInfo that was deleted
Dangling(L, I) ==
    \/ \E k \in DOMAIN L : ~L[k].live
    \/ \E j \in DOMAIN I : I[j].lib \notin LibIds(L)

\* ids are never reused while an implementation refers to them
LastId(L, I) ==
    LET used == {0} \cup LibIds(L) \cup {I[k].lib : k \in DOMAIN I}
    IN  CHOOSE n \in used : \A m \in used : m <= n

NewLib(id, file, prio, type, isOpen) ==
    [id |-> id, file |-> file, prio |-> prio, type |-> type, open |-> isOpen, live |-> TRUE]

\* UpdateValidImplList and QueryLibraryCaps end with this: libraries of
\* ONEVPL_PRIORITY_PATH first and unsorted, then by type, accelerator,
\* version and search path, each sort stable; then the valid ones are
\* numbered in list order
Renumber(I) ==
    [k \in DOMAIN I |->
        IF I[k].valid >= 0
        THEN [I[k] EXCEPT !.valid = Cardinality({j \in 1..(k - 1) : I[j].valid >= 0})]
        ELSE I[k]]

IsSpecial(L, m) == LibOf(L, m).prio = PrioSpecial

Unsorted(L, I) == Pick(I, {k \in DOMAIN I : IsSpecial(L, I[k])})
General(L, I) == Pick(I, {k \in DOMAIN I : ~IsSpecial(L, I[k])})

SortBySearchPath(L, I) == SortBy(I, [k \in DOMAIN I |-> LibOf(L, I[k]).prio])
SortByVersion(I) == SortBy(I, [k \in DOMAIN I |-> -DescOf(I[k]).ver])
SortByAccelerator(I) ==
    SortBy(I, [k \in DOMAIN I |->
                IF DescOf(I[k]).AccelerationMode = "HDDLUNITE" THEN 1 ELSE 0])
SortByImpl(I) ==
    SortBy(I, [k \in DOMAIN I |-> IF DescOf(I[k]).Impl = "HW" THEN 0 ELSE 1])

\* mutant: the sort by version runs last
SortGeneralVersionLast(L, G) ==
    IF Len(G) < 2 THEN G
    ELSE SortByVersion(SortByImpl(SortByAccelerator(SortBySearchPath(L, G))))

\* a list of fewer than two elements is sorted without comparing
SortGeneral(L, G) ==
    IF Len(G) < 2 THEN G
    ELSE SortByImpl(SortByAccelerator(SortByVersion(SortBySearchPath(L, G))))

PrioritizeImplList(L, I) == Renumber(Unsorted(L, I) \o SortGeneral(L, General(L, I)))

\* the sorts read the description of every element they compare
NullDescCompared(L, I) ==
    LET G == General(L, I)
    IN  Len(G) > 1 /\ \E k \in DOMAIN G : ~G[k].desc

-----------------------------------------------------------------------------
(* Loading and querying.  A step maps a record of the lists to another:    *)
(* fault is the undefined behaviour it ran into, ok its status.            *)

Current == [libs |-> libs, impls |-> impls, next |-> nextIdx, leaked |-> leaked,
            fault |-> "none", ok |-> TRUE]
Faulty(r, what) == [r EXCEPT !.fault = what, !.ok = FALSE]

\* a description is released through the library that returned it
ReleasesNull(L, I) ==
    \E k \in DOMAIN L, j \in DOMAIN I :
        /\ L[k].id = I[j].lib
        /\ L[k].type = "vpl" /\ I[j].desc
        /\ "Release" \in Lacks[L[k].file]

UnloadAllLibraries(r) ==
    IF Dangling(r.libs, r.impls) THEN Faulty(r, "use_after_free")
    ELSE IF ReleasesNull(r.libs, r.impls) THEN Faulty(r, "null_call")
    ELSE [r EXCEPT !.libs = <<>>, !.impls = <<>>, !.next = 0]

\* SearchDirForLibs over all search directories: files already in the list
\* are skipped
BuildListOfCandidateLibs(L, I) ==
    LET found == {k \in DOMAIN Search : \A j \in DOMAIN L : L[j].file # Search[k].file}
        new == Pick(Search, found)
    IN  L \o [k \in DOMAIN new |->
                NewLib(LastId(L, I) + k, new[k].file, new[k].prio, "unknown", FALSE)]

\* CheckValidLibraries: type of each library once it is loaded.  up: the
\* files that dlopen and, for 1.x, the test session accept this time
TypeOf(l, up) ==
    IF Kind[l.file] = "vpl" /\ (l.file \in up \/ l.open) /\ l.prio < PrioLegacyDriverStore
    THEN "vpl"
    ELSE IF Kind[l.file] = "msdk" /\ l.file \in up THEN "msdk" ELSE "unknown"

\* the 1.x library that is kept: from the driver store if there is one, the
\* highest version, the first of equals
BestMSDK(L, up) ==
    LET msdk == {k \in DOMAIN L : TypeOf(L[k], up) = "msdk"}
        ds == {k \in msdk : L[k].prio = PrioLegacyDriverStore}
        pool == IF ds = {} THEN msdk ELSE ds
    IN  {k \in pool : \A j \in pool :
            \/ ApiVer[L[k].file] > ApiVer[L[j].file]
            \/ ApiVer[L[k].file] = ApiVer[L[j].file] /\ k <= j}

CheckValidLibraries(L, up) ==
    LET kept == {k \in DOMAIN L : TypeOf(L[k], up) = "vpl"} \cup BestMSDK(L, up)
    IN  Pick([k \in DOMAIN L |-> [L[k] EXCEPT !.type = TypeOf(L[k], up), !.open = TRUE]], kept)

\* dlopen of a library that its LibInfo already holds open
Reopened(L) == {L[k].file : k \in {j \in DOMAIN L : L[j].open}}

\* libraries that fail their query are unloaded and erased
QueryFails(l) ==
    \/ l.type = "vpl" /\ Len(Caps[l.file]) = 0
    \/ l.type = "msdk" /\ \A i \in DOMAIN Caps[l.file] : Caps[l.file][i] = NoCaps

\* an implementation enters the list when the library exports what its
\* version requires (VPL), or when the adapter is supported (MSDK)
Accepted(l, i) ==
    /\ i \in DOMAIN Caps[l.file]
    /\ Caps[l.file][i] # NoCaps
    /\ l.type = "vpl" => Caps[l.file][i].ver < MissingFrom[l.file]

\* every VPL library is queried, and what is not accepted is released
CallsNull(l) ==
    /\ l.type = "vpl"
    /\ \/ "Query" \in Lacks[l.file]
       \/ "Release" \in Lacks[l.file] /\ \E i \in DOMAIN Caps[l.file] : ~Accepted(l, i)

\* in low latency mode only the list of functions is asked for, and released when
\* the test session or the check of the exports fails
CallsNullLow(l, answers) ==
    /\ l.type = "vpl"
    /\ \/ "Query" \in Lacks[l.file]
       \/ /\ "Release" \in Lacks[l.file] /\ ApiVer[l.file] >= FunctionsFrom
          /\ l.file \notin answers \/ ApiVer[l.file] >= MissingFrom[l.file]

NewImpl(l, i, valid) ==
    [lib |-> l.id, file |-> l.file, idx |-> i, desc |-> TRUE,
     ver |-> Caps[l.file][i].ver, valid |-> valid]

\* 1.x implementations are hidden if a 2.x hardware implementation exists for
\* the device, unless D3D9 was requested, and if they are a 2.x runtime
HasHardwareVPL(I, d) ==
    \E k \in DOMAIN I :
        Kind[I[k].file] = "vpl" /\ DescOf(I[k]).Impl = "HW" /\ DescOf(I[k]).dev = d

\* mutant: any requested acceleration mode lifts the rule
HiddenByDefault(I, m) ==
    /\ Kind[m.file] = "msdk" /\ m.desc
    /\ \/ special["AccelerationMode"] = Unset /\ HasHardwareVPL(I, DescOf(m).dev)
       \/ DescOf(m).ver = CompatVersion

Hidden(I, m) ==
    /\ Kind[m.file] = "msdk" /\ m.desc
    /\ \/ ~D3D9Requested /\ HasHardwareVPL(I, DescOf(m).dev)
       \/ DescOf(m).ver = CompatVersion

\* the MSDK query of an implementation listed in low latency mode is retried
\* without moving on when it fails
QueryNeverEnds(I) ==
    \E k \in DOMAIN I : ~I[k].desc /\ Kind[I[k].file] = "msdk" /\ Caps[I[k].file][1] = NoCaps

\* the 2.x query of such an implementation is not checked for an answer
QueryUnanswered(I) == \E k \in DOMAIN I : ~I[k].desc /\ Len(Caps[I[k].file]) = 0

\* the implementations of all libraries, in list order
NewImpls(L, n) ==
    LET o == InOrder({e \in (1..Len(L)) \X (1..MaxCaps) : Accepted(L[e[1]], e[2])})
    IN  [j \in DOMAIN o |-> NewImpl(L[o[j][1]], o[j][2], n + j - 1)]

\* the pass over the whole list: what low latency mode listed gets described,
\* and legacy implementations are hidden
Describe(I) ==
    [k \in DOMAIN I |-> [I[k] EXCEPT !.desc = TRUE,
                                     !.valid = IF Hidden(I, I[k]) THEN -1 ELSE @]]

\* QueryLibraryCaps when low latency mode is off
QueryLibraryCapsFull(r) ==
    LET L == Pick(r.libs, {k \in DOMAIN r.libs : ~QueryFails(r.libs[k])})
        new == NewImpls(L, r.next)
        I == r.impls \o new
        r1 == [r EXCEPT !.libs = L, !.impls = I, !.next = r.next + Len(new)]
    IN  IF \E k \in DOMAIN r.libs : CallsNull(r.libs[k]) THEN Faulty(r, "null_call")
        ELSE IF I = <<>> THEN [r1 EXCEPT !.ok = FALSE]
        ELSE IF Dangling(L, I) THEN Faulty(r1, "use_after_free")
        ELSE IF QueryNeverEnds(I) THEN Faulty(r1, "endless_loop")
        ELSE IF QueryUnanswered(I) THEN Faulty(r1, "null_deref")
        ELSE [r1 EXCEPT !.impls = PrioritizeImplList(L, Describe(I))]

FullLoadAndQuery(r, up) ==
    LET L == BuildListOfCandidateLibs(r.libs, r.impls)
        r1 == [r EXCEPT !.libs = CheckValidLibraries(L, up), !.leaked = @ \cup Reopened(L)]
    IN  IF ~r.ok THEN r
        ELSE IF Dangling(r.libs, <<>>) THEN Faulty(r, "use_after_free")
        ELSE IF r1.libs = <<>> THEN [r1 EXCEPT !.ok = FALSE]
        ELSE QueryLibraryCapsFull(r1)

\* UpdateValidImplList: an implementation once marked invalid is passed over
Meets(m) == m.desc /\ ValidateConfig(configs, DescOf(m), Kind[m.file])

ApplyFilters(I) ==
    [k \in DOMAIN I |-> IF I[k].valid = -1 \/ Meets(I[k]) THEN I[k]
                        ELSE [I[k] EXCEPT !.valid = -1]]

\* mutant: the list is not numbered again
UpdateValidImplListNoRanking(r) ==
    [r EXCEPT !.impls = ApplyFilters(@)]

UpdateValidImplList(r) ==
    LET gone == {k \in DOMAIN r.impls : r.impls[k].lib \notin LibIds(r.libs)}
        I == ApplyFilters(r.impls)
    IN  IF \E k \in gone : Len(r.impls) > 1 \/ r.impls[k].valid # -1
        THEN Faulty(r, "use_after_free")
        ELSE IF gone # {} THEN r
        ELSE IF NullDescCompared(r.libs, I) THEN Faulty(r, "null_deref")
        ELSE [r EXCEPT !.impls = PrioritizeImplList(r.libs, I)]

\* mutant: the filters are only applied after a load
RefreshOnLoad(r, up) ==
    LET r1 == IF needFull THEN FullLoadAndQuery(r, up) ELSE r
    IN  IF r1.ok /\ needFull THEN UpdateValidImplList(r1) ELSE r1

\* what MFXEnumImplementations and MFXCreateSession share: the full load if
\* none succeeded yet, then the filters if any was set since the last time
Refresh(r, up) ==
    LET r1 == IF needFull THEN FullLoadAndQuery(r, up) ELSE r
    IN  IF r1.ok /\ (needFull \/ needUpdate) THEN UpdateValidImplList(r1) ELSE r1

\* LoadLibsLowLatency: the 2.x runtime in the fixed directories, else the 1.x
\* one.  found: the files that AddSingleLibrary opens, up: those that open again
\* in LoadSingleLibrary; a LibInfo that does not is deleted, not erased from the list.
LowLatLib(L, I, file, type, works) ==
    [NewLib(LastId(L, I) + 1, file, IF type = "vpl" THEN PrioLowLatency ELSE PrioLegacy,
            type, works) EXCEPT !.live = works]

\* the 1.x fallback replaces the name filter of every mfxConfig
RenameFilters(cs) == [k \in DOMAIN cs |-> [cs[k] EXCEPT !["ImplName"] = "mfxhw64"]]

LoadLibsLowLatency(r, found, up) ==
    LET vplOk == LowLatVPL \in found \cap up
        msdkOk == LowLatMSDK \in found \cap up /\ Kind[LowLatMSDK] = "msdk"
        L1 == IF LowLatVPL \notin found THEN r.libs
              ELSE Append(r.libs, LowLatLib(r.libs, r.impls, LowLatVPL, "vpl", vplOk))
        L2 == IF vplOk \/ LowLatMSDK \notin found THEN L1
              ELSE Append(L1, LowLatLib(L1, r.impls, LowLatMSDK, "msdk", msdkOk))
    IN  [lists |-> [r EXCEPT !.libs = L2, !.ok = vplOk \/ msdkOk],
         configs |-> IF ~vplOk /\ msdkOk THEN RenameFilters(configs) ELSE configs]

LowLatImpl(l, valid) ==
    [lib |-> l.id, file |-> l.file, idx |-> 1, desc |-> FALSE,
     ver |-> ApiVer[l.file], valid |-> valid]

\* mutant: low latency implementations are numbered from 0
QueryLibraryCapsLowFromZero(r, answers) ==
    LET L == r.libs
        stay == {k \in DOMAIN L : L[k].type = "msdk" => L[k].file \in answers}
        F == Pick(L, {k \in stay : /\ L[k].file \in answers
                                   /\ L[k].type = "vpl" => ApiVer[L[k].file] < MissingFrom[L[k].file]})
        I == r.impls \o [j \in DOMAIN F |-> LowLatImpl(F[j], j - 1)]
    IN  IF Dangling(L, <<>>) THEN Faulty(r, "use_after_free")
        ELSE IF \E k \in DOMAIN L : CallsNullLow(L[k], answers) THEN Faulty(r, "null_call")
        ELSE [r EXCEPT !.libs = Pick(L, stay), !.impls = I, !.next = @ + Len(F), !.ok = I # <<>>]

\* QueryLibraryCaps in low latency mode: one implementation per library, its
\* version taken from a test session (answers: the runtimes where that works),
\* neither described nor filtered nor ranked
QueryLibraryCapsLow(r, answers) ==
    LET L == r.libs
        stay == {k \in DOMAIN L : L[k].type = "msdk" => L[k].file \in answers}
        F == Pick(L, {k \in stay : /\ L[k].file \in answers
                                   /\ L[k].type = "vpl" => ApiVer[L[k].file] < MissingFrom[L[k].file]})
        I == r.impls \o [j \in DOMAIN F |-> LowLatImpl(F[j], r.next + j - 1)]
    IN  IF Dangling(L, <<>>) THEN Faulty(r, "use_after_free")
        ELSE IF \E k \in DOMAIN L : CallsNullLow(L[k], answers) THEN Faulty(r, "null_call")
        ELSE [r EXCEPT !.libs = Pick(L, stay), !.impls = I, !.next = @ + Len(F), !.ok = I # <<>>]

-----------------------------------------------------------------------------
(* The API calls                                                           *)

Init ==
    /\ open = FALSE
    /\ configs = <<>>
    /\ libs = <<>> /\ impls = <<>> /\ nextIdx = 0 /\ leaked = {}
    /\ lowLatency = FALSE /\ needUpdate = TRUE /\ needFull = TRUE /\ needLowLat = TRUE
    /\ special = [p \in SpecialProperty |-> Unset]
    /\ fault = "none"
    /\ ret = "NONE"
    /\ session = NoSession

\* no call returns, and none follows, once one has run into a fault
Calling == open /\ fault = "none"

MFXLoad ==
    /\ ~open
    /\ open' = TRUE
    /\ lowLatency' = FALSE /\ needUpdate' = TRUE /\ needFull' = TRUE /\ needLowLat' = TRUE
    /\ special' = [p \in SpecialProperty |-> Unset]
    /\ UNCHANGED <<configs, lists, fault, ret, session>>

SetLists(r) ==
    /\ libs' = r.libs /\ impls' = r.impls /\ nextIdx' = r.next /\ leaked' = r.leaked
    /\ fault' = r.fault

\* UnloadAllLibraries, FreeConfigFilters, delete; sessions live on
MFXUnload ==
    /\ Calling
    /\ SetLists(UnloadAllLibraries(Current))
    /\ open' = (fault' # "none")
    /\ configs' = <<>>
    /\ UNCHANGED <<flags, special, ret, session>>

MFXCreateConfig ==
    /\ Calling
    /\ Len(configs) < MaxConfig
    /\ configs' = Append(configs, NoFilter)
    /\ UNCHANGED <<open, lists, flags, special, fault, ret, session>>

\* mutant: a property that does not enable low latency mode leaves the list as it is
MFXSetConfigFilterPropertyQuietly(k, s) ==
    /\ Calling
    /\ k \in DOMAIN configs
    /\ configs' = [configs EXCEPT ![k][s[1]] = s[2]]
    /\ lowLatency' = CheckLowLatencyConfig(configs')
    /\ special' = UpdateSpecial(special, configs')
    /\ ret' = "NONE"
    /\ UNCHANGED <<open, lists, needUpdate, needFull, needLowLat, fault, session>>

MFXSetConfigFilterProperty(k, s) ==
    /\ Calling
    /\ k \in DOMAIN configs
    /\ configs' = [configs EXCEPT ![k][s[1]] = s[2]]
    /\ needUpdate' = TRUE
    /\ lowLatency' = CheckLowLatencyConfig(configs')
    /\ special' = UpdateSpecial(special, configs')
    /\ ret' = "NONE"
    /\ UNCHANGED <<open, lists, needFull, needLowLat, fault, session>>

\* a null pointer unsets the property and fails before any flag is updated
MFXSetConfigFilterPropertyNull(k, p) ==
    /\ Calling
    /\ k \in DOMAIN configs
    /\ configs' = [configs EXCEPT ![k][p] = Unset]
    /\ ret' = "NULL_PTR"
    /\ UNCHANGED <<open, lists, flags, special, fault, session>>

\* mutant: a full load does not clear the flag that asked for it
RefreshFlagsKept(r) ==
    /\ lowLatency' = (lowLatency /\ ~needFull)
    /\ needUpdate' = (needUpdate /\ ~r.ok)
    /\ UNCHANGED <<needFull, needLowLat>>

\* FullLoadAndQuery clears low latency mode before it does anything else, and
\* needFull only when it succeeds
RefreshFlags(r) ==
    /\ lowLatency' = (lowLatency /\ ~needFull)
    /\ needFull' = (needFull /\ ~r.ok)
    /\ needUpdate' = (needUpdate /\ ~r.ok)
    /\ UNCHANGED needLowLat

Listed(I, i) == {k \in DOMAIN I : I[k].valid = i}
First(I, i) == I[CHOOSE k \in Listed(I, i) : \A j \in Listed(I, i) : k <= j]

MFXEnumImplementations(i, up) ==
    /\ Calling
    /\ LET unload == needFull /\ lowLatency /\ ~needLowLat
           r == Refresh(IF unload THEN UnloadAllLibraries(Current) ELSE Current, up)
       IN  /\ SetLists(r)
           /\ RefreshFlags(r)
           /\ ret' = IF ~r.ok \/ Listed(r.impls, i) = {} THEN "NOT_FOUND"
                     ELSE IF First(r.impls, i).desc THEN "NONE" ELSE "UNSUPPORTED"
    /\ UNCHANGED <<open, configs, special, session>>

\* mutant: low latency sessions do not check the API version
CreateSessionAnyVersion(r, ll, i, starts) ==
    LET m == First(r.impls, i)
        found == r.ok /\ Listed(r.impls, i) # {}
        gone == found /\ m.lib \notin LibIds(r.libs)
    IN  /\ SetLists(IF gone THEN Faulty(r, "use_after_free") ELSE r)
        /\ IF ~found \/ gone THEN ret' = "NOT_FOUND" /\ UNCHANGED session
           ELSE IF ~starts THEN ret' = "UNSUPPORTED" /\ UNCHANGED session
           ELSE /\ ret' = "NONE"
                /\ session' = [file |-> m.file, idx |-> m.idx, lowLat |-> ll, ver |-> m.ver,
                               accel |-> IF special["AccelerationMode"] # Unset
                                         THEN special["AccelerationMode"]
                                         ELSE DescOf(m).AccelerationMode]

\* CreateSession: the implementation with index i; starts: MFXInitEx2 succeeds
CreateSession(r, ll, i, starts) ==
    LET m == First(r.impls, i)
        found == r.ok /\ Listed(r.impls, i) # {}
        gone == found /\ m.lib \notin LibIds(r.libs)
        tooOld == ll /\ special["ApiVersion"] # Unset /\ m.ver < special["ApiVersion"]
    IN  /\ SetLists(IF gone THEN Faulty(r, "use_after_free") ELSE r)
        /\ IF ~found \/ gone \/ tooOld THEN ret' = "NOT_FOUND" /\ UNCHANGED session
           ELSE IF ~starts THEN ret' = "UNSUPPORTED" /\ UNCHANGED session
           ELSE /\ ret' = "NONE"
                /\ session' = [file |-> m.file, idx |-> m.idx, lowLat |-> ll, ver |-> m.ver,
                               accel |-> IF special["AccelerationMode"] # Unset
                                         THEN special["AccelerationMode"]
                                         ELSE DescOf(m).AccelerationMode]

MFXCreateSessionFull(i, up, starts) ==
    /\ Calling /\ ~lowLatency
    /\ LET r == Refresh(Current, up)
       IN  /\ RefreshFlags(r)
           /\ CreateSession(r, FALSE, i, starts)
    /\ UNCHANGED <<open, configs, special>>

\* MaxLibs bounds the list, which every failed load makes longer
MFXCreateSessionLowLatency(i, found, up, answers, starts) ==
    /\ Calling /\ lowLatency
    /\ Len(libs) <= MaxLibs
    /\ LET l == LoadLibsLowLatency(Current, found, up)
           r == IF l.lists.ok THEN QueryLibraryCapsLow(l.lists, answers) ELSE l.lists
       IN  IF needLowLat
           THEN /\ configs' = l.configs
                /\ needLowLat' = ~l.lists.ok
                /\ CreateSession(r, TRUE, i, starts)
           ELSE CreateSession(Current, TRUE, i, starts) /\ UNCHANGED <<configs, needLowLat>>
    /\ UNCHANGED <<open, lowLatency, needUpdate, needFull, special>>

\* the files that work at the time of a call
Working == {File \ F : F \in SUBSET Flaky}

Next ==
    \/ MFXLoad
    \/ MFXUnload
    \/ MFXCreateConfig
    \/ \E k \in 1..MaxConfig, s \in Setting : MFXSetConfigFilterProperty(k, s)
    \/ \E k \in 1..MaxConfig, p \in PtrProperty : MFXSetConfigFilterPropertyNull(k, p)
    \/ \E i \in 0..MaxIndex, up \in Working : MFXEnumImplementations(i, up)
    \/ \E i \in 0..MaxIndex, up \in Working, starts \in BOOLEAN :
            MFXCreateSessionFull(i, up, starts)
    \/ \E i \in 0..MaxIndex, found, up, answers \in Working, starts \in BOOLEAN :
            MFXCreateSessionLowLatency(i, found, up, answers, starts)

Spec == Init /\ [][Next]_vars

-----------------------------------------------------------------------------
(* Properties                                                              *)

LibInfo == [id : Nat, file : File, prio : Nat, type : {"unknown", "vpl", "msdk"},
            open : BOOLEAN, live : BOOLEAN]
ImplInfo == [lib : Nat, file : File, idx : Nat, desc : BOOLEAN,
             ver : Nat, valid : Nat \cup {-1}]
Faults == {"use_after_free", "null_deref", "null_call", "endless_loop"}
Values(p) == {Unset} \cup {s[2] : s \in {t \in Setting : t[1] = p}}
Config == [Impl : Values("Impl"), ImplName : Values("ImplName") \cup {"mfxhw64"},
           VendorID : Values("VendorID"), AccelerationMode : Values("AccelerationMode"),
           ApiVersion : Values("ApiVersion"), CodecID : Values("CodecID")]

\* Lists, flags and records keep their types: in particular an index is -1
\* (invalid) or below m_implIdxNext, and every list entry names a known file.
TypeOK ==
    /\ open \in BOOLEAN
    /\ configs \in Seq(Config)
    /\ libs \in Seq(LibInfo)
    /\ impls \in Seq(ImplInfo)
    /\ nextIdx \in Nat
    /\ leaked \subseteq File
    /\ lowLatency \in BOOLEAN /\ needUpdate \in BOOLEAN
    /\ needFull \in BOOLEAN /\ needLowLat \in BOOLEAN
    /\ special \in [AccelerationMode : Values("AccelerationMode"), ApiVersion : Values("ApiVersion")]
    /\ fault \in {"none"} \cup Faults
    /\ ret \in {"NONE", "NULL_PTR", "NOT_FOUND", "UNSUPPORTED"}
    /\ session # NoSession =>
         session.file \in File /\ session.idx \in Nat /\ session.ver \in Nat

\* The list reflects the current filters: loaded in full and re-validated, and
\* no low latency load has added to it since.
UpToDate == open /\ fault = "none" /\ ~needFull /\ ~needUpdate /\ (lowLatency => needLowLat)

Valid == {k \in DOMAIN impls : impls[k].valid >= 0}

\* m_implIdxNext stays ahead: an index given out, and the length of the list, are
\* below it; a description that is not null is one its runtime returned, and low
\* latency mode lists the first implementation of a runtime only.
\* Needed for UniqueIndices to be inductive.
Known(m) == m.idx \in DOMAIN Caps[m.file] /\ Caps[m.file][m.idx] # NoCaps
WellIndexed(I, n) ==
    /\ Len(I) <= n
    /\ \A k \in DOMAIN I : I[k].valid < n
    /\ \A k \in DOMAIN I : IF I[k].desc THEN Known(I[k]) ELSE I[k].idx = 1
    /\ \A j, k \in DOMAIN I : I[j].valid >= 0 /\ I[j].valid = I[k].valid => j = k
IndexInv == WellIndexed(impls, nextIdx)

\* An index identifies one implementation: no two entries that can be chosen
\* share one, also while low latency entries are appended to a ranked list.
UniqueIndices ==
    \A j, k \in Valid : impls[j].valid = impls[k].valid => j = k

\* MFXEnumImplementations called with 0, 1, ... until it fails sees every valid
\* implementation: their indices have no gap.
DenseIndices ==
    UpToDate => {impls[k].valid : k \in Valid} = 0..(Cardinality(Valid) - 1)

\* Every implementation that MFXEnumImplementations or MFXCreateSession can
\* choose satisfies all filters set on all mfxConfig objects.
EnumeratedSatisfyFilters ==
    UpToDate => \A k \in Valid : Meets(impls[k])

\* The documented priority of implementations, as a relation
Before(L, m, n) ==
    LET d == DescOf(m)
        e == DescOf(n)
        hw(x) == x.Impl = "HW"
        vsi(x) == x.AccelerationMode = "HDDLUNITE"
    IN  \/ hw(d) /\ ~hw(e)
        \/ hw(d) = hw(e) /\ ~vsi(d) /\ vsi(e)
        \/ hw(d) = hw(e) /\ vsi(d) = vsi(e) /\ d.ver > e.ver
        \/ hw(d) = hw(e) /\ vsi(d) = vsi(e) /\ d.ver = e.ver
              /\ LibOf(L, m).prio <= LibOf(L, n).prio

\* Implementations are numbered by priority: those of ONEVPL_PRIORITY_PATH
\* first, then hardware before software, general before VSI accelerators,
\* higher before lower API versions, and by search path.
PriorityOrder ==
    UpToDate => \A j, k \in Valid :
        impls[j].valid < impls[k].valid =>
            \/ IsSpecial(libs, impls[j])
            \/ ~IsSpecial(libs, impls[k]) /\ Before(libs, impls[j], impls[k])

\* Where a 2.x hardware runtime drives a device, no 1.x implementation of the
\* same device can be chosen, whatever the order and success of the loads.
LegacyHidden ==
    UpToDate /\ special["AccelerationMode"] # "D3D9" =>
        \A k \in Valid : Kind[impls[k].file] = "msdk" =>
            ~HasHardwareVPL(impls, DescOf(impls[k]).dev)

\* Where no low latency load takes place, a loader never reaches a deleted library
\* or a missing description, also when loads fail and are retried.  It calls a null
\* pointer only while a 2.x library that does not export MFXQueryImplsDescription or
\* MFXReleaseImplDescription is in its list: nothing tests these two before the call.
MemorySafe ==
    \/ fault = "none"
    \/ /\ fault = "null_call"
       /\ \E k \in DOMAIN libs : libs[k].type = "vpl" /\ Lacks[libs[k].file] # {}

\* A session is only created on an implementation that meets the filters in
\* force: all of them, or in low latency mode the API version, the only one
\* that can be checked then.
SessionMeetsFilters ==
    [][session' # session =>
        /\ LastSet(configs, "AccelerationMode") \in {Unset, session'.accel}
        /\ IF session'.lowLat
           THEN LastSet(configs, "ApiVersion") # Unset => session'.ver >= LastSet(configs, "ApiVersion")
           ELSE ValidateConfig(configs, Caps[session'.file][session'.idx], Kind[session'.file])]_vars

-----------------------------------------------------------------------------
(* What a comment says and the code does not do                            *)

\* mfx_dispatcher_vpl.cpp:31: MFXUnload unloads the libraries and frees memory,
\* after any sequence of calls: no library is deleted twice.
UnloadsOnce == fault # "use_after_free"
=============================================================================
