--------------------------- MODULE DispatcherMC ---------------------------
(***************************************************************************)
(* Installations of runtimes for TLC.                                      *)
(***************************************************************************)
EXTENDS Dispatcher, TLC

CONSTANTS Gpu, Cpu, Custom, Msdk,   \* runtime files
          Bare, Old                 \* more of them, for RetryFiles

Desc(impl, name, accel, codecs, ver, dev) ==
    [Impl |-> impl, ImplName |-> name, VendorID |-> "Intel", AccelerationMode |-> accel,
     modes |-> {accel}, codecs |-> codecs, ver |-> ver, dev |-> dev]

\* A full installation: a CPU runtime on LD_LIBRARY_PATH, a GPU runtime that
\* drives two devices, a custom runtime on ONEVPL_PRIORITY_PATH, and a 1.x
\* runtime for one of those devices and one more
AllFiles == {Gpu, Cpu, Custom, Msdk}
AllSearch == << [file |-> Custom, prio |-> 0], [file |-> Cpu, prio |-> 1],
                [file |-> Gpu, prio |-> 3], [file |-> Msdk, prio |-> 10001] >>
AllKind == (Gpu :> "vpl") @@ (Cpu :> "vpl") @@ (Custom :> "vpl") @@ (Msdk :> "msdk")
AllCaps ==
    (Gpu :> << Desc("HW", "mfx-gen", "HDDLUNITE", {"avc"}, 2009, "d2"),
               Desc("HW", "mfx-gen", "VAAPI", {"avc", "av1"}, 2009, "d1") >>) @@
    (Cpu :> << Desc("SW", "cpu", "NA", {"avc", "av1"}, 2010, "cpu") >>) @@
    (Custom :> << Desc("SW", "custom", "NA", {"av1"}, 2002, "cpu") >>) @@
    (Msdk :> << Desc("HW", "mfxhw64", "VAAPI", {}, 1035, "d1"), NoCaps,
                Desc("HW", "mfxhw64", "VAAPI", {}, 1035, "d3") >>)
AllApiVer == (Gpu :> 2009) @@ (Cpu :> 2010) @@ (Custom :> 2002) @@ (Msdk :> 1035)
AllMissing == (Gpu :> 2011) @@ (Cpu :> 2011) @@ (Custom :> 2003) @@ (Msdk :> 2000)

AllLacks == [f \in AllFiles |-> {}]

FilterSettings == {<<"Impl", "HW">>, <<"Impl", "SW">>, <<"CodecID", "av1">>}

\* Every runtime may fail to load, all of them at once included.  Three 2.x
\* libraries lack a function that is called untested: the custom one cannot be
\* queried, what Bare reports is rejected, and Old reports a version so low that
\* it is listed, and cannot be released when the loader is unloaded
RetryFiles == AllFiles \cup {Bare, Old}
RetrySearch == << [file |-> Custom, prio |-> 0], [file |-> Bare, prio |-> 1],
                  [file |-> Old, prio |-> 2], [file |-> Gpu, prio |-> 3],
                  [file |-> Msdk, prio |-> 10001] >>
RetryKind == (Bare :> "vpl") @@ (Old :> "vpl") @@ AllKind
RetryCaps ==
    (Bare :> << Desc("HW", "mfx-gen", "VAAPI", {"avc"}, 2009, "d1") >>) @@
    (Old :> << Desc("HW", "mfx-gen", "VAAPI", {"avc"}, 1035, "d1") >>) @@ AllCaps
RetryApiVer == (Bare :> 2009) @@ (Old :> 1035) @@ AllApiVer
RetryMissing == [f \in {Custom, Bare, Old} |-> 2000] @@ AllMissing
RetryLacks == (Custom :> {"Query"}) @@ (Bare :> {"Release"}) @@ (Old :> {"Release"}) @@ AllLacks
VersionSettings == {<<"ApiVersion", 2005>>, <<"AccelerationMode", "VAAPI">>,
                    <<"AccelerationMode", "D3D9">>}

\* The four filters that low latency mode requires; and API versions that both
\* 2.x runtimes have, or the CPU runtime only
LowLatSettings == {<<"Impl", "HW">>, <<"ImplName", "mfx-gen">>, <<"VendorID", "Intel">>,
                   <<"AccelerationMode", "VAAPI">>}
LowLatVersions == LowLatSettings \cup {<<"ApiVersion", 2005>>, <<"ApiVersion", 2010>>}
GpuSearch == << [file |-> Gpu, prio |-> 3] >>
LowLatSearch == << [file |-> Cpu, prio |-> 1], [file |-> Gpu, prio |-> 3] >>
=============================================================================
