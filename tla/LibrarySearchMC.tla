------------------------- MODULE LibrarySearchMC -------------------------
EXTENDS LibrarySearch

X(kind, file) == [kind |-> kind, file |-> file]
R(vpl, msdk, named, minor) == [vpl |-> vpl, msdk |-> msdk, named |-> named, minor |-> minor]

\* gen, vpla and vplb are 2.x runtimes; m30 and m35 1.x runtimes; both exports the
\* functions of both, and its path has the name of the 1.x library; bad neither.
MCFile == {"gen", "vpla", "vplb", "m30", "m35", "both", "bad"}
MCRuntime == [f \in MCFile |->
    CASE f \in {"gen", "vpla", "vplb"} -> R(TRUE, FALSE, FALSE, 0)
      [] f = "m30" -> R(FALSE, TRUE, TRUE, 30)
      [] f = "m35" -> R(FALSE, TRUE, TRUE, 35)
      [] f = "both" -> R(TRUE, TRUE, TRUE, 27)
      [] f = "bad" -> R(FALSE, TRUE, FALSE, 35)]
MCFlaky == {"gen", "m35"}

E(priority, path, search) == [priority |-> priority, path |-> path, search |-> search]
MCEnvs == {E(<<>>, <<>>, <<>>), E(<<"user">>, <<"">>, <<"user", "ld">>),
           E(<<"">>, <<"ld", "ld">>, <<>>), E(TooLong, <<"ld">>, <<"user">>)}

UserDirs == [user |-> <<X("vpl", "vpla"), X("dispatcher", "bad")>>,
             ld |-> <<X("tracer", "bad"), X("vpl", "vplb"), X("msdk", "m30"), X("vpl", "gone")>>]

\* /lib is a link to /usr/lib, and a 2.x runtime lies in a 1.x directory
Ubuntu ==
    [windows |-> FALSE, exe |-> <<>>, sysdir |-> None, dxgi |-> <<>>, pnp |-> <<>>,
     system |-> <<"x86_64", "lib", "usrlib">>, legacy |-> <<"opt">>, install |-> <<"inst">>,
     holds |-> UserDirs @@
        [x86_64 |-> <<X("msdk", "m35"), X("gen", "gen")>>, lib |-> <<X("gen", "gen")>>,
         usrlib |-> <<X("gen", "gen"), X("other", "vpla")>>,
         opt |-> <<X("vpl", "vplb"), X("msdk", "both")>>, inst |-> <<X("vpl", "vplb")>>]]

\* A 1.x runtime only in the 1.x directory, no 2.x one in the system directories
OldLinux ==
    [Ubuntu EXCEPT !.holds = UserDirs @@
        [lib |-> <<X("msdk", "bad"), X("vpl", "bad")>>, opt |-> <<X("msdk", "m35")>>]]

Display(device, vpl, msdk) == [intel |-> TRUE, device |-> device, vpl |-> vpl, msdk |-> msdk]
Windows ==
    [windows |-> TRUE, exe |-> <<"exe">>, sysdir |-> "system32", install |-> <<>>,
     system |-> <<>>, legacy |-> <<"hkcu", "system32", "syswow64">>,
     dxgi |-> <<[vendor |-> "intel", device |-> 11, luid |-> 1],
                [vendor |-> "intel", device |-> 12, luid |-> 2]>>,
     pnp |-> <<Display(12, "store12", None), Display(11, None, "store11")>>,
     holds |-> UserDirs @@
        [store12 |-> <<X("msdk", "m35"), X("gen", "gen"), X("vpl", "vplb")>>,
         store11 |-> <<X("msdk", "m30")>>, exe |-> <<X("vpl", "vpla")>>,
         hkcu |-> <<X("msdk", "both")>>, system32 |-> <<X("msdk", "m35")>>]]

\* The driver store has nothing for this device
OldWindows == [Windows EXCEPT !.pnp = <<Display(12, "store12", None)>>,
                              !.dxgi = <<[vendor |-> "intel", device |-> 11, luid |-> 1]>>]

MCLayout == {Ubuntu, OldLinux, Windows, OldWindows}
==========================================================================
