----------------------------- MODULE SessionMC -----------------------------
(***************************************************************************)
(* Installations of runtimes for the session calls, for TLC.               *)
(***************************************************************************)
EXTENDS Session, TLC

CONSTANTS Gen, Msdk, Sw, Custom   \* runtime libraries

\* Gen: the 2.x GPU runtime, Sw: the 2.x CPU runtime, Msdk: the 1.x GPU runtime,
\* Custom: another copy of it, which LoaderCtx::Init finds first
AllApiVer == (Gen :> 2009) @@ (Sw :> 2010) @@ (Msdk :> 1035) @@ (Custom :> 1035)
AllLegacyVer == (Gen :> 1255) @@ (Sw :> 1255) @@ (Msdk :> 1035) @@ (Custom :> 1035)
AllMissing == (Gen :> 2011) @@ (Sw :> 2011) @@ (Msdk :> 2000) @@ (Custom :> 2000)
AllImplOf == (Gen :> 2) @@ (Sw :> 1) @@ (Msdk :> 2) @@ (Custom :> 2)

Everything == [place \in Place |->
    CASE place = "vplhw" -> Gen
      [] place = "msdk" -> Custom
      [] place = "msdk_dir" -> Msdk
      [] place = "vplsw_dir" -> Sw
      [] OTHER -> NoFile]

Handles == Permutations(Handle)
=============================================================================
