------------------------------ MODULE Session ------------------------------
(***************************************************************************)
(* Session handles of the Linux dispatcher (class LoaderCtx): each holds   *)
(* the library it runs on, the table of functions found there and the      *)
(* session the runtime returned.  Each action is one whole API call:       *)
(* MFXInitEx (and MFXInit), MFXInitEx2, MFXClose, MFXJoinSession,          *)
(* MFXDisjoinSession and MFXCloneSession.                                  *)
(*                                                                         *)
(* What the runtimes do with the calls passed down to them is external.    *)
(***************************************************************************)
EXTENDS Integers, FiniteSets

CONSTANTS
    Handle,      \* what mfxSession handles of the application can be
    File,        \* runtime libraries
    NoFile,
    Installed,   \* [Place -> File \cup {NoFile}]: what dlopen finds under each name
    LegacyPlatform, \* the graphics device is on the list of MSDK devices
    ApiVer,      \* [File -> Nat]: version a session of the runtime reports
    LegacyVer,   \* [File -> Nat]: the same, if it was opened through MFXInitEx
    MissingFrom, \* [File -> Nat]: version of the oldest function not exported
    ImplOf,      \* [File -> Nat]: implementation type a session reports
    Flaky,       \* runtimes that may refuse a session, or a query, at any call
    ImplType,    \* mfxIMPL base types the application asks for
    Version,     \* API versions the application asks for
    MaxSession   \* bound on the sessions that runtimes have at a time

\* the names LoaderCtx::Init passes to dlopen, in the order of the attempts;
\* "_dir": in MFX_MODULES_DIR
Place == {"vplhw", "vplhw_dir", "msdk", "msdk_dir", "vplsw", "vplsw_dir"}

\* versions are 1000 * Major + Minor, and 0 when not set
Legacy(v) == v \in 1000..1999
Modern(v) == v >= 2000

ASSUME SessionAssumption ==
    /\ NoFile \notin File
    /\ Installed \in [Place -> File \cup {NoFile}]
    /\ LegacyPlatform \in BOOLEAN
    /\ ApiVer \in [File -> Nat] /\ LegacyVer \in [File -> 1000..1999]
    /\ MissingFrom \in [File -> Nat \ {0}]
    /\ ImplOf \in [File -> Nat]
    /\ Flaky \subseteq File
    /\ ImplType \subseteq 0..7
    /\ Version \subseteq Nat /\ 0 \notin Version
    /\ MaxSession \in Nat

VARIABLES
    ctx,         \* LoaderCtx of each handle the application holds
    rts,         \* external: the runtimes' sessions, [file, parent]
    refused,     \* history: runtime sessions whose close was refused
    fault,       \* the dispatcher took a runtime's session for one of its own
    ret          \* status of the last call

vars == <<ctx, rts, refused, fault, ret>>

NoSession == 0   \* null mfxSession

-----------------------------------------------------------------------------
(* The runtimes                                                            *)

\* the function that is v at x, and F everywhere else
With(F, x, v) == [y \in DOMAIN F \cup {x} |-> IF y = x THEN v ELSE F[y]]

NewSession(R) == CHOOSE s \in 1..(Cardinality(DOMAIN R) + 1) : s \notin DOMAIN R
Children(R, s) == {c \in DOMAIN R : R[c].parent = s}

Opened(R, s, file, parent) == With(R, s, [file |-> file, parent |-> parent])

\* a session that others are joined to is not closed
RtClose(R, s) ==
    [t \in {u \in DOMAIN R : u # s \/ Children(R, s) # {}} |-> R[t]]

\* sessions join an independent one, and two parents are not joined
CanJoin(R, p, c) ==
    p # c /\ R[p].parent = NoSession /\ R[c].parent = NoSession /\ Children(R, c) = {}

\* runtimes that accept a session or answer queries at the time of a call
Working == {File \ F : F \in SUBSET Flaky}

Reports(file, version) == IF Modern(version) THEN ApiVer[file] ELSE LegacyVer[file]

-----------------------------------------------------------------------------
(* LoaderCtx                                                               *)

\* lib: m_dlh, rt: m_session, path: m_libToLoad; table and table2: the library
\* whose functions m_table and m_table2 point to
EmptyCtx ==
    [lib |-> NoFile, rt |-> NoSession, ver |-> 0, impl |-> 0,
     table |-> NoFile, table2 |-> NoFile, path |-> NoFile]

\* MFXClose is passed down if the table has it; then all but the library, the
\* functions of version 2 and the path is reset, whatever the answer
Close(w) ==
    [w EXCEPT !.rts = IF w.c.table = NoFile THEN @ ELSE RtClose(@, w.c.rt),
              !.c = [@ EXCEPT !.rt = NoSession, !.ver = 0, !.impl = 0, !.table = NoFile]]

CloseRefused(w) == w.c.table # NoFile /\ Children(w.rts, w.c.rt) # {} /\ w.c.rt # NoSession

\* m_table and, for API 2, m_table2 are looked up in a library
LoadTable(w, file, r) ==
    [w EXCEPT !.c.table = file, !.c.table2 = IF Modern(r.ver) THEN file ELSE @]

\* the session the runtime returns, with the version and the type it reports
StartSession(w, file, r) ==
    [w EXCEPT !.c.rt = NewSession(w.rts), !.c.ver = Reports(file, r.ver), !.c.impl = ImplOf[file],
              !.rts = Opened(@, NewSession(@), file, NoSession)]

\* the library handle is kept
Taken(w, file) == [w EXCEPT !.c.lib = file, !.ok = TRUE]

\* How far an attempt gets, and whether it gets to the end: the functions of the
\* version must be there; a clone is made by the caller; the runtime must accept a
\* session, report a version that is not lower, and its type.
StartsSession(file, r) == MissingFrom[file] > r.ver /\ ~r.clone /\ file \in r.accept

Attempted(w, file, r) ==
    LET tables == LoadTable(w, file, r)
    IN  IF StartsSession(file, r) THEN StartSession(tables, file, r) ELSE tables

Succeeds(file, r) ==
    /\ MissingFrom[file] > r.ver
    /\ ~r.clone => file \in r.accept \cap r.answer /\ Reports(file, r.ver) >= r.ver

\* mutant: no Close after a failed attempt
TryWithoutClose(w, file, r) ==
    LET n == Attempted(w, file, r)
    IN  IF w.ok \/ file = NoFile THEN w
        ELSE IF Succeeds(file, r) THEN Taken(n, file) ELSE n

\* mutant: the library handle stays that of the first library found
TryKeepingHandle(w, file, r) ==
    LET n == [Attempted(w, file, r) EXCEPT !.c.lib = IF @ = NoFile THEN file ELSE @]
    IN  IF w.ok \/ file = NoFile THEN w
        ELSE IF Succeeds(file, r) THEN [n EXCEPT !.ok = TRUE] ELSE Close(n)

\* mutant: the loop goes on after a library was found
TryWithoutBreak(w, file, r) ==
    LET n == Attempted(w, file, r)
    IN  IF file = NoFile THEN w
        ELSE IF Succeeds(file, r) THEN Taken(n, file) ELSE Close(n)

\* One round of the loop of LoaderCtx::Init.  w: the context so far, c, the
\* runtimes' sessions and whether a library was found; r: the request, with the
\* runtimes that accept a session and that answer QueryVersion and QueryIMPL.
Try(w, file, r) ==
    LET n == Attempted(w, file, r)
    IN  IF w.ok \/ file = NoFile THEN w
        ELSE IF Succeeds(file, r) THEN Taken(n, file) ELSE Close(n)

\* the libraries an implementation type asks for; the type is a set of bits
\* (0: AUTO, 1: SOFTWARE, 2: HARDWARE, 3: AUTO_ANY, 4: HARDWARE_ANY, 5 to 7:
\* HARDWARE2 to HARDWARE4), of which bit 0 is SOFTWARE, bits 1 and 2 HARDWARE
\* and HARDWARE_ANY
Wanted(type, place) ==
    CASE place \in {"vplhw", "vplhw_dir"} -> type # 1 /\ ~LegacyPlatform
      [] place \in {"msdk", "msdk_dir"} -> type # 1
      [] OTHER -> type \in {0, 1, 3, 5, 7}

Candidate(type, place) == IF Wanted(type, place) THEN Installed[place] ELSE NoFile

Blank(path) == [c |-> [EmptyCtx EXCEPT !.path = path], rts |-> rts, ok |-> FALSE]

Request(version, clone, accept, answer) ==
    [ver |-> version, clone |-> clone, accept |-> accept, answer |-> answer]

\* LoaderCtx::Init without the name of a library
SearchLibs(type, r) ==
    LET try(w, place) == Try(w, Candidate(type, place), r)
    IN  try(try(try(try(try(try(Blank(NoFile), "vplhw"), "vplhw_dir"),
                        "msdk"), "msdk_dir"), "vplsw"), "vplsw_dir")

\* LoaderCtx::Init with the name of a library
LoadLib(file, r) == Try(Blank(file), file, r)

-----------------------------------------------------------------------------
(* The API calls                                                           *)

Init ==
    /\ ctx = <<>>
    /\ rts = <<>>
    /\ refused = {}
    /\ fault = FALSE
    /\ ret = "NONE"

\* calls end with the process once a runtime's session was taken for a LoaderCtx
Calling == ~fault

FreeHandle(h) == h \in Handle \ DOMAIN ctx /\ Cardinality(DOMAIN rts) < MaxSession

\* the handle is released to the application if the call succeeded
Return(h, w) ==
    /\ ctx' = IF w.ok THEN With(ctx, h, w.c) ELSE ctx
    /\ rts' = w.rts
    /\ ret' = IF w.ok THEN "NONE" ELSE "ERROR"

\* MFXInit, MFXInitEx: search the default places
MFXInitEx(h, type, version, accept, answer) ==
    /\ Calling /\ FreeHandle(h)
    /\ Return(h, SearchLibs(type, Request(version, FALSE, accept, answer)))
    /\ UNCHANGED <<refused, fault>>

\* MFXInitEx2, for MFXCreateSession: the library of an implementation
MFXInitEx2(h, file, version, accept, answer) ==
    /\ Calling /\ FreeHandle(h)
    /\ Return(h, LoadLib(file, Request(version, FALSE, accept, answer)))
    /\ UNCHANGED <<refused, fault>>

Context(h) == [c |-> ctx[h], rts |-> rts, ok |-> TRUE]
Without(h) == [g \in DOMAIN ctx \ {h} |-> ctx[g]]

\* the context stays if the runtime refuses to close its session
MFXClose(h) ==
    /\ Calling /\ h \in DOMAIN ctx
    /\ LET w == Close(Context(h))
       IN  /\ rts' = w.rts
           /\ IF CloseRefused(Context(h))
              THEN /\ ctx' = [ctx EXCEPT ![h] = w.c]
                   /\ refused' = refused \cup {ctx[h].rt}
                   /\ ret' = "UNDEFINED_BEHAVIOR"
              ELSE ctx' = Without(h) /\ ret' = "NONE" /\ UNCHANGED refused
    /\ UNCHANGED fault

Joined(R, p, c) == [R EXCEPT ![c].parent = p]

\* applications join sessions of one implementation only
MFXJoinSession(p, h) ==
    /\ Calling /\ p \in DOMAIN ctx /\ h \in DOMAIN ctx
    /\ ctx[p].lib = ctx[h].lib
    /\ IF /\ ctx[p].ver = ctx[h].ver /\ ctx[p].table # NoFile
          /\ CanJoin(rts, ctx[p].rt, ctx[h].rt)
       THEN rts' = Joined(rts, ctx[p].rt, ctx[h].rt) /\ ret' = "NONE"
       ELSE ret' = "ERROR" /\ UNCHANGED rts
    /\ UNCHANGED <<ctx, refused, fault>>

MFXDisjoinSession(h) ==
    /\ Calling /\ h \in DOMAIN ctx
    /\ IF ctx[h].table # NoFile /\ rts[ctx[h].rt].parent # NoSession
       THEN rts' = Joined(rts, NoSession, ctx[h].rt) /\ ret' = "NONE"
       ELSE ret' = "ERROR" /\ UNCHANGED rts
    /\ UNCHANGED <<ctx, refused, fault>>

\* mutant: a clone that cannot be joined is not closed
CloneLegacyUnclosed(p, h, accept, answer) ==
    LET v == ctx[p].ver
        w == SearchLibs(ctx[p].impl, Request(v, FALSE, accept, answer))
    IN  IF ~w.ok THEN w
        ELSE IF w.c.ver = v /\ CanJoin(w.rts, ctx[p].rt, w.c.rt)
        THEN [w EXCEPT !.rts = Joined(@, ctx[p].rt, w.c.rt)]
        ELSE [w EXCEPT !.ok = FALSE]

\* MFXCloneSession of a 1.x runtime: MFXInit, then MFXJoinSession
CloneLegacy(p, h, accept, answer) ==
    LET v == ctx[p].ver
        w == SearchLibs(ctx[p].impl, Request(v, FALSE, accept, answer))
    IN  IF ~w.ok THEN w
        ELSE IF w.c.ver = v /\ CanJoin(w.rts, ctx[p].rt, w.c.rt)
        THEN [w EXCEPT !.rts = Joined(@, ctx[p].rt, w.c.rt)]
        ELSE [Close(w) EXCEPT !.ok = FALSE]

\* MFXCloneSession of a 2.x runtime: a context for the same library, whose
\* session the runtime makes; parent: the session the runtime joins it to
CloneModern(p, parent, accept, answer) ==
    LET file == ctx[p].path
        w == LoadLib(file, Request(0, TRUE, accept, answer))
        s == NewSession(rts)
        c == [w.c EXCEPT !.rt = s, !.ver = ApiVer[file]]
        cloned == [w EXCEPT !.c = c, !.rts = Opened(@, s, file, parent)]
    IN  IF ctx[p].lib \notin accept THEN [w EXCEPT !.ok = FALSE]
        ELSE IF file \in answer THEN cloned ELSE [Close(cloned) EXCEPT !.ok = FALSE]

MFXCloneSessionLegacy(p, h, accept, answer) ==
    /\ Calling /\ p \in DOMAIN ctx /\ FreeHandle(h)
    /\ Legacy(ctx[p].ver)
    /\ Return(h, CloneLegacy(p, h, accept, answer))
    /\ UNCHANGED <<refused, fault>>

\* a session that was not created for a library by name has no path: dlopen of
\* the empty name is the program itself, and the functions found there are the
\* dispatcher's own
MFXCloneSessionModern(p, h, accept, answer, join) ==
    /\ Calling /\ p \in DOMAIN ctx /\ FreeHandle(h)
    /\ Modern(ctx[p].ver)
    /\ join => rts[ctx[p].rt].parent = NoSession
    /\ IF ctx[p].path = NoFile /\ ctx[p].lib \in accept
       THEN fault' = TRUE /\ UNCHANGED <<ctx, rts, ret>>
       ELSE /\ IF ctx[p].path = NoFile THEN ret' = "ERROR" /\ UNCHANGED <<ctx, rts>>
               ELSE Return(h, CloneModern(p, IF join THEN ctx[p].rt ELSE NoSession, accept, answer))
            /\ UNCHANGED fault
    /\ UNCHANGED refused

\* a context whose close was refused has version 0
MFXCloneSessionUnsupported(p) ==
    /\ Calling /\ p \in DOMAIN ctx /\ ctx[p].ver < 1000
    /\ ret' = "ERROR"
    /\ UNCHANGED <<ctx, rts, refused, fault>>

Next ==
    \/ \E h \in Handle, t \in ImplType, v \in Version, accept, answer \in Working :
            MFXInitEx(h, t, v, accept, answer)
    \/ \E h \in Handle, f \in File, v \in Version, accept, answer \in Working :
            MFXInitEx2(h, f, v, accept, answer)
    \/ \E h \in Handle : MFXClose(h)
    \/ \E p, h \in Handle : MFXJoinSession(p, h)
    \/ \E h \in Handle : MFXDisjoinSession(h)
    \/ \E p, h \in Handle, accept, answer \in Working : MFXCloneSessionLegacy(p, h, accept, answer)
    \/ \E p, h \in Handle, accept, answer \in Working, join \in BOOLEAN :
            MFXCloneSessionModern(p, h, accept, answer, join)
    \/ \E p \in Handle : MFXCloneSessionUnsupported(p)

Spec == Init /\ [][Next]_vars

-----------------------------------------------------------------------------
(* Properties                                                              *)

Ctx == [lib : File \cup {NoFile}, rt : Nat, ver : Nat, impl : Nat,
        table : File \cup {NoFile}, table2 : File \cup {NoFile}, path : File \cup {NoFile}]

\* Contexts, runtime sessions and status keep their types.
TypeOK ==
    /\ DOMAIN ctx \subseteq Handle
    /\ \A h \in DOMAIN ctx : ctx[h] \in Ctx
    /\ DOMAIN rts \subseteq Nat \ {0}
    /\ IsFiniteSet(DOMAIN rts)
    /\ \A s \in DOMAIN rts : rts[s] \in [file : File, parent : Nat]
    /\ refused \subseteq DOMAIN rts
    /\ fault \in BOOLEAN
    /\ ret \in {"NONE", "ERROR", "UNDEFINED_BEHAVIOR"}

Owners(s) == {h \in DOMAIN ctx : ctx[h].rt = s}

\* No call loses or shares a runtime's session: every one is held by exactly
\* one handle, unless the runtime refused to close it, however many attempts
\* LoaderCtx::Init makes and wherever cloning fails; and no handle holds a
\* session that is gone.
SessionsOwned ==
    /\ TypeOK
    /\ \A s \in DOMAIN rts \ refused : \E h \in Handle : Owners(s) = {h}
    /\ \A h \in DOMAIN ctx : ctx[h].rt # NoSession => ctx[h].rt \in DOMAIN rts \ refused

\* The functions called for a session, and the library kept open for it, are
\* those of the runtime that made it, also after attempts with other libraries.
OneLibrary ==
    \A h \in DOMAIN ctx :
        /\ ctx[h].rt # NoSession =>
             /\ ctx[h].lib = rts[ctx[h].rt].file
             /\ ctx[h].table = ctx[h].lib
        /\ ctx[h].table2 \in {NoFile, ctx[h].lib}

\* A call that fails leaves no handle and no runtime session behind, whichever
\* of its steps failed.
FailedCallsLeaveNothing ==
    [][ret' = "ERROR" => ctx' = ctx /\ rts' = rts]_vars

\* the first library of the search order that takes the request
Takes(type, r, place) ==
    /\ Candidate(type, place) # NoFile
    /\ LET f == Candidate(type, place)
       IN  f \in r.accept \cap r.answer /\ MissingFrom[f] > r.ver /\ Reports(f, r.ver) >= r.ver
SearchOrder == <<"vplhw", "vplhw_dir", "msdk", "msdk_dir", "vplsw", "vplsw_dir">>
FirstTaking(type, r) ==
    LET places == {k \in DOMAIN SearchOrder : Takes(type, r, SearchOrder[k])}
    IN  IF places = {} THEN NoFile
        ELSE Candidate(type, SearchOrder[CHOOSE k \in places : \A j \in places : k <= j])

\* Whatever earlier attempts did, LoaderCtx::Init ends with the first library
\* that exports the functions of the requested version, accepts a session and
\* reports a version that is not lower, and fails only if there is none.
FindsFirst ==
    \A t \in ImplType, v \in Version, accept, answer \in Working :
        LET r == Request(v, FALSE, accept, answer)
        IN  SearchLibs(t, r).c.lib = FirstTaking(t, r)
=============================================================================
