------------------------- MODULE SessionClasses -------------------------
(* The C++ classes over the C API (mfxvideo++.h, its legacy preview and the copy
   of the Windows dispatcher): MFXVideoSession owns a session, the component
   classes keep a copy of its handle and close their component when they are
   destroyed.  Built with MFXVIDEO_CPP_ENABLE_MFXLOAD, a session object owns a
   loader too.

   The objects of a program are automatic: `stack` holds them in the order of
   construction, and the last one is destroyed first.  Handle 0 is the null one. *)
EXTENDS Integers, SequencesExt

CONSTANTS Implementation, \* the implementations, in the order of their priority:
                          \* [type, id, accel (set of modes), api (10 * major + minor)]
          Request,        \* what Init is asked for: [base, via, version, threads]
          Component,      \* the component classes: encode, decode, vpp, decode_vpp
          MaxSessions,    \* bound: sessions that a program creates
          MaxObjects      \* bound: objects at one time

\* The first version of the API is 1.0.
Runtimes == [type : {"hardware", "software"}, id : Nat, api : Nat \ (0..9),
             accel : SUBSET {"D3D9", "D3D11", "VAAPI"}]

ASSUME ClassesAssumption ==
    /\ Implementation \in Seq(Runtimes)
    /\ Component \subseteq {"encode", "decode", "vpp", "decode_vpp"}
    /\ MaxSessions \in Nat /\ MaxObjects \in Nat

VARIABLES build,     \* the build of the classes: "mfxload" or "direct"
          windows,   \* the dispatcher of Windows or the one of Linux
          stack,     \* the objects that exist
          sessions,  \* every session handle ever created
          loaders,   \* every loader ever created
          raw,       \* the handles the program itself holds (clones)
          early,     \* the program closed a session before its component objects
          dangling   \* a call was given a handle that no longer exists
vars == <<build, windows, stack, sessions, loaders, raw, early, dangling>>

\* The objects: a component is on since its Init until its Close; twin: another
\* object of its class was given its handle.
SessionObject == [class |-> "session", session |-> 0, loader |-> 0, on |-> FALSE, twin |-> FALSE]
ComponentObject(c, h, t) ==
    [class |-> c, session |-> h, loader |-> 0, on |-> FALSE, twin |-> t]
IsSession(i) == i \in DOMAIN stack /\ stack[i].class = "session"
IsComponent(i) == i \in DOMAIN stack /\ stack[i].class \in Component

\* A session; lost: why no object holds it; components: those initialised.
NewSession(k, l, p) ==
    [open |-> TRUE, impl |-> k, loader |-> l, parent |-> p,
     lost |-> "no", components |-> {}]

------------------------------------------------------------------------------
(* The C API on a handle. *)

\* Which API version brought the functions of a component.
Since(c) == IF c = "decode_vpp" THEN 21 ELSE 10

\* A pass-through function: the null handle and a missing function are refused, a
\* handle that was freed is read all the same.
PassThrough(h, since) ==
    IF h = 0 THEN "invalid"
    ELSE IF ~sessions[h].open THEN "freed"
    ELSE IF Implementation[sessions[h].impl].api < since THEN "invalid" ELSE "runtime"

\* MFXClose: the runtime refuses to close the parent of a session.
HasChild(h) == \E c \in DOMAIN sessions : sessions[c].open /\ sessions[c].parent = h
MFXClose(h) ==
    IF PassThrough(h, 10) # "runtime" THEN sessions
    ELSE IF HasChild(h) THEN [sessions EXCEPT ![h].lost = "refused"]
    ELSE [sessions EXCEPT ![h].open = FALSE, ![h].components = {}]

\* MFXUnload
Unload(l) == IF l = 0 THEN loaders ELSE [loaders EXCEPT ![l] = "unloaded"]

\* Which implementations meet the filters that InitSession sets: the type and
\* the adapter that the base type names, the acceleration mode, the version.
Adapter(base) ==
    CASE base = "HARDWARE" -> {0} [] base = "HARDWARE2" -> {1}
      [] base = "HARDWARE3" -> {2} [] base = "HARDWARE4" -> {3} [] OTHER -> {}
Hardware == {"HARDWARE", "HARDWARE_ANY", "HARDWARE2", "HARDWARE3", "HARDWARE4"}
Filters(r) ==
    {k \in DOMAIN Implementation :
        LET i == Implementation[k]
        IN  /\ r.base = "SOFTWARE" => i.type = "software"
            /\ r.base \in Hardware => i.type = "hardware"
            /\ Adapter(r.base) # {} => i.id \in Adapter(r.base)
            /\ r.via \in {"D3D9", "D3D11", "VAAPI"} => r.via \in i.accel
            /\ i.api >= r.version}
Unsupported(r) == r.threads \/ r.base \notin Hardware \cup {"AUTO", "AUTO_ANY", "SOFTWARE"}

------------------------------------------------------------------------------
(* Constructors, Init and Close. *)

Init ==
    /\ build \in {"mfxload", "direct"} /\ windows \in BOOLEAN
    /\ build = "mfxload" => ~windows   \* it makes a difference in the direct build only
    /\ stack = <<>> /\ sessions = <<>> /\ loaders = <<>>
    /\ raw = {} /\ early = FALSE /\ dangling = FALSE

ConstructSession ==
    /\ Len(stack) < MaxObjects
    /\ stack' = Append(stack, SessionObject)
    /\ UNCHANGED <<build, windows, sessions, loaders, raw, early, dangling>>

\* A component object is given whatever handle the session object has now.
ConstructComponent(c, h) ==
    /\ Len(stack) < MaxObjects
    /\ h \in raw \cup {stack[i].session : i \in {j \in DOMAIN stack : IsSession(j)}}
    /\ LET twins == {i \in DOMAIN stack : stack[i].class = c /\ stack[i].session = h}
       IN  stack' = Append([i \in DOMAIN stack |-> [stack[i] EXCEPT !.twin = @ \/ i \in twins]],
                           ComponentObject(c, h, twins # {}))
    /\ UNCHANGED <<build, windows, sessions, loaders, raw, early, dangling>>

\* A loader, its filters, and a session of the first implementation that meets
\* them; a loader that leads to none stays with the object.
CreateSession(i, r, works) ==
    LET ks == Filters(r)
        made == works /\ ~Unsupported(r) /\ ks # {}
        l == Len(loaders) + 1
    IN  /\ loaders' = Append(loaders, IF made THEN "loaded" ELSE "failed")
        /\ sessions' = IF made THEN Append(sessions, NewSession(Min(ks), l, 0)) ELSE sessions
        /\ stack' = [stack EXCEPT ![i].loader = l,
                                  ![i].session = IF made THEN Len(sessions) + 1 ELSE @]
        /\ UNCHANGED <<build, windows, raw, early, dangling>>

\* As if an object could be initialised again.
InitSessionAgain(i, r, works) ==
    build = "mfxload" /\ IsSession(i) /\ CreateSession(i, r, works)

\* As if Init on an object with a session closed that session.
InitSessionAfresh(i, r, works) ==
    /\ build = "mfxload" /\ IsSession(i)
    /\ IF stack[i].session = 0 THEN CreateSession(i, r, works)
       ELSE /\ sessions' = MFXClose(stack[i].session)
            /\ loaders' = Unload(stack[i].loader)
            /\ stack' = [stack EXCEPT ![i].session = 0, ![i].loader = 0]
            /\ UNCHANGED <<build, windows, raw, early, dangling>>

\* InitSession: nothing for an object that has a session; the loader of a failed
\* Init is replaced.
InitSession(i, r, works) ==
    /\ build = "mfxload" /\ IsSession(i) /\ stack[i].session = 0
    /\ CreateSession(i, r, works)

\* Init and InitEx of the other build: MFXInitEx replaces the handle, on Windows
\* also when it fails after its first checks.  k: the implementation it finds.
DirectInit(i, k, valid) ==
    LET old == stack[i].session
        reset == k # 0 \/ (windows /\ valid)
        S == IF reset /\ old # 0 THEN [sessions EXCEPT ![old].lost = "replaced"] ELSE sessions
    IN  /\ build = "direct" /\ IsSession(i) /\ (k # 0 => valid)
        /\ sessions' = IF k # 0 THEN Append(S, NewSession(k, 0, 0)) ELSE S
        /\ stack' = [stack EXCEPT ![i].session = IF k # 0 THEN Len(S) + 1
                                                 ELSE IF reset THEN 0 ELSE @]
        /\ UNCHANGED <<build, windows, loaders, raw, early, dangling>>

\* As if a refused MFXClose kept the loader.
SessionCloseKeepsLoader(o) ==
    /\ sessions' = MFXClose(o.session)
    /\ loaders' = IF build = "mfxload" /\ o.session # 0 /\ ~HasChild(o.session)
                  THEN Unload(o.loader) ELSE loaders
    /\ dangling' = (dangling \/ PassThrough(o.session, 10) = "freed")

\* MFXVideoSession::Close; with a loader, an object without session does nothing.
SessionClose(o) ==
    /\ sessions' = MFXClose(o.session)
    /\ loaders' = IF build = "mfxload" /\ o.session # 0 THEN Unload(o.loader) ELSE loaders
    /\ dangling' = (dangling \/ PassThrough(o.session, 10) = "freed")

\* As if every component class closed the encoder.
Closes(o, to) == [sessions EXCEPT ![o.session].components = @ \ {to}]
ComponentCloseEncoder(o) ==
    LET p == PassThrough(o.session, Since(o.class))
    IN  /\ sessions' = IF p = "runtime" THEN Closes(o, "encode") ELSE sessions
        /\ dangling' = (dangling \/ p = "freed")

\* Close of a component class: by the handle, whoever initialised the component.
ComponentClose(o) ==
    LET p == PassThrough(o.session, Since(o.class))
    IN  /\ sessions' = IF p = "runtime" THEN Closes(o, o.class) ELSE sessions
        /\ dangling' = (dangling \/ p = "freed")

CloseSession(i) ==
    /\ IsSession(i)
    /\ SessionClose(stack[i])
    /\ stack' = [stack EXCEPT ![i].session = 0,
                              ![i].loader = IF stack[i].session # 0 THEN 0 ELSE @]
    /\ early' = (early \/ \E j \in DOMAIN stack : /\ IsComponent(j) /\ stack[i].session # 0
                                                  /\ stack[j].session = stack[i].session)
    /\ UNCHANGED <<build, windows, raw>>

\* Init of a component class; a component that is initialised is not again.
InitComponent(i) ==
    LET h == stack[i].session
        p == PassThrough(h, Since(stack[i].class))
        fresh == p = "runtime" /\ stack[i].class \notin sessions[h].components
    IN  /\ IsComponent(i)
        /\ stack' = [stack EXCEPT ![i].on = @ \/ fresh]
        /\ sessions' = IF fresh
                       THEN [sessions EXCEPT ![h].components = @ \cup {stack[i].class}]
                       ELSE sessions
        /\ dangling' = (dangling \/ p = "freed")
        /\ UNCHANGED <<build, windows, loaders, raw, early>>

CloseComponent(i) ==
    /\ IsComponent(i) /\ ComponentClose(stack[i])
    /\ stack' = [stack EXCEPT ![i].on = FALSE]
    /\ UNCHANGED <<build, windows, loaders, raw, early>>

\* The other calls of the classes change nothing of the dispatcher; a call on a
\* handle that was freed is the same mistake.
Call(i) ==
    /\ dangling' = (dangling \/ PassThrough(stack[i].session, Since(stack[i].class)) = "freed")
    /\ UNCHANGED <<build, windows, stack, sessions, loaders, raw, early>>

\* The destructor of the last object
DestroyLast ==
    /\ stack # <<>>
    /\ LET o == stack[Len(stack)]
       IN  IF o.class = "session" THEN SessionClose(o)
           ELSE ComponentClose(o) /\ UNCHANGED loaders
    /\ stack' = SubSeq(stack, 1, Len(stack) - 1)
    /\ UNCHANGED <<build, windows, raw, early>>

------------------------------------------------------------------------------
(* Joined sessions and clones: the object does not own the clone. *)

JoinSession(i, c) ==
    LET p == stack[i].session
    IN  /\ IsSession(i) /\ PassThrough(p, 11) = "runtime" /\ PassThrough(c, 11) = "runtime"
        /\ p # c /\ (c \in raw \/ \E j \in DOMAIN stack : IsSession(j) /\ stack[j].session = c)
        /\ sessions[c].parent = 0 /\ sessions[p].parent = 0 /\ ~HasChild(c)
        /\ Implementation[sessions[p].impl].api = Implementation[sessions[c].impl].api
        /\ sessions' = [sessions EXCEPT ![c].parent = p]
        /\ UNCHANGED <<build, windows, stack, loaders, raw, early, dangling>>

DisjoinSession(i) ==
    /\ IsSession(i) /\ PassThrough(stack[i].session, 11) = "runtime"
    /\ sessions[stack[i].session].parent # 0
    /\ sessions' = [sessions EXCEPT ![stack[i].session].parent = 0]
    /\ UNCHANGED <<build, windows, stack, loaders, raw, early, dangling>>

\* A clone of a 1.x session is joined to it.
CloneSession(i) ==
    LET s == sessions[stack[i].session]
    IN  /\ IsSession(i) /\ PassThrough(stack[i].session, 10) = "runtime"
        /\ sessions' = Append(sessions,
               NewSession(s.impl, 0,
                          IF Implementation[s.impl].api < 20 THEN stack[i].session ELSE 0))
        /\ raw' = raw \cup {Len(sessions) + 1}
        /\ UNCHANGED <<build, windows, stack, loaders, early, dangling>>

CloseRaw(h) ==
    /\ h \in raw
    /\ sessions' = MFXClose(h) /\ raw' = raw \ {h}
    /\ early' = (early \/ \E j \in DOMAIN stack : IsComponent(j) /\ stack[j].session = h)
    /\ UNCHANGED <<build, windows, stack, loaders, dangling>>

Room == Len(sessions) < MaxSessions /\ Len(loaders) < MaxSessions

Next ==
    \/ ConstructSession \/ DestroyLast
    \/ \E c \in Component, h \in 0..Len(sessions) : ConstructComponent(c, h)
    \/ \E i \in DOMAIN stack :
          \/ \E r \in Request, w \in BOOLEAN : Room /\ InitSession(i, r, w)
          \/ \E k \in 0..Len(Implementation), v \in BOOLEAN : Room /\ DirectInit(i, k, v)
          \/ \E c \in DOMAIN sessions : JoinSession(i, c)
          \/ CloseSession(i) \/ InitComponent(i) \/ CloseComponent(i) \/ Call(i)
          \/ DisjoinSession(i) \/ (Room /\ CloneSession(i))
    \/ \E h \in raw : CloseRaw(h)

Spec == Init /\ [][Next]_vars

------------------------------------------------------------------------------

\* Every variable keeps its type.
ClassesTypeOK ==
    /\ build \in {"mfxload", "direct"} /\ windows \in BOOLEAN
    /\ Len(stack) <= MaxObjects
    /\ \A i \in DOMAIN stack : /\ stack[i].class \in Component \cup {"session"}
                               /\ stack[i].session \in 0..Len(sessions)
                               /\ stack[i].loader \in 0..Len(loaders)
    /\ \A h \in DOMAIN sessions : /\ sessions[h].impl \in DOMAIN Implementation
                                  /\ sessions[h].loader \in 0..Len(loaders)
                                  /\ sessions[h].components \subseteq Component
    /\ raw \subseteq DOMAIN sessions

\* No session is lost: an open one is held by one object or by the program itself,
\* unless MFXClose was refused because of a joined session, or (in the build
\* without a loader only) Init was called on an object that had it.
SessionsHeld ==
    ClassesTypeOK /\ \A h \in DOMAIN sessions : sessions[h].open =>
        LET holders == {i \in DOMAIN stack : IsSession(i) /\ stack[i].session = h}
        IN  /\ \/ Cardinality(holders) = 1 /\ h \notin raw /\ sessions[h].lost = "no"
               \/ holders = {} /\ (h \in raw \/ sessions[h].lost # "no")
            /\ build = "mfxload" => sessions[h].lost # "replaced"

\* A loader that led to a session is unloaded once its object has let go of it,
\* however that session was closed.  (One that led to none stays loaded: Close
\* looks at the session first.)
LoadersHeld ==
    \A l \in DOMAIN loaders : loaders[l] = "loaded" =>
        Cardinality({i \in DOMAIN stack : stack[i].loader = l /\ stack[i].session # 0}) = 1

\* Destructors never use a session that no longer exists, as long as the program
\* does not itself close a session before the component objects made from it.
DanglesOnlyIfClosedEarly == dangling => early

\* A component stays initialised until the object that initialised it closes it or
\* the session goes, if no other object of the class was given the same handle.
ComponentsKept ==
    \A i \in DOMAIN stack :
        IsComponent(i) /\ stack[i].on /\ ~stack[i].twin /\ sessions[stack[i].session].open
            => stack[i].class \in sessions[stack[i].session].components
==========================================================================
