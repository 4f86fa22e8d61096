--------------------------- MODULE Windows_proofs ---------------------------
(***************************************************************************)
(* Windows: libraries are loaded exactly while handles hold them, and      *)
(* MFXInitEx returns the best library there is, for any installation, any  *)
(* runtimes, any number of sessions and of failures.                       *)
(***************************************************************************)
EXTENDS Windows, FiniteSetTheorems, WellFoundedInduction, TLAPS

-----------------------------------------------------------------------------
(* The inductive invariant                                                 *)

Impl == {Types[t].impl : t \in DOMAIN Types}
Version == {0, V(2, 9)} \cup {Runtime[l].api : l \in Lib}
Req == Versions \cup {0} \cup {Runtime[l].api : l \in Lib}
Object ==
    [module : Lib \cup {None}, session : Session \cup {None}, table : Lib \cup {None}, type : {"hw", "sw"},
     impl : Impl, status : {"NOT_FOUND", "NONE", "ERROR", "UNSUPPORTED", "PARTIAL_ACCELERATION"},
     version : Version, req : Req, media : Media,
     owner : {"free", "call", "candidate", "app"}]

\* The parts of a world: what its handles and sessions are,
Typed(w) ==
    /\ w.h \in [Handle -> Object]
    /\ DOMAIN w.rt \subseteq Session
    /\ \A s \in DOMAIN w.rt : w.rt[s] \in [lib : Lib, parent : Session \cup {None}]

\* that libraries are loaded as often as they are held,
Holding(w, l) == {h \in Handle : w.h[h].module = l}
Counted(w) == w.refs = [l \in Lib |-> Cardinality(Holding(w, l))]

\* that functions and session are the library's,
Matched(w) ==
    \A h \in Handle : /\ w.h[h].table \in {None, w.h[h].module}
                      /\ w.h[h].session # None => /\ w.h[h].session \in DOMAIN w.rt
                                                  /\ w.rt[w.h[h].session].lib = w.h[h].module

\* that every session has its handle, and none has two,
Held(w) ==
    /\ \A s \in DOMAIN w.rt : \E h \in Handle : w.h[h].session = s
    /\ \A g, h \in Handle : w.h[g].session = w.h[h].session /\ w.h[g].session # None => g = h

\* that a free handle holds nothing, and that a parent is the application's.
FreeHoldsNothing(w) ==
    \A h \in Handle : w.h[h].owner = "free" =>
        w.h[h].module = None /\ w.h[h].session = None /\ w.h[h].table = None
ParentsAreApp(w) ==
    \A s \in DOMAIN w.rt : w.rt[s].parent # None =>
        \E h \in Handle : w.h[h].owner = "app" /\ w.h[h].session = w.rt[s].parent

IsWorld(w) == w = [h |-> w.h, refs |-> w.refs, rt |-> w.rt]
WorldOK(w) ==
    /\ IsWorld(w)
    /\ Typed(w) /\ Counted(w) /\ Matched(w) /\ Held(w) /\ FreeHoldsNothing(w) /\ ParentsAreApp(w)

\* Where a search is
PlaceOK(method, p) ==
    /\ p.phase \in 1..3
    /\ p.t \in implTypesRange[method][1] .. implTypesRange[method][2]
    /\ p.s \in 1 .. Len(Storages[p.phase])

PlaceType == [phase : 1..4, t : Int, s : Int]
LastType == [index : Int, merit : Int]
CallType ==
    [pc : {"idle", "search", "choose", "join"}, method : DOMAIN implTypesRange, place : PlaceType,
     last : LastType, current : Handle \cup {None}, candidates : Seq(Handle),
     clones : Handle \cup {None}, faulted : BOOLEAN]
CallOK == call \in CallType

\* The handles of the running call: one it works with, and one for each search
\* that ended well.  There is room for them beside those of the application.
Searching ==
    /\ call.current \in Handle /\ handles[call.current].owner = "call"
    /\ \A h \in Handle : handles[h].owner = "call" => h = call.current
    /\ \A h \in Handle : handles[h].owner = "candidate" <=> h \in Candidates
    /\ \A h \in Candidates : handles[h].module \in Lib
    /\ Len(call.candidates) < call.place.phase
    /\ call.pc = "search" => PlaceOK(call.method, call.place)
    /\ Cardinality(App) < MaxSessions

Resting ==
    /\ \A h \in Handle : handles[h].owner \in {"free", "app"}
    /\ call.candidates = <<>>
    /\ call.pc = "join" => call.current \in Handle /\ call.clones \in Handle

IInv ==
    /\ inst \in Installations /\ faults \in 0..MaxFaults
    /\ WorldOK(World)
    /\ CallOK
    /\ IF call.pc \in {"search", "choose"} THEN Searching ELSE Resting

-----------------------------------------------------------------------------
(* Handles and what is held by them                                        *)

LEMMA Handles ==
    /\ IsFiniteSet(Handle) /\ Cardinality(Handle) = MaxSessions + 4
    /\ \A S : S \subseteq Handle => IsFiniteSet(S) /\ Cardinality(S) \in Nat
<1>1. MaxSessions \in Nat
    BY WindowsAssumption
<1>2. IsFiniteSet(Handle) /\ Cardinality(Handle) = MaxSessions + 4
    BY <1>1, FS_Interval DEF Handle
<1>3. ASSUME NEW S, S \subseteq Handle
      PROVE  IsFiniteSet(S) /\ Cardinality(S) \in Nat
    BY <1>2, <1>3, FS_Subset, FS_CardinalityType
<1> QED
    BY <1>2, <1>3

LEMMA NoneIsNone == None \notin Lib /\ None \notin Session /\ None \notin Nat
<1>1. Session \subseteq Nat
    BY WindowsAssumption DEF Session, Handle
<1> QED
    BY <1>1, WindowsAssumption

\* A set of numbers has a lowest one.
LEMMA LowestNumber ==
    ASSUME NEW S, S \subseteq Nat, S # {}
    PROVE  Lowest(S) \in S /\ \A j \in S : Lowest(S) <= j
<1> DEFINE Less == OpToRel(<, Nat)
<1>1. \A i, j \in Nat : i < j => <<i, j>> \in Less
    BY DEF OpToRel
<1>2. IsWellFoundedOn(Less, Nat)
    BY NatLessThanWellFounded
<1> HIDE DEF Less
<1>3. PICK i \in S : \A j \in S : ~(<<j, i>> \in Less)
    BY <1>2, WFMin
<1>4. ASSUME NEW j \in S
      PROVE  i <= j
    <2>1. i \in Nat /\ j \in Nat
        OBVIOUS
    <2>2. ~(j < i)
        BY <2>1, <1>1, <1>3
    <2> QED
        BY <2>1, <2>2
<1> QED
    BY <1>3, <1>4 DEF Lowest

LEMMA LowestHandle ==
    ASSUME NEW S, S \subseteq Handle, S # {}
    PROVE  Lowest(S) \in S
<1>1. S \subseteq Nat
    BY WindowsAssumption DEF Handle
<1> QED
    BY <1>1, LowestNumber

\* What one handle adds to the count of a library.
One(held) == IF held THEN 1 ELSE 0

LEMMA OneHandleCounts ==
    ASSUME NEW w, NEW u, NEW h \in Handle, NEW l,
           \A g \in Handle \ {h} : u.h[g].module = w.h[g].module
    PROVE  Cardinality(Holding(u, l))
             = Cardinality(Holding(w, l)) - One(w.h[h].module = l) + One(u.h[h].module = l)
<1> DEFINE others == {g \in Handle \ {h} : w.h[g].module = l}
<1>1. IsFiniteSet(others) /\ Cardinality(others) \in Nat /\ h \notin others
    BY Handles
<1>2. Cardinality(Holding(w, l)) = Cardinality(others) + One(w.h[h].module = l)
    <2>1. CASE w.h[h].module = l
        <3>1. Holding(w, l) = others \cup {h}
            BY <2>1 DEF Holding
        <3> HIDE DEF others
        <3> QED
            BY <3>1, <2>1, <1>1, FS_AddElement DEF One
    <2>2. CASE w.h[h].module # l
        <3>1. Holding(w, l) = others
            BY <2>2 DEF Holding
        <3> HIDE DEF others
        <3> QED
            BY <3>1, <2>2, <1>1 DEF One
    <2> QED
        BY <2>1, <2>2
<1>3. Cardinality(Holding(u, l)) = Cardinality(others) + One(u.h[h].module = l)
    <2>1. CASE u.h[h].module = l
        <3>1. Holding(u, l) = others \cup {h}
            BY <2>1 DEF Holding
        <3> HIDE DEF others
        <3> QED
            BY <3>1, <2>1, <1>1, FS_AddElement DEF One
    <2>2. CASE u.h[h].module # l
        <3>1. Holding(u, l) = others
            BY <2>2 DEF Holding
        <3> HIDE DEF others
        <3> QED
            BY <3>1, <2>2, <1>1 DEF One
    <2> QED
        BY <2>1, <2>2
<1> HIDE DEF others
<1> QED
    BY <1>1, <1>2, <1>3 DEF One

\* The world u is the world w but for the handle h, which is r in u.
Differs(w, u, h, r) ==
    /\ IsWorld(u)
    /\ u.h = [w.h EXCEPT ![h] = r]
    /\ u.refs = [l \in Lib |-> w.refs[l] - One(w.h[h].module = l) + One(r.module = l)]

LEMMA DiffersCounts ==
    ASSUME NEW w, NEW u, NEW h \in Handle, NEW r, Typed(w), Counted(w), Differs(w, u, h, r)
    PROVE  Counted(u)
<1>1. /\ \A g \in Handle \ {h} : u.h[g].module = w.h[g].module
      /\ u.h[h] = r
    BY DEF Typed, Differs
<1>2. ASSUME NEW l \in Lib
      PROVE  w.refs[l] - One(w.h[h].module = l) + One(r.module = l) = Cardinality(Holding(u, l))
    <2>1. w.refs[l] = Cardinality(Holding(w, l))
        BY DEF Counted
    <2> QED
        BY <1>1, <2>1, OneHandleCounts
<1> QED
    BY <1>2 DEF Counted, Differs

\* A handle that keeps its session: it is not taken from the application, and its
\* library stays if it has a session.
LEMMA KeepsSession ==
    ASSUME NEW w, NEW u, NEW h \in Handle, NEW r \in Object, WorldOK(w), Differs(w, u, h, r),
           u.rt = w.rt, r.session = w.h[h].session, r.table \in {None, r.module},
           r.session # None => r.module = w.h[h].module,
           w.h[h].owner = "app" => r.owner = "app",
           r.owner = "free" => r.module = None /\ r.session = None
    PROVE  WorldOK(u)
<1>1. /\ \A g \in Handle \ {h} : u.h[g] = w.h[g]
      /\ u.h[h] = r
      /\ u.h \in [Handle -> Object]
    BY DEF WorldOK, Typed, Differs
<1>2. Typed(u)
    BY <1>1 DEF WorldOK, Typed
<1>3. Counted(u)
    BY DiffersCounts DEF WorldOK
<1>4. Matched(u)
    BY <1>1 DEF WorldOK, Matched
<1>5. Held(u)
    BY <1>1 DEF WorldOK, Held
<1>6. FreeHoldsNothing(u)
    BY <1>1 DEF WorldOK, FreeHoldsNothing
<1>7. ParentsAreApp(u)
    BY <1>1 DEF WorldOK, ParentsAreApp
<1> QED
    BY <1>2, <1>3, <1>4, <1>5, <1>6, <1>7 DEF WorldOK, Differs

\* A handle that loses its session, which is nobody's parent
LEMMA DropsSession ==
    ASSUME NEW w, NEW u, NEW h \in Handle, NEW r \in Object, WorldOK(w), Differs(w, u, h, r),
           ~Refuses(w, h), u.rt = Without(w.rt, w.h[h].session), r.session = None,
           r.table \in {None, r.module},
           r.owner = "free" => r.module = None
    PROVE  WorldOK(u)
<1>1. /\ \A g \in Handle \ {h} : u.h[g] = w.h[g]
      /\ u.h[h] = r
      /\ u.h \in [Handle -> Object]
    BY DEF WorldOK, Typed, Differs
<1>2. /\ DOMAIN u.rt = DOMAIN w.rt \ {w.h[h].session}
      /\ \A s \in DOMAIN u.rt : u.rt[s] = w.rt[s]
    BY DEF Without
<1>3. \A g \in Handle \ {h} : w.h[g].session # None => w.h[g].session # w.h[h].session
    BY DEF WorldOK, Held
<1>4. \A s \in DOMAIN w.rt : w.rt[s].parent # None => w.rt[s].parent # w.h[h].session
    BY DEF Refuses
<1>5. Typed(u)
    BY <1>1, <1>2 DEF WorldOK, Typed
<1>6. Counted(u)
    BY DiffersCounts DEF WorldOK
<1>7. Matched(u)
    BY <1>1, <1>2, <1>3 DEF WorldOK, Matched
<1>8. Held(u)
    BY <1>1, <1>2 DEF WorldOK, Held
<1>9. FreeHoldsNothing(u)
    BY <1>1 DEF WorldOK, FreeHoldsNothing
<1>10. ParentsAreApp(u)
    BY <1>1, <1>2, <1>4 DEF WorldOK, ParentsAreApp
<1> QED
    BY <1>5, <1>6, <1>7, <1>8, <1>9, <1>10 DEF WorldOK, Differs

\* A handle without a session that is given a new one
LEMMA OpensSession ==
    ASSUME NEW w, NEW u, NEW h \in Handle, NEW r \in Object, NEW s \in Session, NEW lib \in Lib,
           WorldOK(w), Differs(w, u, h, r),
           w.h[h].session = None, s \notin DOMAIN w.rt, u.rt = With(w.rt, s, lib),
           r.session = s, r.module = lib, r.table \in {None, lib}, r.owner # "free"
    PROVE  WorldOK(u)
<1>1. /\ \A g \in Handle \ {h} : u.h[g] = w.h[g]
      /\ u.h[h] = r
      /\ u.h \in [Handle -> Object]
    BY DEF WorldOK, Typed, Differs
<1>2. /\ DOMAIN u.rt = DOMAIN w.rt \cup {s}
      /\ u.rt[s] = [lib |-> lib, parent |-> None]
      /\ \A x \in DOMAIN w.rt : u.rt[x] = w.rt[x]
    BY DEF With
<1>3. Typed(u)
    BY <1>1, <1>2 DEF WorldOK, Typed
<1>4. Counted(u)
    BY DiffersCounts DEF WorldOK
<1>5. \A g \in Handle : w.h[g].session # s
    BY NoneIsNone DEF WorldOK, Matched
<1>6. Matched(u)
    BY <1>1, <1>2 DEF WorldOK, Matched
<1>7. Held(u)
    <2>1. ASSUME NEW x \in DOMAIN u.rt
          PROVE  \E g \in Handle : u.h[g].session = x
        <3>1. CASE x = s
            BY <1>1, <3>1
        <3>2. CASE x # s
            <4>1. PICK g \in Handle : w.h[g].session = x
                BY <1>2, <3>2 DEF WorldOK, Held
            <4>2. x # None
                BY <1>2, <3>2, NoneIsNone DEF WorldOK, Typed
            <4> QED
                BY <1>1, <4>1, <4>2
        <3> QED
            BY <3>1, <3>2
    <2>2. ASSUME NEW f \in Handle, NEW g \in Handle,
                 u.h[f].session = u.h[g].session, u.h[f].session # None
          PROVE  f = g
        BY <1>1, <1>5, <2>2 DEF WorldOK, Held
    <2> QED
        BY <2>1, <2>2 DEF Held
<1>8. FreeHoldsNothing(u)
    BY <1>1 DEF WorldOK, FreeHoldsNothing
<1>9. ParentsAreApp(u)
    <2>1. \A x \in DOMAIN w.rt : w.rt[x].parent # w.h[h].session \/ w.rt[x].parent = None
        OBVIOUS
    <2> QED
        BY <1>1, <1>2, <2>1 DEF WorldOK, ParentsAreApp
<1> QED
    BY <1>3, <1>4, <1>6, <1>7, <1>8, <1>9 DEF WorldOK, Differs

-----------------------------------------------------------------------------
(* The operations on worlds                                                *)

\* The record of a handle that holds nothing
LEMMA ResetObject ==
    ASSUME NEW r \in Object
    PROVE  /\ Reset(r) \in Object
           /\ Reset(r).module = None /\ Reset(r).session = None /\ Reset(r).table = None
           /\ Reset(r).owner = r.owner /\ Reset(r).req = r.req
           /\ Reset(r).version = r.version /\ Reset(r).media = r.media
<1>1. "SOFTWARE" \in Impl
    BY DEF Impl, Types
<1> QED
    BY <1>1 DEF Reset, New, Object

LEMMA NewObject ==
    ASSUME NEW v \in Req
    PROVE  /\ New(v) \in Object /\ New(v).module = None /\ New(v).session = None /\ New(v).table = None
           /\ New(v).owner = "call" /\ New(v).req = v
<1>1. "SOFTWARE" \in Impl
    BY DEF Impl, Types
<1> QED
    BY <1>1 DEF New, Object, Version, Media

LEMMA FreeObject ==
    /\ Free \in Object /\ Free.module = None /\ Free.session = None /\ Free.table = None
    /\ Free.owner = "free"
<1>1. 0 \in Req
    BY DEF Req
<1>2. New(0) \in Object /\ New(0).module = None /\ New(0).session = None /\ New(0).table = None
    BY <1>1, NewObject
<1> QED
    BY <1>2 DEF Free, Object

\* A world is one of the three variables, or of what an operator makes of them.
LEMMA RefsAreNumbers ==
    ASSUME NEW w, Typed(w), Counted(w), NEW l \in Lib
    PROVE  w.refs[l] \in Nat /\ DOMAIN w.refs = Lib
<1>1. Holding(w, l) \subseteq Handle
    BY DEF Holding
<1>2. Cardinality(Holding(w, l)) \in Nat
    BY <1>1, Handles
<1> QED
    BY <1>2 DEF Counted

\* A handle that is not the application's is never refused.
LEMMA NotRefused ==
    ASSUME NEW w, WorldOK(w), NEW h \in Handle, w.h[h].owner # "app"
    PROVE  ~Refuses(w, h)
<1> SUFFICES ASSUME NEW s \in DOMAIN w.rt, w.h[h].session # None, w.rt[s].parent = w.h[h].session
             PROVE  FALSE
    BY DEF Refuses
<1>1. PICK g \in Handle : w.h[g].owner = "app" /\ w.h[g].session = w.rt[s].parent
    BY DEF WorldOK, ParentsAreApp
<1>2. g = h
    BY <1>1 DEF WorldOK, Held
<1> QED
    BY <1>1, <1>2

\* After Close a handle holds nothing, unless the runtime refused.
LEMMA CloseOK ==
    ASSUME NEW w, WorldOK(w), NEW h \in Handle, ~Refuses(w, h)
    PROVE  /\ WorldOK(Close(w, h))
           /\ Close(w, h).h = [w.h EXCEPT ![h] = Reset(w.h[h])]
<1> DEFINE r == Reset(w.h[h])
           u == Close(w, h)
<1>1. u = [h |-> [w.h EXCEPT ![h] = r],
           refs |-> [l \in Lib |-> IF l = w.h[h].module THEN w.refs[l] - 1 ELSE w.refs[l]],
           rt |-> Without(w.rt, w.h[h].session)]
    BY DEF Close
<1>2. /\ w.h[h] \in Object
      /\ r \in Object /\ r.module = None /\ r.session = None /\ r.table = None
    BY ResetObject DEF WorldOK, Typed
<1> HIDE DEF r, u
<1>3. u.h = [w.h EXCEPT ![h] = r] /\ IsWorld(u) /\ u.rt = Without(w.rt, w.h[h].session)
    BY <1>1 DEF IsWorld
<1>4. u.refs = [l \in Lib |-> w.refs[l] - One(w.h[h].module = l) + One(r.module = l)]
    <2>1. ASSUME NEW l \in Lib
          PROVE  (IF l = w.h[h].module THEN w.refs[l] - 1 ELSE w.refs[l])
                   = w.refs[l] - One(w.h[h].module = l) + One(r.module = l)
        <3>1. w.refs[l] \in Nat
            BY RefsAreNumbers DEF WorldOK
        <3>2. r.module # l
            BY <1>2, NoneIsNone
        <3> QED
            BY <3>1, <3>2 DEF One
    <2> QED
        BY <1>1, <2>1
<1>5. Differs(w, u, h, r)
    BY <1>3, <1>4 DEF Differs
<1>6. WorldOK(u)
    BY <1>2, <1>3, <1>5, DropsSession
<1> QED
    BY <1>3, <1>6 DEF r, u

\* A handle that is deleted is free.
LEMMA DeleteOK ==
    ASSUME NEW w, WorldOK(w), NEW h \in Handle, ~Refuses(w, h)
    PROVE  /\ WorldOK(Delete(w, h))
           /\ Delete(w, h).h = [w.h EXCEPT ![h] = Free]
<1> DEFINE c == Close(w, h)
           u == Delete(w, h)
<1>1. WorldOK(c) /\ c.h = [w.h EXCEPT ![h] = Reset(w.h[h])]
    BY CloseOK
<1>2. u = [c EXCEPT !.h[h] = Free]
    BY DEF Delete
<1> HIDE DEF c, u
<1>3. /\ w.h \in [Handle -> Object] /\ c.h[h] = Reset(w.h[h])
      /\ c.h[h].module = None /\ c.h[h].session = None
    BY <1>1, ResetObject DEF WorldOK, Typed
<1>4. /\ IsWorld(u) /\ u.h = [c.h EXCEPT ![h] = Free] /\ u.refs = c.refs /\ u.rt = c.rt
    BY <1>1, <1>2 DEF WorldOK, IsWorld
<1>5. u.h = [w.h EXCEPT ![h] = Free]
    BY <1>1, <1>3, <1>4
<1>6. Differs(c, u, h, Free)
    <2>1. ASSUME NEW l \in Lib
          PROVE  c.refs[l] = c.refs[l] - One(c.h[h].module = l) + One(Free.module = l)
        <3>1. c.refs[l] \in Nat
            BY <1>1, RefsAreNumbers DEF WorldOK
        <3> QED
            BY <3>1, <1>3, FreeObject, NoneIsNone DEF One
    <2>2. c.refs = [l \in Lib |-> c.refs[l]]
        BY <1>1 DEF WorldOK, Counted
    <2>3. u.refs = [l \in Lib |-> c.refs[l] - One(c.h[h].module = l) + One(Free.module = l)]
        BY <1>4, <2>1, <2>2
    <2> QED
        BY <1>4, <2>3 DEF Differs
<1>7. Without(c.rt, None) = c.rt
    <2>1. DOMAIN c.rt \ {None} = DOMAIN c.rt
        BY <1>1, NoneIsNone DEF WorldOK, Typed
    <2>2. c.rt = [s \in DOMAIN c.rt |-> c.rt[s]]
        BY <1>1, CloseOK DEF c, Close, Without
    <2> QED
        BY <2>1, <2>2 DEF Without
<1>8. ~Refuses(c, h)
    BY <1>3 DEF Refuses
<1>9. WorldOK(u)
    BY <1>1, <1>3, <1>4, <1>6, <1>7, <1>8, FreeObject, DropsSession
<1> QED
    BY <1>5, <1>9 DEF u

\* A new handle takes the place of a free one.
LEMMA AllocateOK ==
    ASSUME NEW w, WorldOK(w), NEW h \in Handle, w.h[h].owner = "free", NEW v \in Req
    PROVE  /\ WorldOK(Allocate(w, h, v))
           /\ Allocate(w, h, v).h = [w.h EXCEPT ![h] = New(v)]
<1> DEFINE u == Allocate(w, h, v)
           r == New(v)
<1>1. u = [w EXCEPT !.h[h] = r]
    BY DEF Allocate
<1>2. r \in Object /\ r.module = None /\ r.session = None /\ r.table = None /\ r.owner = "call"
    BY NewObject
<1>3. w.h[h].module = None /\ w.h[h].session = None
    BY DEF WorldOK, FreeHoldsNothing
<1> HIDE DEF u, r
<1>4. /\ IsWorld(u) /\ u.h = [w.h EXCEPT ![h] = r] /\ u.refs = w.refs /\ u.rt = w.rt
    BY <1>1 DEF WorldOK, IsWorld
<1>5. Differs(w, u, h, r)
    <2>1. ASSUME NEW l \in Lib
          PROVE  w.refs[l] = w.refs[l] - One(w.h[h].module = l) + One(r.module = l)
        <3>1. w.refs[l] \in Nat
            BY RefsAreNumbers DEF WorldOK
        <3> QED
            BY <3>1, <1>2, <1>3, NoneIsNone DEF One
    <2>2. w.refs = [l \in Lib |-> w.refs[l]]
        BY DEF WorldOK, Counted
    <2>3. u.refs = [l \in Lib |-> w.refs[l] - One(w.h[h].module = l) + One(r.module = l)]
        BY <1>4, <2>1, <2>2
    <2> QED
        BY <1>4, <2>3 DEF Differs
<1>6. WorldOK(u)
    BY <1>2, <1>3, <1>4, <1>5, KeepsSession
<1> QED
    BY <1>4, <1>6 DEF u, r

\* Changes that take nothing from a handle: another owner, media or version.
SameHeld(r, q) == r.module = q.module /\ r.session = q.session /\ r.table = q.table

LEMMA ChangeOK ==
    ASSUME NEW w, WorldOK(w), NEW h \in Handle, NEW r \in Object, SameHeld(r, w.h[h]),
           NEW u, IsWorld(u), u.h = [w.h EXCEPT ![h] = r], u.refs = w.refs, u.rt = w.rt,
           w.h[h].owner = "app" => r.owner = "app", r.owner # "free"
    PROVE  WorldOK(u)
<1>1. Differs(w, u, h, r)
    <2>1. ASSUME NEW l \in Lib
          PROVE  w.refs[l] = w.refs[l] - One(w.h[h].module = l) + One(r.module = l)
        <3>1. w.refs[l] \in Nat
            BY RefsAreNumbers DEF WorldOK
        <3> QED
            BY <3>1 DEF One, SameHeld
    <2>2. w.refs = [l \in Lib |-> w.refs[l]]
        BY DEF WorldOK, Counted
    <2>3. u.refs = [l \in Lib |-> w.refs[l] - One(w.h[h].module = l) + One(r.module = l)]
        BY <2>1, <2>2
    <2> QED
        BY <2>3 DEF Differs
<1>2. r.table \in {None, r.module}
    BY DEF WorldOK, Matched, SameHeld
<1> QED
    BY <1>1, <1>2, KeepsSession DEF SameHeld

-----------------------------------------------------------------------------
(* There is always a session to give, for there are as many as handles     *)

LEMMA SessionLeft ==
    ASSUME NEW w, Typed(w), Held(w), NEW h \in Handle, NEW rts, DOMAIN rts \subseteq Session,
           \A s \in DOMAIN rts : \E g \in Handle \ {h} : w.h[g].session = s
    PROVE  FreeSession([rt |-> rts]) \in Session \ DOMAIN rts
<1>1. ASSUME Session \subseteq DOMAIN rts
      PROVE  FALSE
    <2> DEFINE holder == [s \in Session |-> CHOOSE g \in Handle \ {h} : w.h[g].session = s]
    <2>1. ASSUME NEW s \in Session
          PROVE  holder[s] \in Handle \ {h} /\ w.h[holder[s]].session = s
        BY <1>1
    <2>2. holder \in Injection(Session, Handle \ {h})
        <3> HIDE DEF holder
        <3>1. holder \in [Session -> Handle \ {h}]
            BY <2>1 DEF holder
        <3>2. \A s, t \in Session : holder[s] = holder[t] => s = t
            BY <2>1
        <3> QED
            BY <3>1, <3>2 DEF Injection, IsInjective
    <2>3. /\ IsFiniteSet(Handle \ {h}) /\ Cardinality(Handle) \in Nat
          /\ Cardinality(Handle \ {h}) = Cardinality(Handle) - 1
        BY Handles, FS_RemoveElement
    <2>4. Cardinality(Session) <= Cardinality(Handle \ {h})
        BY <2>2, <2>3, FS_Injection
    <2> QED
        BY <2>3, <2>4 DEF Session
<1>2. Session \ DOMAIN rts # {} /\ Session \ DOMAIN rts \subseteq Handle
    BY <1>1 DEF Session
<1>3. Lowest(Session \ DOMAIN rts) \in Session \ DOMAIN rts
    BY <1>2, LowestHandle
<1> QED
    BY <1>3 DEF FreeSession

LEMMA FreeSessionOK ==
    ASSUME NEW w, WorldOK(w), NEW h \in Handle, w.h[h].session = None
    PROVE  FreeSession(w) \in Session \ DOMAIN w.rt
<1>1. ASSUME NEW s \in DOMAIN w.rt
      PROVE  \E g \in Handle \ {h} : w.h[g].session = s
    <2>1. PICK g \in Handle : w.h[g].session = s
        BY DEF WorldOK, Held
    <2>2. s # None
        BY NoneIsNone DEF WorldOK, Typed
    <2> QED
        BY <2>1, <2>2
<1>2. FreeSession([rt |-> w.rt]) = FreeSession(w)
    BY DEF FreeSession
<1> QED
    BY <1>1, <1>2, SessionLeft DEF WorldOK, Typed

-----------------------------------------------------------------------------
(* LoadSelectedDLL                                                         *)

LEMMA VersionsOK ==
    /\ V(2, 9) \in Version
    /\ \A l \in Lib : Runtime[l].api \in Version
    /\ Version \subseteq Nat /\ Versions \subseteq Nat
<1>1. \A l \in Lib : Runtime[l].api \in Nat
    BY WindowsAssumption
<1>2. V(2, 9) \in Nat
    BY DEF V
<1> QED
    BY <1>1, <1>2, WindowsAssumption DEF Version

Failures == {"none", "LOAD", "INIT", "VERSION", "PLATFORM"}

\* The world u is w but for what the handle h has loaded.
LoadedOK(w, u, h) ==
    /\ WorldOK(u)
    /\ u.h \in [Handle -> Object]
    /\ \A g \in Handle \ {h} : u.h[g] = w.h[g]
    /\ u.h[h].owner = "call"
    /\ u.h[h].status \in {"NONE", "PARTIAL_ACCELERATION"} => u.h[h].module \in Lib

\* Whichever call fails, the handle that loads holds what was loaded.
LEMMA LoadOK ==
    ASSUME NEW w, WorldOK(w), NEW h \in Handle, w.h[h].owner = "call",
           NEW lib \in Lib \cup {None}, NEW type \in {"hw", "sw"}, NEW impl \in Impl, NEW fault
    PROVE  LoadedOK(w, LoadSelectedDLL(w, h, lib, type, impl, fault), h)
<1> DEFINE v == w.h[h].req
           c == Close(w, h)
           s == FreeSession(c)
           opens == lib # None /\ fault # "LOAD"
           inits == opens /\ ~Missing(lib, v) /\ fault # "INIT"
           answers == inits /\ ~Runtime[lib].partial /\ fault # "VERSION"
           r == [c.h[h] EXCEPT
                   !.module = IF opens THEN lib ELSE None,
                   !.table = IF opens THEN lib ELSE None,
                   !.session = IF inits THEN s ELSE None,
                   !.version = IF answers THEN IF Major(v) >= 2 THEN V(2, 9) ELSE Runtime[lib].api ELSE @,
                   !.type = type, !.impl = impl,
                   !.status = IF answers THEN "NONE"
                              ELSE IF inits /\ Runtime[lib].partial THEN "PARTIAL_ACCELERATION"
                              ELSE IF opens /\ ~Missing(lib, v) THEN "ERROR" ELSE "UNSUPPORTED"]
           u == LoadSelectedDLL(w, h, lib, type, impl, fault)
<1>1. ~Refuses(w, h)
    BY NotRefused
<1>2. WorldOK(c) /\ c.h = [w.h EXCEPT ![h] = Reset(w.h[h])]
    BY <1>1, CloseOK
<1>3. /\ w.h \in [Handle -> Object] /\ c.h \in [Handle -> Object]
      /\ c.h[h] = Reset(w.h[h])
      /\ c.h[h].module = None /\ c.h[h].session = None
      /\ c.h[h].owner = "call" /\ c.h[h].req = w.h[h].req
    BY <1>2, ResetObject DEF WorldOK, Typed
<1>4. s \in Session \ DOMAIN c.rt
    BY <1>2, <1>3, FreeSessionOK
<1>5. u = [h |-> [c.h EXCEPT ![h] = r],
           refs |-> [l \in Lib |-> IF opens /\ l = lib THEN c.refs[l] + 1 ELSE c.refs[l]],
           rt |-> IF inits THEN With(c.rt, s, lib) ELSE c.rt]
    BY DEF LoadSelectedDLL
<1>6. opens => lib \in Lib
    OBVIOUS
<1>7. /\ r.module = IF opens THEN lib ELSE None
      /\ r.table = IF opens THEN lib ELSE None
      /\ r.session = IF inits THEN s ELSE None
      /\ r.owner = "call" /\ r.req = w.h[h].req
      /\ r.status \in {"NONE", "PARTIAL_ACCELERATION"} => opens
    <2> HIDE DEF c, s
    <2> QED
        BY <1>3 DEF Object
<1>8. r \in Object
    <2> HIDE DEF c, s
    <2> DEFINE new == IF answers THEN IF Major(v) >= 2 THEN V(2, 9) ELSE Runtime[lib].api ELSE c.h[h].version
    <2>1. c.h[h] \in Object
        BY <1>3
    <2>2. new \in Version
        BY <1>6, <2>1, VersionsOK DEF Object
    <2> HIDE DEF new
    <2>3. r.version = new
        BY <2>1 DEF Object, new
    <2> DEFINE m == IF opens THEN lib ELSE None
               z == IF inits THEN s ELSE None
               status == IF answers THEN "NONE"
                         ELSE IF inits /\ Runtime[lib].partial THEN "PARTIAL_ACCELERATION"
                         ELSE IF opens /\ ~Missing(lib, v) THEN "ERROR" ELSE "UNSUPPORTED"
    <2>4. /\ m \in Lib \cup {None} /\ z \in Session \cup {None}
          /\ status \in {"NOT_FOUND", "NONE", "ERROR", "UNSUPPORTED", "PARTIAL_ACCELERATION"}
        BY <1>4, <1>6
    <2>5. r = [c.h[h] EXCEPT !.module = m, !.table = m, !.session = z, !.version = new,
                             !.type = type, !.impl = impl, !.status = status]
        BY <2>1 DEF Object, new
    <2> HIDE DEF opens, inits, answers, m, z, status, r
    <2> QED
        BY <2>1, <2>2, <2>4, <2>5 DEF Object
<1> HIDE DEF c, s, r, u, opens, inits, answers
<1>9. /\ IsWorld(u) /\ u.h = [c.h EXCEPT ![h] = r]
      /\ u.rt = IF inits THEN With(c.rt, s, lib) ELSE c.rt
      /\ u.refs = [l \in Lib |-> IF opens /\ l = lib THEN c.refs[l] + 1 ELSE c.refs[l]]
    BY <1>5 DEF IsWorld
<1>10. Differs(c, u, h, r)
    <2>1. ASSUME NEW l \in Lib
          PROVE  (IF opens /\ l = lib THEN c.refs[l] + 1 ELSE c.refs[l])
                   = c.refs[l] - One(c.h[h].module = l) + One(r.module = l)
        <3>1. c.refs[l] \in Nat
            BY <1>2, RefsAreNumbers DEF WorldOK
        <3> QED
            BY <3>1, <1>3, <1>7, NoneIsNone DEF One
    <2> QED
        BY <1>9, <2>1 DEF Differs
<1>11. WorldOK(u)
    <2>1. CASE inits
        <3>1. opens
            BY <2>1 DEF inits
        <3> QED
            BY <2>1, <3>1, <1>2, <1>3, <1>4, <1>6, <1>7, <1>8, <1>9, <1>10, OpensSession
    <2>2. CASE ~inits
        BY <2>2, <1>2, <1>3, <1>7, <1>8, <1>9, <1>10, KeepsSession
    <2> QED
        BY <2>1, <2>2
<1>12. /\ u.h \in [Handle -> Object] /\ u.h[h] = r
       /\ \A g \in Handle \ {h} : u.h[g] = w.h[g]
    BY <1>2, <1>3, <1>8, <1>9
<1> QED
    BY <1>6, <1>7, <1>11, <1>12 DEF u, LoadedOK

-----------------------------------------------------------------------------
(* The places of a search                                                  *)

LEMMA RangesOK ==
    ASSUME NEW m \in DOMAIN implTypesRange
    PROVE  /\ implTypesRange[m][1] \in 1..7 /\ implTypesRange[m][2] \in 1..7
           /\ implTypesRange[m][1] <= implTypesRange[m][2]
BY DEF implTypesRange

LEMMA FirstOK ==
    ASSUME NEW m \in DOMAIN implTypesRange, NEW phase \in 1..4
    PROVE  /\ First(m, phase) \in PlaceType /\ First(m, phase).phase = phase
           /\ phase <= 3 => PlaceOK(m, First(m, phase))
<1>1. First(m, phase) = [phase |-> phase, t |-> implTypesRange[m][1], s |-> 1]
    BY DEF First, Place
<1>2. phase <= 3 => 1 \in 1 .. Len(Storages[phase])
    BY DEF Storages
<1> QED
    BY <1>1, <1>2, RangesOK DEF PlaceOK, PlaceType

LEMMA AfterOK ==
    ASSUME NEW m \in DOMAIN implTypesRange, NEW p \in PlaceType, PlaceOK(m, p)
    PROVE  /\ After(m, p) \in PlaceType /\ p.phase <= After(m, p).phase
           /\ After(m, p).phase <= 3 => PlaceOK(m, After(m, p))
<1>1. CASE p.s < Len(Storages[p.phase])
    <2>1. After(m, p) = [p EXCEPT !.s = p.s + 1]
        BY <1>1 DEF After
    <2>2. Len(Storages[p.phase]) \in Int
        BY DEF PlaceOK, Storages
    <2> QED
        BY <2>1, <2>2, <1>1 DEF PlaceOK, PlaceType
<1>2. CASE ~(p.s < Len(Storages[p.phase])) /\ p.t < implTypesRange[m][2]
    <2>1. After(m, p) = [phase |-> p.phase, t |-> p.t + 1, s |-> 1]
        BY <1>2 DEF After, Place
    <2>2. 1 \in 1 .. Len(Storages[p.phase])
        BY DEF PlaceOK, Storages
    <2> QED
        BY <2>1, <2>2, <1>2, RangesOK DEF PlaceOK, PlaceType
<1>3. CASE ~(p.s < Len(Storages[p.phase])) /\ ~(p.t < implTypesRange[m][2])
    <2>1. After(m, p) = First(m, p.phase + 1)
        BY <1>3 DEF After
    <2>2. p.phase + 1 \in 1..4 /\ p.phase <= p.phase + 1
        BY DEF PlaceOK
    <2> QED
        BY <2>1, <2>2, FirstOK
<1> QED
    BY <1>1, <1>2, <1>3

\* Of keys that are left one is the next: of the highest merit the first.
LEMMA KeyExists ==
    ASSUME NEW keys \in Seq(KeyOf), NEW left, left \subseteq DOMAIN keys, left # {}
    PROVE  \E i \in left : \A j \in left \ {i} :
               keys[j].merit < keys[i].merit \/ (keys[j].merit = keys[i].merit /\ i < j)
<1>1. MaxMerit \in Nat /\ \A i \in left : keys[i].merit \in 0 .. MaxMerit - 1 /\ i \in Nat
    <2>1. MaxMerit \in Nat
        BY WindowsAssumption
    <2>2. ASSUME NEW i \in left
          PROVE  keys[i] \in KeyOf /\ i \in Nat
        BY <2>2
    <2> QED
        BY <2>1, <2>2 DEF KeyOf
<1> DEFINE below == {MaxMerit - keys[i].merit : i \in left}
           d == Lowest(below)
           top == {i \in left : MaxMerit - keys[i].merit = d}
           n == Lowest(top)
<1>2. below \subseteq Nat /\ below # {}
    BY <1>1
<1> HIDE DEF below
<1>3. d \in below /\ \A x \in below : d <= x
    BY <1>2, LowestNumber
<1> HIDE DEF d
<1>4. top \subseteq Nat /\ top # {}
    BY <1>1, <1>3 DEF below
<1>5. n \in top /\ \A j \in top : n <= j
    <2> HIDE DEF top
    <2> QED
        BY <1>4, LowestNumber
<1> HIDE DEF n
<1>6. ASSUME NEW j \in left \ {n}
      PROVE  keys[j].merit < keys[n].merit \/ (keys[j].merit = keys[n].merit /\ n < j)
    <2>1. d <= MaxMerit - keys[j].merit
        BY <1>3 DEF below
    <2>2. d = MaxMerit - keys[n].merit
        BY <1>5
    <2>3. keys[j].merit = keys[n].merit => n <= j /\ n # j
        BY <1>5, <2>2
    <2>4. keys[j].merit \in Int /\ keys[n].merit \in Int /\ MaxMerit \in Int /\ n \in Nat /\ j \in Nat
        BY <1>1, <1>5
    <2>5. keys[j].merit <= keys[n].merit
        BY ONLY <2>1, <2>2, <2>4
    <2> QED
        BY ONLY <2>3, <2>4, <2>5
<1> QED
    BY <1>5, <1>6

LEMMA SelectKeyOK ==
    ASSUME NEW p, NEW last, inst.key[Storage(p)] \in Seq(KeyOf), SelectKey(p, last) # None
    PROVE  SelectKey(p, last) \in DOMAIN inst.key[Storage(p)]
<1> DEFINE keys == inst.key[Storage(p)]
           left == {i \in DOMAIN keys : /\ Fits(p, keys[i]) /\ keys[i].merit > 0
                                        /\ AfterLast(last, i - 1, keys[i].merit)}
           best(i) == \A j \in left \ {i} :
               keys[j].merit < keys[i].merit \/ (keys[j].merit = keys[i].merit /\ i < j)
<1>1. SelectKey(p, last) = IF left = {} THEN None ELSE CHOOSE i \in left : best(i)
    BY DEF SelectKey
<1>2. left # {} /\ left \subseteq DOMAIN keys
    BY <1>1
<1> HIDE DEF left, keys
<1>3. \E i \in left : best(i)
    BY <1>2, KeyExists DEF keys
<1>4. (CHOOSE i \in left : best(i)) \in left
    <2> HIDE DEF best
    <2> QED
        BY <1>3
<1> QED
    BY <1>1, <1>2, <1>4 DEF keys

LEMMA StorageOK ==
    ASSUME NEW m \in DOMAIN implTypesRange, NEW p \in PlaceType, PlaceOK(m, p)
    PROVE  /\ Type(p) \in {"hw", "sw"} /\ Types[p.t].impl \in Impl
           /\ Storage(p) \in Folder \cup Key \cup {"default"}
<1>1. p.t \in 1..7
    BY RangesOK DEF PlaceOK, PlaceType
<1>2. Type(p) \in {"hw", "sw"} /\ Types[p.t].impl \in Impl
    BY <1>1 DEF Type, Types, Impl
<1>3. Storage(p) \in Folder \cup Key \cup {"default"}
    <2>1. CASE p.phase = 1
        <3>1. Len(Storages[1]) = 6
            BY DEF Storages
        <3>2. p.s \in 1..6 /\ Storage(p) = <<"tracer", "vpl", "msdk", "user", "machine", "module">>[p.s]
            BY <2>1, <3>1 DEF PlaceOK, Storage, Storages
        <3> QED
            BY <3>2 DEF Folder, Key
    <2>2. CASE p.phase = 2
        BY <2>2 DEF PlaceOK, Storage, Storages, Folder
    <2>3. CASE p.phase = 3
        BY <2>3 DEF PlaceOK, Storage, Storages
    <2> QED
        BY <2>1, <2>2, <2>3 DEF PlaceOK
<1> QED
    BY <1>2, <1>3

LEMMA SelectOK ==
    ASSUME inst \in Installations, NEW m \in DOMAIN implTypesRange, NEW p \in PlaceType, PlaceOK(m, p),
           NEW last \in LastType
    PROVE  /\ SelectDLLVersion(p, last).lib \in Lib \cup {None}
           /\ SelectDLLVersion(p, last).type \in {"hw", "sw"}
           /\ SelectDLLVersion(p, last).last \in LastType
           /\ Types[p.t].impl \in Impl
<1>1. /\ inst.folder \in [Folder -> Lib \cup {None}]
      /\ \A k \in Key : inst.key[k] \in Seq(KeyOf)
      /\ inst.default \in [{"hw", "sw"} -> Lib \cup {None}]
      /\ MaxMerit \in Nat
    BY WindowsAssumption
<1>2. Type(p) \in {"hw", "sw"} /\ Types[p.t].impl \in Impl /\ Storage(p) \in Folder \cup Key \cup {"default"}
    BY StorageOK
<1> DEFINE nothing == [lib |-> None, type |-> "sw", last |-> last]
           Fine(x) == x.lib \in Lib \cup {None} /\ x.type \in {"hw", "sw"} /\ x.last \in LastType
<1>5. Fine(nothing)
    OBVIOUS
<1>6. ASSUME NEW type \in {"hw", "sw"}, Storage(p) \in Folder
      PROVE  Fine(InitFolder(p, type, last))
    BY <1>1, <1>6 DEF InitFolder, LastType
<1>7. CASE Storage(p) \in Key
    <2> DEFINE i == SelectKey(p, last)
               k == inst.key[Storage(p)][i]
               found == [lib |-> k.lib, type |-> IF k.device = 0 THEN "sw" ELSE "hw",
                         last |-> [index |-> i - 1, merit |-> k.merit]]
    <2>1. SelectDLLVersion(p, last)
            = IF (Type(p) = "hw" /\ Adapter(p) = "none") \/ i = None THEN nothing ELSE found
        <3>1. Storage(p) # "app" /\ Storage(p) # "default"
            BY <1>7 DEF Key
        <3> QED
            BY <1>7, <3>1 DEF SelectDLLVersion
    <2>2. CASE i # None
        <3>1. inst.key[Storage(p)] \in Seq(KeyOf)
            BY <1>1, <1>7
        <3>2. i \in DOMAIN inst.key[Storage(p)]
            BY <2>2, <3>1, SelectKeyOK
        <3> HIDE DEF i
        <3>3. k \in KeyOf /\ i \in Int
            BY <3>1, <3>2
        <3> HIDE DEF k
        <3>4. Fine(found)
            BY <3>3 DEF KeyOf, LastType
        <3> QED
            BY <2>1, <3>4, <1>5, <1>2
    <2>3. CASE i = None
        BY <2>1, <2>3, <1>2
    <2> QED
        BY <2>2, <2>3
<1>8. CASE Storage(p) = "default"
    BY <1>8, <1>1, <1>2 DEF SelectDLLVersion, LastType, Key
<1>9. CASE Storage(p) \in Folder
    <2>1. SelectDLLVersion(p, last) \in {InitFolder(p, "sw", last), InitFolder(p, Type(p), last)}
        BY <1>9 DEF SelectDLLVersion, Folder, Key
    <2> QED
        BY <2>1, <1>2, <1>6, <1>9
<1> QED
    BY <1>2, <1>7, <1>8, <1>9

-----------------------------------------------------------------------------
(* The calls that find the dispatcher idle, and the ends of the others     *)

LEMMA FaultsOK ==
    ASSUME faults \in 0..MaxFaults, NEW f, Fault(f), Counts(f)
    PROVE  faults' \in 0..MaxFaults
BY WindowsAssumption DEF Fault, Counts

LEMMA IdleOK == Idle.pc = "idle" /\ Idle.candidates = <<>> /\ Idle \in CallType
<1>1. "AUTO" \in DOMAIN implTypesRange /\ MaxMerit \in Nat
    BY WindowsAssumption DEF implTypesRange
<1> QED
    BY <1>1 DEF Idle, Place, NoLast, CallType, PlaceType, LastType

LEMMA RestingStep ==
    ASSUME IInv, inst' = inst, faults' \in 0..MaxFaults,
           NEW u, WorldOK(u), Becomes(u), \A h \in Handle : u.h[h].owner \in {"free", "app"},
           call' = Idle \/ (call' = call /\ call.pc = "idle")
    PROVE  IInv'
<1>1. World' = u
    BY DEF WorldOK, IsWorld, Becomes, World
<1>2. CallOK' /\ call'.pc = "idle" /\ call'.candidates = <<>>
    <2>1. CASE call' = Idle
        BY <2>1, IdleOK DEF CallOK
    <2>2. CASE call' = call /\ call.pc = "idle"
        BY <2>2 DEF IInv, Resting, CallOK
    <2> QED
        BY <2>1, <2>2
<1>3. WorldOK(World)'
    BY <1>1
<1>4. \A h \in Handle : handles'[h].owner \in {"free", "app"}
    BY DEF Becomes
<1>5. Resting'
    BY <1>2, <1>4 DEF Resting
<1> QED
    BY <1>2, <1>3, <1>5 DEF IInv

LEMMA FreeHandleOK ==
    ASSUME NEW w, NEW S \in SUBSET Handle, Cardinality(S) < MaxSessions + 4,
           \A h \in Handle \ S : w.h[h].owner = "free"
    PROVE  FreeHandle(w) \in Handle /\ w.h[FreeHandle(w)].owner = "free"
<1> DEFINE free == {h \in Handle : w.h[h].owner = "free"}
<1>1. free # {}
    <2> SUFFICES ASSUME free = {}
                 PROVE  FALSE
        OBVIOUS
    <2>1. S = Handle
        OBVIOUS
    <2> QED
        BY <2>1, Handles, WindowsAssumption
<1>2. Lowest(free) \in free
    BY <1>1, LowestHandle
<1> QED
    BY <1>2 DEF FreeHandle

\* When no call runs a handle is left that is nobody's.
LEMMA IdleHandle ==
    ASSUME IInv, call.pc = "idle", Cardinality(App) < MaxSessions
    PROVE  /\ FreeHandle(World) \in Handle
           /\ handles[FreeHandle(World)].owner = "free"
<1>1. \A h \in Handle : handles[h].owner \in {"free", "app"}
    BY DEF IInv, Resting
<1>2. \A h \in Handle \ App : World.h[h].owner = "free"
    BY <1>1 DEF App, World
<1>3. App \in SUBSET Handle /\ Cardinality(App) \in Nat /\ MaxSessions \in Nat
    BY Handles, WindowsAssumption DEF App
<1> QED
    BY <1>2, <1>3, FreeHandleOK DEF World

LEMMA BeginOK ==
    ASSUME IInv, call.pc = "idle", Cardinality(App) < MaxSessions, UNCHANGED <<inst, faults>>,
           NEW m \in DOMAIN implTypesRange, NEW v \in Req, NEW clones \in Handle \cup {None},
           Begin(m, v, clones)
    PROVE  IInv'
<1> DEFINE h == FreeHandle(World)
           u == Allocate(World, h, v)
<1>1. h \in Handle /\ handles[h].owner = "free"
    BY IdleHandle
<1>2. /\ Becomes(u)
      /\ call' = [Idle EXCEPT !.pc = "search", !.method = m, !.place = First(m, 1),
                              !.current = h, !.clones = clones]
    BY DEF Begin
<1> HIDE DEF h
<1>3. WorldOK(u) /\ u.h = [handles EXCEPT ![h] = New(v)]
    BY <1>1, AllocateOK DEF IInv, World
<1> HIDE DEF u
<1>4. WorldOK(World)' /\ handles' = [handles EXCEPT ![h] = New(v)]
    BY <1>2, <1>3 DEF WorldOK, IsWorld, Becomes, World
<1>5. First(m, 1) \in PlaceType /\ First(m, 1).phase = 1 /\ PlaceOK(m, First(m, 1))
    BY FirstOK
<1>6. /\ CallOK'
      /\ call'.pc = "search" /\ call'.method = m /\ call'.place = First(m, 1)
      /\ call'.current = h /\ call'.candidates = <<>>
    <2>1. /\ call' = [pc |-> "search", method |-> m, place |-> First(m, 1), last |-> NoLast, current |-> h,
                      candidates |-> <<>>, clones |-> clones, faulted |-> FALSE]
        BY <1>2 DEF Idle
    <2> QED
        BY <2>1, <1>1, <1>5, WindowsAssumption DEF CallOK, CallType, LastType, NoLast
<1>7. handles \in [Handle -> Object] /\ \A g \in Handle : handles[g].owner \in {"free", "app"}
    BY DEF IInv, WorldOK, Typed, World, Resting
<1>8. /\ handles'[h].owner = "call"
      /\ \A g \in Handle \ {h} : handles'[g] = handles[g]
    BY <1>1, <1>4, <1>7, NewObject
<1>9. App' = App
    BY <1>1, <1>8 DEF App
<1>10. Candidates' = {}
    BY <1>6 DEF Candidates
<1>11. Searching'
    <2>1. Len(call'.candidates) < call'.place.phase
        BY <1>5, <1>6
    <2>2. \A g \in Handle : handles'[g].owner # "candidate" /\ (handles'[g].owner = "call" => g = h)
        BY <1>7, <1>8
    <2> QED
        BY <1>1, <1>5, <1>6, <1>8, <1>9, <1>10, <2>1, <2>2 DEF Searching
<1> QED
    BY <1>4, <1>6, <1>11 DEF IInv

LEMMA MFXInitExOK == ASSUME IInv, MFXInitEx PROVE IInv'
<1>1. PICK m \in Methods, v \in Versions : Begin(m, v, None)
    BY DEF MFXInitEx
<1>2. m \in DOMAIN implTypesRange /\ v \in Req
    BY MethodsAssumption DEF Req
<1> QED
    BY <1>1, <1>2, BeginOK DEF MFXInitEx

\* A clone asks for what its parent is.
LEMMA CloneAsks ==
    ASSUME IInv, NEW h \in App, Major(handles[h].version) = 1
    PROVE  h \in Handle /\ handles[h].impl \in DOMAIN implTypesRange /\ handles[h].version \in Req
<1>1. h \in Handle /\ handles[h] \in Object
    BY DEF App, IInv, WorldOK, Typed, World
<1>2. handles[h].impl \in DOMAIN implTypesRange
    <2>1. handles[h].impl \in Impl
        BY <1>1 DEF Object
    <2> QED
        BY <2>1 DEF Impl, Types, implTypesRange
<1>3. handles[h].version \in Req
    <2>1. handles[h].version \in Version
        BY <1>1 DEF Object
    <2>2. Major(V(2, 9)) = 2
        BY DEF Major, V
    <2> QED
        BY <2>1, <2>2 DEF Version, Req
<1> QED
    BY <1>1, <1>2, <1>3

LEMMA CloneInitOK == ASSUME IInv, CloneInit PROVE IInv'
<1>1. PICK h \in App : /\ Major(handles[h].version) = 1
                       /\ Begin(handles[h].impl, handles[h].version, h)
    BY DEF CloneInit
<1>2. h \in Handle /\ handles[h].impl \in DOMAIN implTypesRange /\ handles[h].version \in Req
    BY <1>1, CloneAsks
<1> QED
    BY <1>1, <1>2, BeginOK DEF CloneInit

-----------------------------------------------------------------------------
(* The steps of a search                                                   *)

\* A step that ends with the handle that it began with
LEMMA SearchingStep ==
    ASSUME IInv, call.pc = "search", inst' = inst, faults' \in 0..MaxFaults,
           NEW u, WorldOK(u), Becomes(u),
           \A g \in Handle \ {call.current} : u.h[g] = handles[g],
           u.h[call.current].owner = "call",
           CallOK', call'.pc \in {"search", "choose"}, call'.method = call.method,
           call'.current = call.current, call'.candidates = call.candidates,
           call.place.phase <= call'.place.phase,
           call'.pc = "search" => PlaceOK(call.method, call'.place)
    PROVE  IInv'
<1>1. Searching /\ CallOK
    BY DEF IInv
<1>2. WorldOK(World)' /\ handles' = u.h
    BY DEF WorldOK, IsWorld, Becomes, World
<1>3. call.current \in Handle /\ handles'[call.current].owner = "call"
    BY <1>1, <1>2 DEF Searching
<1>4. \A g \in Handle \ {call.current} : handles'[g] = handles[g]
    BY <1>2
<1>5. App' = App /\ Candidates' = Candidates
    BY <1>1, <1>3, <1>4 DEF App, Candidates, Searching
<1>6. call.current \notin Candidates
    BY <1>1 DEF Searching
<1>7. Len(call'.candidates) < call'.place.phase
    <2>1. Len(call.candidates) \in Nat /\ call.place.phase \in Int /\ call'.place.phase \in Int
        BY <1>1 DEF CallOK, CallType, PlaceType
    <2> QED
        BY <2>1, <1>1 DEF Searching
<1>8. /\ \A h \in Handle : handles'[h].owner = "call" => h = call.current
      /\ \A h \in Handle : handles'[h].owner = "candidate" <=> h \in Candidates
      /\ \A h \in Candidates : handles'[h].module \in Lib
    <2>1. Candidates \subseteq Handle
        BY <1>1 DEF Candidates, CallOK, CallType
    <2> QED
        BY <2>1, <1>1, <1>3, <1>4, <1>6 DEF Searching
<1>9. Searching'
    BY <1>1, <1>3, <1>5, <1>7, <1>8 DEF Searching
<1> QED
    BY <1>2, <1>9 DEF IInv

LEMMA MoveToOK ==
    ASSUME NEW c \in CallType, NEW place \in PlaceType
    PROVE  /\ c.pc \in {"search", "choose"} => MoveTo(c, place).pc \in {"search", "choose"}
           /\ MoveTo(c, place) \in CallType
           /\ MoveTo(c, place).pc = "search" => place.phase <= 3
           /\ MoveTo(c, place).place = place
           /\ MoveTo(c, place).method = c.method /\ MoveTo(c, place).current = c.current
           /\ MoveTo(c, place).candidates = c.candidates
<1>1. NoLast \in LastType
    BY WindowsAssumption DEF NoLast, LastType
<1> DEFINE pc == IF place.phase > 3 THEN "choose" ELSE c.pc
<1>2. MoveTo(c, place) = [c EXCEPT !.pc = pc, !.place = place, !.last = NoLast]
    BY DEF MoveTo, CallType
<1>3. /\ pc \in {"idle", "search", "choose", "join"}
      /\ c.pc \in {"search", "choose"} => pc \in {"search", "choose"}
      /\ pc = "search" => place.phase <= 3
    <2>1. place.phase \in Int
        BY DEF PlaceType
    <2> QED
        BY <2>1 DEF CallType
<1> HIDE DEF pc
<1>4. /\ MoveTo(c, place).pc = pc /\ MoveTo(c, place).place = place
      /\ MoveTo(c, place).method = c.method /\ MoveTo(c, place).current = c.current
      /\ MoveTo(c, place).candidates = c.candidates
    BY <1>2 DEF CallType
<1>5. MoveTo(c, place) \in CallType
    BY <1>1, <1>2, <1>3 DEF CallType
<1> QED
    BY <1>3, <1>4, <1>5

LEMMA NextPlaceOK == ASSUME IInv, NextPlace PROVE IInv'
<1> DEFINE u == IF call.place.phase = 3 THEN Close(World, call.current) ELSE World
           place == After(call.method, call.place)
<1>1. call.pc = "search" /\ Becomes(u) /\ call' = MoveTo(call, place) /\ UNCHANGED <<inst, faults>>
    BY DEF NextPlace
<1>2. Searching /\ CallOK /\ WorldOK(World) /\ faults \in 0..MaxFaults
    BY <1>1 DEF IInv
<1>3. /\ call.current \in Handle /\ World.h = handles /\ handles[call.current].owner = "call"
      /\ handles \in [Handle -> Object]
    BY <1>2 DEF Searching, World, WorldOK, Typed
<1>4. /\ WorldOK(u) /\ u.h[call.current].owner = "call"
      /\ \A g \in Handle \ {call.current} : u.h[g] = handles[g]
    <2>1. CASE call.place.phase = 3
        <3>1. ~Refuses(World, call.current)
            BY <1>2, <1>3, NotRefused
        <3>2. WorldOK(u) /\ u.h = [handles EXCEPT ![call.current] = Reset(handles[call.current])]
            BY <2>1, <3>1, <1>2, <1>3, CloseOK
        <3> QED
            BY <3>2, <1>3, ResetObject
    <2>2. CASE call.place.phase # 3
        BY <2>2, <1>2, <1>3
    <2> QED
        BY <2>1, <2>2
<1>5. call.method \in DOMAIN implTypesRange /\ call.place \in PlaceType /\ PlaceOK(call.method, call.place)
    BY <1>1, <1>2 DEF CallOK, CallType, Searching
<1>6. /\ place \in PlaceType /\ call.place.phase <= place.phase
      /\ place.phase <= 3 => PlaceOK(call.method, place)
    BY <1>5, AfterOK
<1> HIDE DEF u, place
<1>7. /\ CallOK' /\ call'.pc \in {"search", "choose"} /\ call'.method = call.method
      /\ call'.current = call.current /\ call'.candidates = call.candidates /\ call'.place = place
      /\ call'.pc = "search" => place.phase <= 3
    <2>1. call \in CallType
        BY <1>2 DEF CallOK
    <2> QED
        BY <1>1, <1>6, <2>1, MoveToOK DEF CallOK
<1> QED
    BY <1>1, <1>2, <1>4, <1>6, <1>7, SearchingStep

LEMMA NothingFoundOK == ASSUME IInv, NothingFound PROVE IInv'
<1> DEFINE u == Delete(World, call.current)
<1>1. call.pc = "choose" /\ call.candidates = <<>> /\ Becomes(u) /\ call' = Idle /\ UNCHANGED <<inst, faults>>
    BY DEF NothingFound
<1>2. Searching /\ CallOK /\ WorldOK(World) /\ faults \in 0..MaxFaults
    BY <1>1 DEF IInv
<1>3. /\ call.current \in Handle /\ World.h = handles /\ handles[call.current].owner = "call"
      /\ handles \in [Handle -> Object]
    BY <1>2 DEF Searching, World, WorldOK, Typed
<1>4. ~Refuses(World, call.current)
    BY <1>2, <1>3, NotRefused
<1>5. WorldOK(u) /\ u.h = [handles EXCEPT ![call.current] = Free]
    BY <1>2, <1>3, <1>4, DeleteOK
<1>6. Candidates = {}
    BY <1>1 DEF Candidates
<1>7. \A h \in Handle : u.h[h].owner \in {"free", "app"}
    <2>1. \A h \in Handle : handles[h].owner \in {"free", "call", "candidate", "app"}
        BY <1>3 DEF Object
    <2> HIDE DEF u
    <2> QED
        BY <2>1, <1>2, <1>3, <1>5, <1>6, FreeObject DEF Searching
<1> HIDE DEF u
<1> QED
    BY <1>1, <1>2, <1>5, <1>7, RestingStep

-----------------------------------------------------------------------------
(* Close, join and disjoin                                                 *)

LEMMA CloseAppOK ==
    ASSUME NEW w, WorldOK(w), NEW h \in Handle,
           \A g \in Handle : w.h[g].owner \in {"free", "app"}
    PROVE  /\ WorldOK(CloseApp(w, h))
           /\ \A g \in Handle : CloseApp(w, h).h[g].owner \in {"free", "app"}
<1>1. CASE Refuses(w, h)
    BY <1>1 DEF CloseApp, CloseStatus
<1>2. CASE ~Refuses(w, h)
    <2>1. CloseApp(w, h) = Delete(w, h)
        BY <1>2 DEF CloseApp, CloseStatus
    <2>2. WorldOK(Delete(w, h)) /\ Delete(w, h).h = [w.h EXCEPT ![h] = Free]
        BY <1>2, DeleteOK
    <2>3. w.h \in [Handle -> Object]
        BY DEF WorldOK, Typed
    <2> QED
        BY <2>1, <2>2, <2>3, FreeObject
<1> QED
    BY <1>1, <1>2

LEMMA MFXCloseOK == ASSUME IInv, MFXClose PROVE IInv'
<1>1. PICK h \in App : Becomes(CloseApp(World, h))
    BY DEF MFXClose
<1>2. call.pc = "idle" /\ UNCHANGED <<inst, call, faults>> /\ h \in Handle
    BY DEF MFXClose, App
<1>3. WorldOK(World) /\ faults \in 0..MaxFaults /\ \A g \in Handle : World.h[g].owner \in {"free", "app"}
    BY <1>2 DEF IInv, Resting, World
<1> QED
    BY <1>1, <1>2, <1>3, CloseAppOK, RestingStep

\* A session whose parent is one of the application's, or that loses its parent
LEMMA ParentOK ==
    ASSUME NEW w, WorldOK(w), NEW s \in DOMAIN w.rt, NEW p,
           p = None \/ \E h \in Handle : w.h[h].owner = "app" /\ w.h[h].session = p /\ p \in Session,
           NEW u, IsWorld(u), u.h = w.h, u.refs = w.refs, u.rt = [w.rt EXCEPT ![s].parent = p]
    PROVE  WorldOK(u)
<1>1. /\ DOMAIN u.rt = DOMAIN w.rt
      /\ \A x \in DOMAIN w.rt \ {s} : u.rt[x] = w.rt[x]
      /\ u.rt[s] = [w.rt[s] EXCEPT !.parent = p]
    OBVIOUS
<1>2. w.rt[s] \in [lib : Lib, parent : Session \cup {None}]
    BY DEF WorldOK, Typed
<1>3. /\ u.rt[s].lib = w.rt[s].lib /\ u.rt[s].parent = p
      /\ u.rt[s] \in [lib : Lib, parent : Session \cup {None}]
    BY <1>1, <1>2
<1>4. Typed(u)
    BY <1>1, <1>3 DEF WorldOK, Typed
<1>5. Counted(u)
    BY DEF WorldOK, Counted, Holding
<1>6. Matched(u)
    BY <1>1, <1>3 DEF WorldOK, Matched
<1>7. Held(u) /\ FreeHoldsNothing(u)
    BY <1>1 DEF WorldOK, Held, FreeHoldsNothing
<1>8. ParentsAreApp(u)
    BY <1>1, <1>3 DEF WorldOK, ParentsAreApp
<1> QED
    BY <1>4, <1>5, <1>6, <1>7, <1>8 DEF WorldOK

LEMMA MFXJoinSessionOK == ASSUME IInv, MFXJoinSession PROVE IInv'
<1>1. PICK p \in App, c \in App :
          Joins(p, c) /\ rt' = [rt EXCEPT ![handles[c].session].parent = handles[p].session]
    BY DEF MFXJoinSession
<1>2. /\ call.pc = "idle" /\ UNCHANGED <<inst, handles, refs, call, faults>>
      /\ p \in Handle /\ c \in Handle /\ handles[p].owner = "app"
      /\ handles[p].session # None /\ handles[c].session # None
    BY <1>1 DEF MFXJoinSession, App, Joins
<1>3. WorldOK(World) /\ faults \in 0..MaxFaults /\ \A g \in Handle : handles[g].owner \in {"free", "app"}
    BY <1>2 DEF IInv, Resting
<1>4. handles[c].session \in DOMAIN rt /\ handles[p].session \in DOMAIN rt /\ DOMAIN rt \subseteq Session
    BY <1>2, <1>3 DEF WorldOK, Matched, Typed, World
<1> DEFINE u == [h |-> handles, refs |-> refs, rt |-> rt']
<1>5. IsWorld(u) /\ u.h = World.h /\ u.refs = World.refs
      /\ u.rt = [World.rt EXCEPT ![handles[c].session].parent = handles[p].session]
    BY <1>1 DEF IsWorld, World
<1>6. World.h = handles /\ World.rt = rt
    BY DEF World
<1>7. Becomes(u)
    BY <1>2 DEF Becomes
<1> HIDE DEF u
<1>8. WorldOK(u)
    BY <1>2, <1>3, <1>4, <1>5, <1>6, ParentOK
<1> QED
    BY <1>2, <1>3, <1>5, <1>6, <1>7, <1>8, RestingStep

LEMMA MFXDisjoinSessionOK == ASSUME IInv, MFXDisjoinSession PROVE IInv'
<1>1. PICK s \in DOMAIN rt : rt' = [rt EXCEPT ![s].parent = None]
    BY DEF MFXDisjoinSession
<1>2. call.pc = "idle" /\ UNCHANGED <<inst, handles, refs, call, faults>>
    BY DEF MFXDisjoinSession
<1>3. WorldOK(World) /\ faults \in 0..MaxFaults /\ \A g \in Handle : handles[g].owner \in {"free", "app"}
    BY <1>2 DEF IInv, Resting
<1> DEFINE u == [h |-> handles, refs |-> refs, rt |-> rt']
<1>4. IsWorld(u) /\ u.h = World.h /\ u.refs = World.refs /\ u.rt = [World.rt EXCEPT ![s].parent = None]
    BY <1>1 DEF IsWorld, World
<1>5. World.h = handles /\ World.rt = rt /\ Becomes(u)
    BY <1>2 DEF World, Becomes
<1> HIDE DEF u
<1>6. WorldOK(u)
    BY <1>3, <1>4, <1>5, ParentOK
<1> QED
    BY <1>2, <1>3, <1>4, <1>5, <1>6, RestingStep

LEMMA CloneJoinOK == ASSUME IInv, CloneJoin PROVE IInv'
<1>1. PICK fault \in {"none", "CLONE"} :
          /\ Fault(fault) /\ Counts(fault)
          /\ IF Joins(call.clones, call.current) /\ fault = "none"
             THEN Becomes([World EXCEPT !.rt[handles[call.current].session].parent = handles[call.clones].session])
             ELSE Becomes(CloseApp(World, call.current))
    BY DEF CloneJoin
<1>2. call.pc = "join" /\ call' = Idle /\ inst' = inst
    BY DEF CloneJoin
<1>3. WorldOK(World) /\ Resting /\ faults' \in 0..MaxFaults
    BY <1>1, <1>2, FaultsOK DEF IInv
<1>4. /\ call.current \in Handle /\ call.clones \in Handle
      /\ \A g \in Handle : handles[g].owner \in {"free", "app"}
      /\ World.h = handles /\ World.rt = rt
    BY <1>2, <1>3 DEF Resting, World
<1>5. CASE Joins(call.clones, call.current) /\ fault = "none"
    <2> DEFINE c == handles[call.current].session
               p == handles[call.clones].session
               u == [World EXCEPT !.rt[c].parent = p]
    <2>1. Becomes(u)
        BY <1>1, <1>5
    <2>2. p # None /\ c # None
        BY <1>5 DEF Joins
    <2>3. c \in DOMAIN rt /\ p \in DOMAIN rt /\ DOMAIN rt \subseteq Session
        BY <1>3, <1>4, <2>2 DEF WorldOK, Matched, Typed
    <2>4. handles[call.clones].owner = "app"
        BY <1>3, <1>4, <2>2 DEF WorldOK, FreeHoldsNothing
    <2>5. IsWorld(u) /\ u.h = World.h /\ u.refs = World.refs /\ u.rt = [World.rt EXCEPT ![c].parent = p]
        BY DEF World, IsWorld
    <2> HIDE DEF u
    <2>6. WorldOK(u)
        BY <1>3, <1>4, <2>3, <2>4, <2>5, ParentOK
    <2> QED
        BY <1>2, <1>3, <1>4, <2>1, <2>5, <2>6, RestingStep
<1>6. CASE ~(Joins(call.clones, call.current) /\ fault = "none")
    <2>1. Becomes(CloseApp(World, call.current))
        BY <1>1, <1>6
    <2>2. WorldOK(CloseApp(World, call.current))
          /\ \A g \in Handle : CloseApp(World, call.current).h[g].owner \in {"free", "app"}
        BY <1>3, <1>4, CloseAppOK
    <2> QED
        BY <1>2, <1>3, <2>1, <2>2, RestingStep
<1> QED
    BY <1>5, <1>6

-----------------------------------------------------------------------------
(* The calls that open one library                                         *)

LEMMA MFXInitEx2OK == ASSUME IInv, MFXInitEx2 PROVE IInv'
<1>1. PICK lib \in Lib, v \in Versions, impl \in {"HARDWARE", "SOFTWARE"},
           fault \in {"none", "LOAD", "INIT", "VERSION"} :
        LET h == FreeHandle(World)
            type == IF impl = "SOFTWARE" THEN "sw" ELSE "hw"
            w == LoadSelectedDLL(Allocate(World, h, v), h, lib, type, impl, fault)
        IN  /\ Fault(fault) /\ Counts(fault)
            /\ Becomes(IF w.h[h].status = "NONE" THEN [w EXCEPT !.h[h].owner = "app"] ELSE Delete(w, h))
    BY DEF MFXInitEx2
<1> DEFINE h == FreeHandle(World)
           type == IF impl = "SOFTWARE" THEN "sw" ELSE "hw"
           a == Allocate(World, h, v)
           w == LoadSelectedDLL(a, h, lib, type, impl, fault)
           kept == [w EXCEPT !.h[h].owner = "app"]
           u == IF w.h[h].status = "NONE" THEN kept ELSE Delete(w, h)
<1>2. Fault(fault) /\ Counts(fault) /\ Becomes(u)
    BY <1>1
<1>3. call.pc = "idle" /\ Cardinality(App) < MaxSessions /\ UNCHANGED <<inst, call>>
    BY DEF MFXInitEx2
<1>4. /\ WorldOK(World) /\ faults' \in 0..MaxFaults /\ World.h = handles
      /\ \A g \in Handle : handles[g].owner \in {"free", "app"}
      /\ handles \in [Handle -> Object]
    BY <1>2, <1>3, FaultsOK DEF IInv, Resting, World, WorldOK, Typed
<1>5. h \in Handle /\ handles[h].owner = "free"
    BY <1>3, IdleHandle
<1> HIDE DEF h
<1>6. WorldOK(a) /\ a.h = [handles EXCEPT ![h] = New(v)] /\ New(v).owner = "call"
    <2>1. v \in Req /\ World.h[h].owner = "free"
        BY <1>4, <1>5 DEF Req
    <2>2. WorldOK(World) /\ World.h = handles
        BY <1>4
    <2>3. WorldOK(a) /\ a.h = [World.h EXCEPT ![h] = New(v)]
        BY ONLY <1>5, <2>1, <2>2, AllocateOK
    <2>4. New(v).owner = "call"
        BY <2>1, NewObject
    <2> QED
        BY <2>2, <2>3, <2>4
<1>7. a.h[h].owner = "call" /\ \A g \in Handle \ {h} : a.h[g] = handles[g]
    BY <1>4, <1>5, <1>6
<1>8. impl \in Impl /\ type \in {"hw", "sw"} /\ lib \in Lib \cup {None}
    BY DEF Impl, Types
<1> HIDE DEF a, type
<1>9. /\ WorldOK(w) /\ w.h \in [Handle -> Object]
      /\ \A g \in Handle \ {h} : w.h[g] = a.h[g]
      /\ w.h[h].owner = "call"
    <2>1. WorldOK(a) /\ h \in Handle /\ a.h[h].owner = "call"
        BY <1>5, <1>6, <1>7
    <2>2. LoadedOK(a, w, h)
        BY ONLY <2>1, <1>8, LoadOK
    <2> HIDE DEF w
    <2> QED
        BY <2>2 DEF LoadedOK
<1> HIDE DEF w
<1>10. CASE w.h[h].status = "NONE"
    <2> DEFINE r == [w.h[h] EXCEPT !.owner = "app"]
    <2>1. IsWorld(kept) /\ kept.h = [w.h EXCEPT ![h] = r] /\ kept.refs = w.refs /\ kept.rt = w.rt
        BY <1>9 DEF WorldOK, IsWorld
    <2>2. r \in Object /\ SameHeld(r, w.h[h]) /\ r.owner = "app"
        BY <1>5, <1>9 DEF Object, SameHeld
    <2> HIDE DEF r, kept
    <2>3. WorldOK(kept)
        BY <1>5, <1>9, <2>1, <2>2, ChangeOK
    <2>4. \A g \in Handle : kept.h[g].owner \in {"free", "app"}
        BY <1>4, <1>5, <1>7, <1>9, <2>1, <2>2
    <2> QED
        BY <1>2, <1>3, <1>4, <1>10, <2>3, <2>4, RestingStep
<1>11. CASE w.h[h].status # "NONE"
    <2>1. ~Refuses(w, h)
        BY <1>5, <1>9, NotRefused
    <2>2. WorldOK(Delete(w, h)) /\ Delete(w, h).h = [w.h EXCEPT ![h] = Free]
        BY <1>5, <1>9, <2>1, DeleteOK
    <2>3. \A g \in Handle : Delete(w, h).h[g].owner \in {"free", "app"}
        BY <1>4, <1>5, <1>7, <1>9, <2>2, FreeObject
    <2> QED
        BY <1>2, <1>3, <1>4, <1>11, <2>2, <2>3, RestingStep
<1> QED
    BY <1>10, <1>11

LEMMA Clone2OK == ASSUME IInv, Clone2 PROVE IInv'
<1> DEFINE h == FreeHandle(World)
           s == FreeSession(World)
<1>1. PICK parent \in App, fault \in {"none", "LOAD", "CLONE", "VERSION"} :
        LET lib == handles[parent].module
        IN  /\ Major(handles[parent].version) = 2 /\ lib # None
            /\ Fault(fault) /\ Counts(fault)
            /\ IF fault # "none" THEN UNCHANGED <<handles, refs, rt>>
               ELSE Becomes([h |-> [handles EXCEPT ![h] =
                                      [New(handles[parent].req) EXCEPT
                                         !.module = lib, !.table = lib, !.session = s, !.type = handles[parent].type,
                                         !.impl = handles[parent].impl, !.status = "NONE", !.version = V(2, 9),
                                         !.owner = "app"]],
                             refs |-> [refs EXCEPT ![lib] = @ + 1],
                             rt |-> With(rt, s, lib)])
    BY DEF Clone2
<1> DEFINE lib == handles[parent].module
           r == [New(handles[parent].req) EXCEPT
                   !.module = lib, !.table = lib, !.session = s, !.type = handles[parent].type,
                   !.impl = handles[parent].impl, !.status = "NONE", !.version = V(2, 9),
                   !.owner = "app"]
           u == [h |-> [handles EXCEPT ![h] = r], refs |-> [refs EXCEPT ![lib] = @ + 1], rt |-> With(rt, s, lib)]
<1>2. /\ Fault(fault) /\ Counts(fault) /\ lib # None
      /\ IF fault # "none" THEN UNCHANGED <<handles, refs, rt>> ELSE Becomes(u)
    BY <1>1
<1>3. call.pc = "idle" /\ Cardinality(App) < MaxSessions /\ UNCHANGED <<inst, call>>
    BY DEF Clone2
<1>4. /\ WorldOK(World) /\ faults' \in 0..MaxFaults
      /\ World.h = handles /\ World.rt = rt /\ World.refs = refs
      /\ \A g \in Handle : handles[g].owner \in {"free", "app"}
      /\ handles \in [Handle -> Object]
    BY <1>2, <1>3, FaultsOK DEF IInv, Resting, World, WorldOK, Typed
<1>5. CASE fault # "none"
    <2>1. Becomes(World)
        BY <1>2, <1>4, <1>5 DEF Becomes
    <2> QED
        BY <1>3, <1>4, <2>1, RestingStep
<1>6. CASE fault = "none"
    <2>1. h \in Handle /\ handles[h].owner = "free"
        BY <1>3, IdleHandle
    <2>2. handles[h].module = None /\ handles[h].session = None
        BY <1>4, <2>1 DEF WorldOK, FreeHoldsNothing
    <2>3. s \in Session \ DOMAIN rt
        BY <1>4, <2>1, <2>2, FreeSessionOK
    <2>4. handles[parent] \in Object /\ lib \in Lib
        BY <1>2, <1>4 DEF App, Object
    <2> HIDE DEF h, s
    <2>5. Becomes(u)
        BY <1>2, <1>6
    <2>6. r \in Object /\ r.module = lib /\ r.table = lib /\ r.session = s /\ r.owner = "app"
        <3>1. New(handles[parent].req) \in Object
            BY <2>4, NewObject DEF Object
        <3> QED
            BY <3>1, <2>3, <2>4, VersionsOK DEF Object
    <2> HIDE DEF r, lib
    <2>7. /\ IsWorld(u) /\ u.h = [handles EXCEPT ![h] = r] /\ u.rt = With(rt, s, lib)
          /\ u.refs = [refs EXCEPT ![lib] = @ + 1]
        BY DEF IsWorld
    <2>8. Differs(World, u, h, r)
        <3>1. ASSUME NEW l \in Lib
              PROVE  u.refs[l] = refs[l] - One(handles[h].module = l) + One(r.module = l)
            <4>1. refs[l] \in Nat /\ DOMAIN refs = Lib
                BY <1>4, RefsAreNumbers DEF WorldOK
            <4> QED
                BY <4>1, <2>2, <2>6, <2>7, NoneIsNone DEF One
        <3>2. u.refs = [l \in Lib |-> u.refs[l]]
            BY <1>4, <2>7 DEF WorldOK, Counted
        <3>3. u.refs = [l \in Lib |-> refs[l] - One(handles[h].module = l) + One(r.module = l)]
            BY <3>1, <3>2
        <3> QED
            BY <1>4, <2>7, <3>3 DEF Differs
    <2> HIDE DEF u
    <2>9. WorldOK(u)
        BY <1>4, <2>1, <2>2, <2>3, <2>4, <2>6, <2>7, <2>8, OpensSession
    <2>10. \A g \in Handle : u.h[g].owner \in {"free", "app"}
        BY <1>4, <2>1, <2>6, <2>7
    <2> QED
        BY <1>3, <1>4, <2>5, <2>9, <2>10, RestingStep
<1> QED
    BY <1>5, <1>6

-----------------------------------------------------------------------------
(* A library is tried                                                      *)

\* The handles of the candidates and of the application, and the one at work,
\* leave a handle free.
LEMMA SearchHandle ==
    ASSUME Searching, CallOK, call.place.phase <= 3, NEW w,
           \A g \in Handle \ {call.current} : w.h[g] = handles[g],
           handles \in [Handle -> Object], w.h[call.current].owner # "free"
    PROVE  /\ FreeHandle(w) \in Handle
           /\ w.h[FreeHandle(w)].owner = "free"
<1> DEFINE n == Len(call.candidates)
           nth == [i \in 1..n |-> call.candidates[i]]
           S == App \cup Candidates \cup {call.current}
<1>1. call.candidates \in Seq(Handle) /\ n \in Nat /\ n < 3 /\ DOMAIN call.candidates = 1..n
    BY DEF Searching, CallOK, CallType, PlaceType
<1>2. Candidates = {call.candidates[i] : i \in 1..n} /\ Candidates \subseteq Handle
    BY <1>1 DEF Candidates
<1>3. IsFiniteSet(Candidates) /\ Cardinality(Candidates) <= n
    <2>1. nth \in Surjection(1..n, Candidates)
        BY <1>2 DEF Surjection
    <2>2. IsFiniteSet(1..n) /\ Cardinality(1..n) = n
        BY <1>1, FS_Interval
    <2> HIDE DEF nth, n
    <2>3. Cardinality(Candidates) <= Cardinality(1..n)
        BY <2>1, <2>2, FS_Surjection
    <2> QED
        BY <1>2, <2>2, <2>3, Handles
<1>4. /\ IsFiniteSet(App) /\ Cardinality(App) \in Nat /\ App \subseteq Handle
      /\ Cardinality(Candidates) \in Nat /\ MaxSessions \in Nat /\ Cardinality(App) < MaxSessions
    BY <1>2, Handles, WindowsAssumption DEF App, Searching
<1>5. IsFiniteSet(App \cup Candidates)
      /\ Cardinality(App \cup Candidates) <= Cardinality(App) + Cardinality(Candidates)
    <2>1. IsFiniteSet(App \cap Candidates) /\ Cardinality(App \cap Candidates) \in Nat
        BY <1>2, Handles
    <2>2. /\ IsFiniteSet(App \cup Candidates)
          /\ Cardinality(App \cup Candidates)
               = Cardinality(App) + Cardinality(Candidates) - Cardinality(App \cap Candidates)
        BY <1>3, <1>4, FS_Union
    <2> QED
        BY <1>4, <2>1, <2>2
<1>6. Cardinality(S) <= Cardinality(App \cup Candidates) + 1
    <2>1. Cardinality(App \cup Candidates) \in Nat
        BY <1>2, <1>4, Handles
    <2>2. Cardinality(S) = IF call.current \in App \cup Candidates THEN Cardinality(App \cup Candidates)
                           ELSE Cardinality(App \cup Candidates) + 1
        BY <1>5, FS_AddElement
    <2> QED
        BY <2>1, <2>2
<1>7. S \in SUBSET Handle /\ Cardinality(S) \in Nat /\ Cardinality(App \cup Candidates) \in Nat
    BY <1>2, <1>4, Handles DEF Searching
<1>8. Cardinality(S) < MaxSessions + 4
    BY <1>1, <1>3, <1>4, <1>5, <1>6, <1>7
<1>9. \A h \in Handle \ S : w.h[h].owner = "free"
    <2>1. \A h \in Handle : handles[h].owner \in {"free", "call", "candidate", "app"}
        BY DEF Object
    <2> QED
        BY <2>1 DEF Searching, App
<1> HIDE DEF S
<1> QED
    BY <1>7, <1>8, <1>9, FreeHandleOK

\* what TryLibrary makes of the world if the call named fault fails
Tried(fault) ==
    LoadSelectedDLL(World, call.current, SelectDLLVersion(call.place, call.last).lib,
                    SelectDLLVersion(call.place, call.last).type, Types[call.place.t].impl, fault)

LEMMA TriedOK ==
    ASSUME IInv, call.pc = "search", NEW fault
    PROVE  /\ Searching /\ CallOK /\ World.h = handles /\ handles \in [Handle -> Object]
           /\ call.place.phase \in 1..3 /\ call.current \in Handle
           /\ SelectDLLVersion(call.place, call.last).last \in LastType
           /\ WorldOK(Tried(fault)) /\ Tried(fault).h \in [Handle -> Object]
           /\ \A g \in Handle \ {call.current} : Tried(fault).h[g] = handles[g]
           /\ Tried(fault).h[call.current].owner = "call"
           /\ Tried(fault).h[call.current].status \in {"NONE", "PARTIAL_ACCELERATION"} =>
                  Tried(fault).h[call.current].module \in Lib
<1>1. Searching /\ CallOK /\ WorldOK(World) /\ inst \in Installations
    BY DEF IInv
<1>2. World.h = handles /\ handles \in [Handle -> Object]
    BY <1>1 DEF World, WorldOK, Typed
<1>3. /\ call.method \in DOMAIN implTypesRange /\ call.place \in PlaceType /\ call.last \in LastType
      /\ PlaceOK(call.method, call.place) /\ call.current \in Handle
    BY <1>1 DEF Searching, CallOK, CallType
<1>4. call.place.phase \in 1..3
    BY <1>3 DEF PlaceOK
<1> DEFINE next == SelectDLLVersion(call.place, call.last)
           impl == Types[call.place.t].impl
<1>5. /\ next.lib \in Lib \cup {None} /\ next.type \in {"hw", "sw"} /\ next.last \in LastType
      /\ impl \in Impl
    BY <1>1, <1>3, SelectOK
<1>6. World.h[call.current].owner = "call"
    BY <1>1, <1>2 DEF Searching
<1> DEFINE w == LoadSelectedDLL(World, call.current, next.lib, next.type, impl, fault)
<1>7. Tried(fault) = w
    BY DEF Tried
<1> HIDE DEF next, impl
<1>8. LoadedOK(World, w, call.current)
    <2>1. WorldOK(World) /\ call.current \in Handle /\ World.h[call.current].owner = "call"
        BY <1>1, <1>3, <1>6
    <2>2. next.lib \in Lib \cup {None} /\ next.type \in {"hw", "sw"} /\ impl \in Impl
        BY <1>5
    <2> QED
        BY ONLY <2>1, <2>2, LoadOK
<1> HIDE DEF w
<1>9. next.last = SelectDLLVersion(call.place, call.last).last
    BY DEF next
<1> QED
    BY <1>1, <1>2, <1>3, <1>4, <1>5, <1>7, <1>8, <1>9 DEF LoadedOK

\* The library is not what the search asks for; it is closed, or kept for the next
\* one to close.
Rejects(fault, u) ==
    /\ ~Accepted(call.place.phase, Tried(fault).h[call.current], fault)
    /\ u = Tried(fault) \/ u = Close(Tried(fault), call.current)
    /\ Becomes(u)
    /\ call' = [call EXCEPT !.last = SelectDLLVersion(call.place, call.last).last,
                            !.faulted = call.faulted \/ fault # "none"]

LEMMA RejectedOK ==
    ASSUME IInv, call.pc = "search", inst' = inst, faults' \in 0..MaxFaults, NEW fault, NEW u, Rejects(fault, u)
    PROVE  /\ IInv'
           /\ handles'[call.current].version = Tried(fault).h[call.current].version
           /\ handles'[call.current].media = Tried(fault).h[call.current].media
           /\ handles'[call.current].req = Tried(fault).h[call.current].req
           /\ \A g \in Handle \ {call.current} : handles'[g] = handles[g]
           /\ call'.pc = "search" /\ call'.method = call.method /\ call'.place = call.place
           /\ call'.current = call.current /\ call'.candidates = call.candidates
           /\ call'.last = SelectDLLVersion(call.place, call.last).last
           /\ call'.faulted = (call.faulted \/ fault # "none")
<1> USE DEF Rejects
<1> DEFINE w == Tried(fault)
           last == SelectDLLVersion(call.place, call.last).last
           faulted == call.faulted \/ fault # "none"
<1>1. /\ Searching /\ CallOK /\ call.current \in Handle /\ last \in LastType
      /\ WorldOK(w) /\ w.h \in [Handle -> Object]
      /\ \A g \in Handle \ {call.current} : w.h[g] = handles[g]
      /\ w.h[call.current].owner = "call"
    BY TriedOK
<1> HIDE DEF w, last
<1>2. /\ WorldOK(u) /\ u.h[call.current].owner = "call"
      /\ u.h[call.current].version = w.h[call.current].version
      /\ u.h[call.current].media = w.h[call.current].media
      /\ u.h[call.current].req = w.h[call.current].req
      /\ \A g \in Handle \ {call.current} : u.h[g] = handles[g]
    <2>1. CASE u = w
        BY <2>1, <1>1
    <2>2. CASE u = Close(w, call.current)
        <3>1. ~Refuses(w, call.current)
            BY <1>1, NotRefused
        <3>2. WorldOK(u) /\ u.h = [w.h EXCEPT ![call.current] = Reset(w.h[call.current])]
            BY <2>2, <3>1, <1>1, CloseOK
        <3>3. w.h[call.current] \in Object /\ u.h[call.current] = Reset(w.h[call.current])
            BY <3>2, <1>1
        <3> QED
            BY <3>2, <3>3, <1>1, ResetObject
    <2> QED
        BY <2>1, <2>2 DEF w
<1>3. call' = [call EXCEPT !.last = last, !.faulted = faulted]
    BY DEF last
<1>4. /\ CallOK' /\ call'.pc = "search" /\ call'.method = call.method /\ call'.place = call.place
      /\ call'.current = call.current /\ call'.candidates = call.candidates
      /\ call'.last = last /\ call'.faulted = faulted
    <2>1. faulted \in BOOLEAN
        BY <1>1 DEF CallOK, CallType
    <2> HIDE DEF faulted
    <2> QED
        BY <1>1, <1>3, <2>1 DEF CallOK, CallType
<1>5. PlaceOK(call.method, call.place) /\ call.place.phase <= call.place.phase
    BY <1>1 DEF Searching, PlaceOK
<1>6. handles' = u.h
    BY DEF Becomes
<1> HIDE DEF faulted, Rejects
<1>7. IInv'
    BY <1>1, <1>2, <1>4, <1>5, SearchingStep DEF Rejects
<1> QED
    BY <1>2, <1>4, <1>6, <1>7 DEF w, last, faulted

LEMMA AppendRange ==
    ASSUME NEW S, NEW s \in Seq(S), NEW x \in S
    PROVE  /\ {Append(s, x)[i] : i \in DOMAIN Append(s, x)} = {s[i] : i \in DOMAIN s} \cup {x}
           /\ Len(Append(s, x)) = Len(s) + 1
<1> DEFINE n == Len(s)
           t == Append(s, x)
<1>1. /\ n \in Nat /\ DOMAIN s = 1..n /\ DOMAIN t = 1 .. n + 1 /\ Len(t) = n + 1
      /\ \A i \in 1..n : t[i] = s[i]
      /\ t[n + 1] = x
    OBVIOUS
<1> HIDE DEF t, n
<1>2. 1 .. n + 1 = (1..n) \cup {n + 1}
    BY <1>1
<1>3. ASSUME NEW i \in DOMAIN t
      PROVE  t[i] \in {s[j] : j \in DOMAIN s} \cup {x}
    BY <1>1, <1>2
<1>4. ASSUME NEW j \in DOMAIN s
      PROVE  \E i \in DOMAIN t : t[i] = s[j]
    BY <1>1, <1>2
<1>5. \E i \in DOMAIN t : t[i] = x
    BY <1>1, <1>2
<1>6. {t[i] : i \in DOMAIN t} = {s[i] : i \in DOMAIN s} \cup {x}
    BY <1>3, <1>4, <1>5
<1> QED
    BY <1>1, <1>6 DEF t, n

\* The library is a candidate, and another handle is made for the next search.
Accepts(fault, media, kept, g, v) ==
    /\ fault = "none" /\ Accepted(call.place.phase, Tried(fault).h[call.current], fault)
    /\ Tried(fault).h[call.current].status \in {"NONE", "PARTIAL_ACCELERATION"}
    /\ media \in Media /\ IsWorld(kept)
    /\ media = IF call.place.phase = 1 /\ Exports(SelectDLLVersion(call.place, call.last).lib, V(1, 19))
               THEN Runtime[SelectDLLVersion(call.place, call.last).lib].media
               ELSE Tried(fault).h[call.current].media
    /\ kept.h = [Tried(fault).h EXCEPT ![call.current] = [@ EXCEPT !.owner = "candidate", !.media = media]]
    /\ kept.refs = Tried(fault).refs /\ kept.rt = Tried(fault).rt
    /\ g = FreeHandle(kept) /\ v = Tried(fault).h[call.current].req
    /\ Becomes(Allocate(kept, g, v))
    /\ call' = MoveTo([call EXCEPT !.current = g, !.candidates = Append(@, call.current)],
                      First(call.method, call.place.phase + 1))

\* The handles and the call after it
AcceptedStep(fault, media, g, v) ==
    /\ handles'[call.current] = [Tried(fault).h[call.current] EXCEPT !.owner = "candidate", !.media = media]
    /\ handles'[g] = New(v) /\ g # call.current /\ handles[g].owner = "free"
    /\ \A f \in Handle \ {g, call.current} : handles'[f] = handles[f]
    /\ Candidates' = Candidates \cup {call.current}
    /\ call'.pc = IF call.place.phase = 3 THEN "choose" ELSE "search"
    /\ call'.method = call.method /\ call'.current = g
    /\ call'.place = First(call.method, call.place.phase + 1) /\ call'.last = NoLast
    /\ call'.faulted = call.faulted

LEMMA AcceptedOK ==
    ASSUME IInv, call.pc = "search", inst' = inst, faults' \in 0..MaxFaults,
           NEW fault, NEW media, NEW kept, NEW g, NEW v, Accepts(fault, media, kept, g, v)
    PROVE  IInv' /\ AcceptedStep(fault, media, g, v)
<1> USE DEF Accepts
<1> DEFINE w == Tried(fault)
           h == call.current
           r == [w.h[h] EXCEPT !.owner = "candidate", !.media = media]
           u == Allocate(kept, g, v)
<1>1. /\ Searching /\ CallOK /\ h \in Handle /\ handles \in [Handle -> Object]
      /\ call.place.phase \in 1..3
      /\ WorldOK(w) /\ w.h \in [Handle -> Object]
      /\ \A f \in Handle \ {h} : w.h[f] = handles[f]
      /\ w.h[h].owner = "call" /\ w.h[h].module \in Lib
    BY TriedOK
<1>2. /\ kept.h = [w.h EXCEPT ![h] = r] /\ kept.refs = w.refs /\ kept.rt = w.rt
      /\ w.h[h] \in Object /\ v = w.h[h].req
    BY <1>1
<1> HIDE DEF w
<1>3. /\ r \in Object /\ SameHeld(r, w.h[h]) /\ r.owner = "candidate" /\ r.module = w.h[h].module
    BY <1>2 DEF Object, SameHeld
<1> HIDE DEF r
<1>4. WorldOK(kept)
    BY <1>1, <1>2, <1>3, ChangeOK
<1>5. /\ kept.h[h] = r /\ kept.h \in [Handle -> Object]
      /\ \A f \in Handle \ {h} : kept.h[f] = handles[f]
    <2>1. /\ kept.h = [w.h EXCEPT ![h] = r] /\ h \in Handle /\ w.h \in [Handle -> Object] /\ r \in Object
          /\ \A f \in Handle \ {h} : w.h[f] = handles[f]
        BY <1>1, <1>2, <1>3
    <2> HIDE DEF h
    <2> QED
        BY ONLY <2>1
<1>6. g \in Handle /\ kept.h[g].owner = "free"
    <2>1. call.place.phase <= 3
        BY <1>1
    <2>2. kept.h[call.current].owner # "free"
        BY <1>3, <1>5
    <2> QED
        BY <1>1, <1>5, <2>1, <2>2, SearchHandle
<1>7. v \in Req
    BY <1>2 DEF Object
<1>8. WorldOK(u) /\ u.h = [kept.h EXCEPT ![g] = New(v)]
    <2>1. WorldOK(kept) /\ g \in Handle /\ kept.h[g].owner = "free" /\ v \in Req
        BY <1>4, <1>6, <1>7
    <2> QED
        BY ONLY <2>1, AllocateOK
<1>9. New(v).owner = "call" /\ New(v) \in Object
    BY <1>7, NewObject
<1> HIDE DEF u
<1>10. /\ g # h
       /\ u.h[g].owner = "call" /\ u.h[h] = r
       /\ \A f \in Handle \ {g, h} : u.h[f] = handles[f]
       /\ handles[g].owner = "free"
    <2>1. g # h
        BY <1>3, <1>5, <1>6
    <2>2. u.h[g] = New(v) /\ \A f \in Handle \ {g} : u.h[f] = kept.h[f]
        BY <1>5, <1>6, <1>8
    <2>3. kept.h[g] = handles[g]
        BY <2>1, <1>5, <1>6
    <2>4. h \in Handle
        BY <1>1
    <2> HIDE DEF h
    <2> QED
        BY ONLY <2>1, <2>2, <2>3, <2>4, <1>5, <1>6, <1>9
<1>11. WorldOK(World)' /\ handles' = u.h
    BY <1>8 DEF WorldOK, IsWorld, Becomes, World, u
<1> DEFINE c == [call EXCEPT !.current = g, !.candidates = Append(@, h)]
           place == First(call.method, call.place.phase + 1)
<1>12. /\ place \in PlaceType /\ place.phase = call.place.phase + 1
       /\ place.phase <= 3 => PlaceOK(call.method, place)
    <2>1. call.place.phase + 1 \in 1..4 /\ call.method \in DOMAIN implTypesRange
        BY <1>1 DEF CallOK, CallType
    <2> QED
        BY <2>1, FirstOK
<1>13. /\ c \in CallType /\ c.pc = "search" /\ c.method = call.method /\ c.current = g
       /\ c.faulted = call.faulted
       /\ c.candidates = Append(call.candidates, h)
    <2>1. call \in CallType /\ call.candidates \in Seq(Handle)
        BY <1>1 DEF CallOK, CallType
    <2>2. Append(call.candidates, h) \in Seq(Handle)
        BY <1>1, <2>1
    <2> QED
        BY <1>6, <2>1, <2>2 DEF CallType
<1>14. call' = MoveTo(c, place)
    OBVIOUS
<1> HIDE DEF c, place, h
<1>15. /\ CallOK' /\ call'.pc \in {"search", "choose"} /\ call'.method = call.method
       /\ call'.current = g /\ call'.candidates = Append(call.candidates, h) /\ call'.place = place
       /\ call'.pc = "search" => PlaceOK(call.method, place)
    <2>1. c \in CallType /\ place \in PlaceType
        BY <1>12, <1>13
    <2>2. /\ c.pc \in {"search", "choose"} => MoveTo(c, place).pc \in {"search", "choose"}
          /\ MoveTo(c, place) \in CallType
          /\ MoveTo(c, place).pc = "search" => place.phase <= 3
          /\ MoveTo(c, place).place = place
          /\ MoveTo(c, place).method = c.method /\ MoveTo(c, place).current = c.current
          /\ MoveTo(c, place).candidates = c.candidates
        BY ONLY <2>1, MoveToOK
    <2> QED
        BY <1>12, <1>13, <1>14, <2>2 DEF CallOK
<1>16. Candidates' = Candidates \cup {h} /\ Len(call'.candidates) = Len(call.candidates) + 1
    <2> DEFINE t == Append(call.candidates, h)
    <2>1. call.candidates \in Seq(Handle) /\ h \in Handle
        BY <1>1 DEF CallOK, CallType, h
    <2>2. /\ {t[i] : i \in DOMAIN t} = {call.candidates[i] : i \in DOMAIN call.candidates} \cup {h}
          /\ Len(t) = Len(call.candidates) + 1
        BY ONLY <2>1, AppendRange
    <2>3. call'.candidates = t
        BY <1>15
    <2> HIDE DEF t
    <2>4. Candidates' = {t[i] : i \in DOMAIN t}
        BY <2>3 DEF Candidates
    <2>5. Candidates = {call.candidates[i] : i \in DOMAIN call.candidates}
        BY DEF Candidates
    <2> QED
        BY ONLY <2>2, <2>3, <2>4, <2>5
<1>17. App' = App
    BY <1>1, <1>3, <1>6, <1>10, <1>11 DEF App, Searching, h
<1>18. Searching'
    <2>1. /\ \A f \in Handle : handles[f].owner = "call" => f = h
          /\ \A f \in Handle : handles[f].owner = "candidate" <=> f \in Candidates
          /\ \A f \in Candidates : handles[f].module \in Lib
          /\ Len(call.candidates) < call.place.phase /\ Cardinality(App) < MaxSessions
          /\ handles[h].owner = "call"
        BY <1>1 DEF Searching, h
    <2>2. \A f \in Handle : handles'[f].owner = "call" => f = g
        BY <2>1, <1>3, <1>10, <1>11
    <2>3. \A f \in Handle : handles'[f].owner = "candidate" <=> f \in Candidates'
        BY <2>1, <1>1, <1>3, <1>6, <1>10, <1>11, <1>16
    <2>4. \A f \in Candidates' : handles'[f].module \in Lib
        <3>1. call.candidates \in Seq(Handle)
            BY <1>1 DEF CallOK, CallType
        <3>2. Candidates \subseteq Handle
            BY <3>1 DEF Candidates
        <3>3. g \notin Candidates
            BY <2>1, <1>6, <1>10
        <3> QED
            BY <3>2, <3>3, <2>1, <1>1, <1>3, <1>10, <1>11, <1>16
    <2>5. Len(call'.candidates) < call'.place.phase
        <3>1. Len(call.candidates) \in Nat /\ call.place.phase \in Int
            BY <1>1 DEF CallOK, CallType
        <3> QED
            BY <3>1, <2>1, <1>12, <1>15, <1>16
    <2> QED
        BY <2>1, <2>2, <2>3, <2>4, <2>5, <1>6, <1>10, <1>11, <1>15, <1>17 DEF Searching
<1>19. IInv'
    BY <1>11, <1>15, <1>18 DEF IInv
<1>20. /\ call'.last = NoLast /\ call'.faulted = call.faulted
       /\ call'.pc = IF call.place.phase = 3 THEN "choose" ELSE "search"
    <2>1. call' = [c EXCEPT !.pc = IF place.phase > 3 THEN "choose" ELSE @, !.place = place, !.last = NoLast]
        BY <1>14 DEF MoveTo
    <2>2. call'.last = NoLast /\ call'.faulted = c.faulted /\ call'.pc = IF place.phase > 3 THEN "choose" ELSE c.pc
        BY <2>1, <1>13 DEF CallType
    <2>3. place.phase > 3 <=> call.place.phase = 3
        BY <1>1, <1>12
    <2> QED
        BY <2>2, <2>3, <1>13
<1>21. handles'[h] = r /\ handles'[g] = New(v) /\ \A f \in Handle \ {g, h} : handles'[f] = handles[f]
    BY <1>5, <1>6, <1>8, <1>10, <1>11
<1> HIDE DEF Accepts
<1> QED
    BY <1>10, <1>15, <1>16, <1>19, <1>20, <1>21 DEF r, h, w, place, AcceptedStep

LEMMA TryLibraryCases ==
    ASSUME IInv, TryLibrary
    PROVE  /\ call.pc = "search" /\ inst' = inst /\ faults' \in 0..MaxFaults
           /\ SelectDLLVersion(call.place, call.last).lib \in Lib
           /\ \/ \E fault, u : Rejects(fault, u)
              \/ \E fault, media, kept, g, v : Accepts(fault, media, kept, g, v)
<1> DEFINE h == call.current
           phase == call.place.phase
           platform(n) == phase = 1 /\ Exports(n.lib, V(1, 19))
           media(n, w) == IF platform(n) THEN Runtime[n.lib].media ELSE w.h[h].media
           keep(n, w) == [w EXCEPT !.h[h].owner = "candidate",
                                   !.h[h].media = IF platform(n) THEN Runtime[n.lib].media ELSE @]
           f(n, w) == FreeHandle(keep(n, w))
           loads(n, fault) == LoadSelectedDLL(World, h, n.lib, n.type, Types[call.place.t].impl, fault)
           accepts(n, w) == /\ Becomes(Allocate(keep(n, w), f(n, w), w.h[h].req))
                            /\ call' = MoveTo([call EXCEPT !.current = f(n, w), !.candidates = Append(@, h)],
                                              First(call.method, phase + 1))
           rejects(n, w, fault) ==
               /\ \E c \in {IF phase = 2 /\ w.h[h].status = "NONE" THEN w ELSE Close(w, h)} : Becomes(c)
               /\ call' = [call EXCEPT !.last = n.last, !.faulted = @ \/ fault # "none"]
<1>1. PICK n \in {SelectDLLVersion(call.place, call.last)},
           fault \in {"none", "LOAD", "INIT", "VERSION", "PLATFORM"} :
       /\ n.lib # None /\ Fault(fault) /\ Counts(fault)
       /\ \E w \in {loads(n, fault)} :
            /\ fault = "PLATFORM" => platform(n)
            /\ IF Accepted(phase, w.h[h], fault) THEN fault = "none" /\ accepts(n, w) ELSE rejects(n, w, fault)
    BY DEF TryLibrary
<1>2. PICK w \in {loads(n, fault)} :
        IF Accepted(phase, w.h[h], fault) THEN fault = "none" /\ accepts(n, w) ELSE rejects(n, w, fault)
    BY <1>1
<1>3. n = SelectDLLVersion(call.place, call.last)
    OBVIOUS
<1>4. w = Tried(fault)
    <2>1. w = loads(n, fault)
        OBVIOUS
    <2> QED
        BY <2>1, <1>3 DEF Tried
<1>5. call.pc = "search" /\ inst' = inst
    BY DEF TryLibrary
<1>6. faults' \in 0..MaxFaults
    BY <1>1, FaultsOK DEF IInv
<1>7. /\ WorldOK(w) /\ w.h \in [Handle -> Object] /\ h \in Handle
      /\ phase \in 1..3 /\ CallOK
    BY <1>4, <1>5, TriedOK
<1>8. n.lib \in Lib
    <2>1. /\ call.method \in DOMAIN implTypesRange /\ call.place \in PlaceType /\ call.last \in LastType
          /\ PlaceOK(call.method, call.place) /\ inst \in Installations
        BY <1>5 DEF IInv, Searching, CallOK, CallType
    <2>2. n.lib \in Lib \cup {None}
        BY <1>3, <2>1, SelectOK
    <2> QED
        BY <1>1, <2>2
<1>9. CASE Accepted(phase, w.h[h], fault)
    <2> DEFINE k == keep(n, w)
               g == f(n, w)
               m == media(n, w)
               v == w.h[h].req
    <2>1. w.h[h].status \in {"NONE", "PARTIAL_ACCELERATION"}
        <3>1. CASE phase = 1
            BY <3>1, <1>9 DEF Accepted
        <3>2. CASE phase = 2
            BY <3>2, <1>9 DEF Accepted
        <3>3. CASE phase = 3
            BY <3>3, <1>9 DEF Accepted
        <3>4. phase = 1 \/ phase = 2 \/ phase = 3
            BY <1>7
        <3> QED
            BY ONLY <3>1, <3>2, <3>3, <3>4
    <2>3. m \in Media
        <3>1. Runtime[n.lib].media \in Media
            BY <1>8, WindowsAssumption
        <3>2. w.h[h].media \in Media
            BY <1>7 DEF Object
        <3> QED
            BY <3>1, <3>2
    <2>4. accepts(n, w)
        BY <1>2, <1>9
    <2>5. Becomes(Allocate(k, g, v))
        BY <2>4
    <2>6. call' = MoveTo([call EXCEPT !.current = g, !.candidates = Append(@, h)], First(call.method, phase + 1))
        BY <2>4
    <2>7. /\ IsWorld(k) /\ k.refs = w.refs /\ k.rt = w.rt
          /\ k.h = [w.h EXCEPT ![h] = [@ EXCEPT !.owner = "candidate", !.media = m]]
        <3>1. w = [h |-> w.h, refs |-> w.refs, rt |-> w.rt]
            BY <1>7 DEF WorldOK, IsWorld
        <3>2. w.h[h] \in Object
            BY <1>7
        <3>3. k = [h |-> [w.h EXCEPT ![h] = [@ EXCEPT !.owner = "candidate", !.media = m]],
                   refs |-> w.refs, rt |-> w.rt]
            <4>1. k = [w EXCEPT !.h = [w.h EXCEPT ![h] = [w.h[h] EXCEPT !.owner = "candidate", !.media = m]]]
                OBVIOUS
            <4> HIDE DEF k, m
            <4> QED
                BY ONLY <4>1, <3>1
        <3> HIDE DEF k, m
        <3> QED
            BY <3>3 DEF IsWorld
    <2>8. g = FreeHandle(k) /\ v = w.h[h].req
        OBVIOUS
    <2>2. fault = "none" /\ Accepted(call.place.phase, Tried(fault).h[call.current], fault)
        BY <1>2, <1>4, <1>9
    <2>10. m = IF call.place.phase = 1 /\ Exports(SelectDLLVersion(call.place, call.last).lib, V(1, 19))
               THEN Runtime[SelectDLLVersion(call.place, call.last).lib].media
               ELSE Tried(fault).h[call.current].media
        BY <1>3, <1>4
    <2> HIDE DEF k, m, g, v
    <2>9. Accepts(fault, m, k, g, v)
        BY <1>4, <2>1, <2>2, <2>3, <2>5, <2>6, <2>7, <2>8, <2>10 DEF Accepts
    <2> QED
        BY <1>3, <1>5, <1>6, <1>8, <2>9
<1>10. CASE ~Accepted(phase, w.h[h], fault)
    <2>1. rejects(n, w, fault)
        BY <1>2, <1>10
    <2>2. PICK u \in {w, Close(w, h)} : Becomes(u)
        BY <2>1
    <2>3. call' = [call EXCEPT !.last = SelectDLLVersion(call.place, call.last).last,
                               !.faulted = call.faulted \/ fault # "none"]
        <3>1. call' = [call EXCEPT !.last = n.last, !.faulted = @ \/ fault # "none"]
            BY <2>1
        <3>2. call \in CallType
            BY <1>7 DEF CallOK
        <3> QED
            BY <3>1, <3>2, <1>3 DEF CallType
    <2>4. Rejects(fault, u)
        BY <1>4, <1>10, <2>2, <2>3 DEF Rejects
    <2> QED
        BY <1>3, <1>5, <1>6, <1>8, <2>4
<1> QED
    BY <1>9, <1>10

LEMMA TryLibraryOK == ASSUME IInv, TryLibrary PROVE IInv'
<1>1. /\ call.pc = "search" /\ inst' = inst /\ faults' \in 0..MaxFaults
      /\ \/ \E fault, u : Rejects(fault, u)
         \/ \E fault, media, kept, g, v : Accepts(fault, media, kept, g, v)
    BY TryLibraryCases
<1>2. CASE \E fault, u : Rejects(fault, u)
    <2>1. PICK fault, u : Rejects(fault, u)
        BY <1>2
    <2> QED
        BY <1>1, <2>1, RejectedOK
<1>3. CASE \E fault, media, kept, g, v : Accepts(fault, media, kept, g, v)
    <2>1. PICK fault, media, kept, g, v : Accepts(fault, media, kept, g, v)
        BY <1>3
    <2> QED
        BY <1>1, <2>1, AcceptedOK
<1> QED
    BY <1>1, <1>2, <1>3

-----------------------------------------------------------------------------
(* Choose                                                                  *)

\* The handle h is returned, in a new session or without; the others are freed.
Returned(w, u, h, others, left, s, status) ==
    /\ IsWorld(u)
    /\ others = {g \in Handle \ {h} : w.h[g].owner \in {"candidate", "call"}}
    /\ left = [x \in {y \in DOMAIN w.rt : \A g \in others \cup {h} : w.h[g].session # y} |-> w.rt[x]]
    /\ s = FreeSession([rt |-> left])
    /\ status \in {"ERROR", "NONE", "PARTIAL_ACCELERATION"}
    /\ u.h = [g \in Handle |->
                 IF g \in others THEN Free
                 ELSE IF g = h THEN [w.h[g] EXCEPT !.owner = "app", !.status = status,
                                                   !.session = IF status = "ERROR" THEN None ELSE s]
                 ELSE w.h[g]]
    /\ u.refs = [l \in Lib |-> w.refs[l] - Cardinality({g \in others : w.h[g].module = l})]
    /\ u.rt = IF status = "ERROR" THEN left ELSE With(left, s, w.h[h].module)

LEMMA ReturnedOK ==
    ASSUME NEW w, WorldOK(w), NEW u, NEW h \in Handle, w.h[h].owner = "candidate", w.h[h].module \in Lib,
           NEW others, NEW left, NEW s, NEW status, Returned(w, u, h, others, left, s, status)
    PROVE  WorldOK(u) /\ \A g \in Handle : u.h[g].owner \in {"free", "app"}
<1> DEFINE session == IF status = "ERROR" THEN None ELSE s
           r == [w.h[h] EXCEPT !.owner = "app", !.status = status, !.session = session]
           lib == w.h[h].module
<1>1. /\ w.h \in [Handle -> Object] /\ DOMAIN w.rt \subseteq Session
      /\ \A x \in DOMAIN w.rt : w.rt[x] \in [lib : Lib, parent : Session \cup {None}]
    BY DEF WorldOK, Typed
<1>2. /\ others \subseteq Handle /\ h \notin others
      /\ \A g \in Handle \ (others \cup {h}) : w.h[g].owner \notin {"candidate", "call"}
      /\ \A g \in others : w.h[g].owner \in {"candidate", "call"}
    BY DEF Returned
<1>3. /\ DOMAIN left \subseteq DOMAIN w.rt
      /\ \A x \in DOMAIN left : left[x] = w.rt[x] /\ \A g \in others \cup {h} : w.h[g].session # x
      /\ \A x \in DOMAIN w.rt : (\A g \in others \cup {h} : w.h[g].session # x) => x \in DOMAIN left
    BY DEF Returned
<1>4. /\ u.h[h] = r
      /\ \A g \in others : u.h[g] = Free
      /\ \A g \in Handle \ (others \cup {h}) : u.h[g] = w.h[g]
    BY <1>2 DEF Returned
<1>5. \A x \in DOMAIN left : \E g \in Handle \ (others \cup {h}) : w.h[g].session = x
    BY <1>3 DEF WorldOK, Held
<1>6. s \in Session \ DOMAIN left
    <2>1. \A x \in DOMAIN left : \E g \in Handle \ {h} : w.h[g].session = x
        BY <1>5
    <2>2. FreeSession([rt |-> left]) \in Session \ DOMAIN left
        BY <1>1, <1>3, <2>1, SessionLeft DEF WorldOK
    <2> QED
        BY <2>2 DEF Returned
<1>7. status \in {"ERROR", "NONE", "PARTIAL_ACCELERATION"} /\ IsWorld(u)
    BY DEF Returned
<1>8. /\ r \in Object /\ r.session = session /\ r.module = lib /\ r.table = w.h[h].table
      /\ r.owner = "app"
    <2>1. session \in Session \cup {None} /\ w.h[h] \in Object
        BY <1>1, <1>6
    <2> HIDE DEF session
    <2> QED
        BY <2>1, <1>7 DEF Object
<1> HIDE DEF r
\* the sessions: those of the handles that stay, and the new one
<1>9. /\ \A x \in DOMAIN left : x \in DOMAIN u.rt /\ u.rt[x] = left[x]
      /\ \A x \in DOMAIN u.rt \ DOMAIN left : x = s /\ session = s /\ u.rt[x] = [lib |-> lib, parent |-> None]
      /\ session # None => session = s /\ s \in DOMAIN u.rt /\ u.rt[s].lib = lib
    <2>1. CASE status = "ERROR"
        BY <2>1 DEF Returned
    <2>2. CASE status # "ERROR"
        <3>1. u.rt = With(left, s, lib) /\ session = s
            BY <2>2 DEF Returned
        <3> QED
            BY <3>1, <1>6 DEF With
    <2> QED
        BY <2>1, <2>2
<1> HIDE DEF session
<1>10. Typed(u)
    <2>1. u.h \in [Handle -> Object]
        <3>1. \A g \in Handle : u.h[g] \in Object
            BY <1>1, <1>4, <1>8, FreeObject
        <3>2. u.h = [g \in Handle |-> u.h[g]]
            BY DEF Returned
        <3> QED
            BY <3>1, <3>2
    <2>2. ASSUME NEW x \in DOMAIN u.rt
          PROVE  x \in Session /\ u.rt[x] \in [lib : Lib, parent : Session \cup {None}]
        BY <1>1, <1>3, <1>6, <1>9
    <2> QED
        BY <2>1, <2>2 DEF Typed
<1>11. Counted(u)
    <2>1. ASSUME NEW l \in Lib
          PROVE  u.refs[l] = Cardinality(Holding(u, l))
        <3> DEFINE gone == {g \in others : w.h[g].module = l}
        <3>1. Holding(u, l) = Holding(w, l) \ gone
            <4>1. l # None
                BY NoneIsNone
            <4>2. ASSUME NEW g \in Handle
                  PROVE  g \in Holding(u, l) <=> g \in Holding(w, l) \ gone
                <5>1. CASE g \in others
                    BY <5>1, <4>1, <1>4, FreeObject DEF Holding
                <5>2. CASE g = h
                    BY <5>2, <1>2, <1>4, <1>8 DEF Holding
                <5>3. CASE g \notin others \cup {h}
                    BY <5>3, <1>4 DEF Holding
                <5> QED
                    BY <5>1, <5>2, <5>3
            <4> QED
                BY <4>2 DEF Holding
        <3>2. Holding(w, l) \cap gone = gone /\ IsFiniteSet(Holding(w, l))
            BY <1>2, Handles DEF Holding
        <3>3. Cardinality(Holding(w, l) \ gone) = Cardinality(Holding(w, l)) - Cardinality(gone)
            <4> HIDE DEF gone
            <4> QED
                BY <3>2, FS_Difference
        <3>4. w.refs[l] = Cardinality(Holding(w, l))
            BY DEF WorldOK, Counted
        <3>5. u.refs[l] = w.refs[l] - Cardinality(gone)
            BY DEF Returned
        <3> QED
            BY ONLY <3>1, <3>3, <3>4, <3>5
    <2>2. u.refs = [l \in Lib |-> u.refs[l]]
        BY DEF Returned
    <2> QED
        BY <2>1, <2>2 DEF Counted
<1>12. Matched(u)
    <2>1. ASSUME NEW g \in Handle
          PROVE  /\ u.h[g].table \in {None, u.h[g].module}
                 /\ u.h[g].session # None => /\ u.h[g].session \in DOMAIN u.rt
                                             /\ u.rt[u.h[g].session].lib = u.h[g].module
        <3>1. CASE g \in others
            BY <3>1, <1>4, FreeObject
        <3>2. CASE g = h
            BY <3>2, <1>4, <1>8, <1>9 DEF WorldOK, Matched
        <3>3. CASE g \notin others \cup {h}
            <4>1. /\ w.h[g].table \in {None, w.h[g].module}
                  /\ w.h[g].session # None => /\ w.h[g].session \in DOMAIN w.rt
                                              /\ w.rt[w.h[g].session].lib = w.h[g].module
                BY DEF WorldOK, Matched
            <4>2. w.h[g].session # None => w.h[g].session \in DOMAIN left
                BY <3>3, <4>1, <1>2, <1>3 DEF WorldOK, Held
            <4> QED
                BY <3>3, <4>1, <4>2, <1>3, <1>4, <1>9
        <3> QED
            BY <3>1, <3>2, <3>3
    <2> QED
        BY <2>1 DEF Matched
<1>13. Held(u)
    <2>1. ASSUME NEW x \in DOMAIN u.rt
          PROVE  \E g \in Handle : u.h[g].session = x
        BY <1>4, <1>5, <1>8, <1>9
    <2>2. ASSUME NEW f \in Handle, NEW g \in Handle,
                 u.h[f].session = u.h[g].session, u.h[f].session # None
          PROVE  f = g
        <3>1. ASSUME NEW k \in Handle, k # h, u.h[k].session # None
              PROVE  k \notin others /\ u.h[k].session = w.h[k].session /\ u.h[k].session # session
            <4>1. k \notin others
                BY <3>1, <1>4, FreeObject
            <4>2. u.h[k].session = w.h[k].session
                BY <3>1, <4>1, <1>4
            <4>3. w.h[k].session \in DOMAIN left
                BY <3>1, <4>1, <4>2, <1>2, <1>3 DEF WorldOK, Held, Matched
            <4> QED
                BY <3>1, <4>1, <4>2, <4>3, <1>6, <1>9
        <3> QED
            BY <2>2, <3>1, <1>4, <1>8 DEF WorldOK, Held
    <2> QED
        BY <2>1, <2>2 DEF Held
<1>14. FreeHoldsNothing(u)
    BY <1>2, <1>4, <1>8, FreeObject DEF WorldOK, FreeHoldsNothing
<1>15. ParentsAreApp(u)
    <2>1. ASSUME NEW x \in DOMAIN u.rt, u.rt[x].parent # None
          PROVE  \E g \in Handle : u.h[g].owner = "app" /\ u.h[g].session = u.rt[x].parent
        <3>1. x \in DOMAIN left /\ x \in DOMAIN w.rt /\ u.rt[x].parent = w.rt[x].parent
            BY <2>1, <1>3, <1>9
        <3>2. PICK g \in Handle : w.h[g].owner = "app" /\ w.h[g].session = w.rt[x].parent
            BY <2>1, <3>1 DEF WorldOK, ParentsAreApp
        <3> QED
            BY <3>1, <3>2, <1>2, <1>4
    <2> QED
        BY <2>1 DEF ParentsAreApp
<1>16. \A g \in Handle : u.h[g].owner \in {"free", "app"}
    <2>1. \A g \in Handle : w.h[g].owner \in {"free", "call", "candidate", "app"}
        BY <1>1 DEF Object
    <2> QED
        BY <2>1, <1>2, <1>4, <1>8, FreeObject
<1> QED
    BY <1>7, <1>10, <1>11, <1>12, <1>13, <1>14, <1>15, <1>16 DEF WorldOK

LEMMA ChooseOK == ASSUME IInv, Choose PROVE IInv'
<1> DEFINE others(h) == {g \in Handle \ {h} : handles[g].owner \in {"candidate", "call"}}
           left(h, o) == [s \in {x \in DOMAIN rt : \A g \in o \cup {h} : handles[g].session # x} |-> rt[s]]
           new(h, o) == FreeSession([rt |-> left(h, o)])
           ends(h, fault) == IF fault = "REINIT" THEN "ERROR"
                             ELSE IF Runtime[handles[h].module].partial THEN "PARTIAL_ACCELERATION" ELSE "NONE"
           keeps(h, fault, o) == [handles[h] EXCEPT !.owner = "app", !.status = ends(h, fault),
                                                    !.session = IF ends(h, fault) = "ERROR" THEN None ELSE new(h, o)]
<1>1. PICK h \in Best, fault \in {"none", "REINIT"} :
        \E o \in {others(h)} :
          /\ Fault(fault) /\ Counts(fault)
          /\ handles' = [g \in Handle |->
                           IF g \in o THEN Free
                           ELSE IF g = h THEN [handles[g] EXCEPT !.owner = "app", !.status = ends(h, fault),
                                                   !.session = IF ends(h, fault) = "ERROR" THEN None ELSE new(h, o)]
                           ELSE handles[g]]
          /\ refs' = [l \in Lib |-> refs[l] - Cardinality({g \in o : handles[g].module = l})]
          /\ rt' = IF ends(h, fault) = "ERROR" THEN left(h, o) ELSE With(left(h, o), new(h, o), handles[h].module)
          /\ call' = IF call.clones # None /\ ends(h, fault) = "NONE"
                     THEN [Idle EXCEPT !.pc = "join", !.current = h, !.clones = call.clones] ELSE Idle
    BY DEF Choose
<1>2. call.pc = "choose" /\ call.candidates # <<>> /\ inst' = inst
    BY DEF Choose
<1>3. PICK o \in {others(h)} :
          /\ Fault(fault) /\ Counts(fault)
          /\ handles' = [g \in Handle |->
                           IF g \in o THEN Free
                           ELSE IF g = h THEN [handles[g] EXCEPT !.owner = "app", !.status = ends(h, fault),
                                                   !.session = IF ends(h, fault) = "ERROR" THEN None ELSE new(h, o)]
                           ELSE handles[g]]
          /\ refs' = [l \in Lib |-> refs[l] - Cardinality({g \in o : handles[g].module = l})]
          /\ rt' = IF ends(h, fault) = "ERROR" THEN left(h, o) ELSE With(left(h, o), new(h, o), handles[h].module)
          /\ call' = IF call.clones # None /\ ends(h, fault) = "NONE"
                     THEN [Idle EXCEPT !.pc = "join", !.current = h, !.clones = call.clones] ELSE Idle
    BY <1>1
<1>4. /\ Searching /\ CallOK /\ WorldOK(World) /\ faults \in 0..MaxFaults /\ inst \in Installations
    BY <1>2 DEF IInv
<1>5. faults' \in 0..MaxFaults
    BY <1>3, <1>4, FaultsOK
<1>6. h \in Candidates
    <2>1. call.candidates \in Seq(Handle)
        BY <1>4 DEF CallOK, CallType
    <2>2. 1 \in DOMAIN call.candidates
        BY <1>2, <2>1
    <2> QED
        BY <2>2 DEF Best, Candidates
<1>7. h \in Handle /\ handles[h].owner = "candidate" /\ handles[h].module \in Lib
    <2>1. call.candidates \in Seq(Handle)
        BY <1>4 DEF CallOK, CallType
    <2>2. Candidates \subseteq Handle
        BY <2>1 DEF Candidates
    <2> QED
        BY <1>4, <1>6, <2>2 DEF Searching
<1> DEFINE status == ends(h, fault)
           l == left(h, o)
           s == new(h, o)
<1>8. status \in {"ERROR", "NONE", "PARTIAL_ACCELERATION"}
    OBVIOUS
<1>9. Returned(World, World', h, o, l, s, status)
    <2>1. World = [h |-> handles, refs |-> refs, rt |-> rt] /\ World' = [h |-> handles', refs |-> refs', rt |-> rt']
        BY DEF World
    <2>2. /\ World.h = handles /\ World.refs = refs /\ World.rt = rt
          /\ World'.h = handles' /\ World'.refs = refs' /\ World'.rt = rt' /\ IsWorld(World')
        BY <2>1 DEF IsWorld
    <2>3. o = others(h)
        OBVIOUS
    <2>4. l = [x \in {y \in DOMAIN World.rt : \A g \in o \cup {h} : World.h[g].session # y} |-> World.rt[x]]
        BY <2>2
    <2>5. (World').h = [g \in Handle |->
                          IF g \in o THEN Free
                          ELSE IF g = h THEN [World.h[g] EXCEPT !.owner = "app", !.status = status,
                                                 !.session = IF status = "ERROR" THEN None ELSE s]
                          ELSE World.h[g]]
        <3>1. handles' = [g \in Handle |->
                            IF g \in o THEN Free
                            ELSE IF g = h THEN [handles[g] EXCEPT !.owner = "app", !.status = status,
                                                   !.session = IF status = "ERROR" THEN None ELSE s]
                            ELSE handles[g]]
            BY <1>3
        <3> HIDE DEF status, l, s
        <3> QED
            BY ONLY <3>1, <2>2
    <2>6. (World').refs = [k \in Lib |-> World.refs[k] - Cardinality({g \in o : World.h[g].module = k})]
        <3>1. refs' = [k \in Lib |-> refs[k] - Cardinality({g \in o : handles[g].module = k})]
            BY <1>3
        <3> QED
            BY ONLY <3>1, <2>2
    <2>7. (World').rt = IF status = "ERROR" THEN l ELSE With(l, s, World.h[h].module)
        <3>1. rt' = IF status = "ERROR" THEN l ELSE With(l, s, handles[h].module)
            BY <1>3
        <3> HIDE DEF status, l, s
        <3> QED
            BY ONLY <3>1, <2>2
    <2>8. s = FreeSession([rt |-> l])
        OBVIOUS
    <2>9. o = {g \in Handle \ {h} : World.h[g].owner \in {"candidate", "call"}}
        BY <2>2, <2>3
    <2> HIDE DEF status, l, s
    <2> QED
        BY <1>8, <2>2, <2>4, <2>5, <2>6, <2>7, <2>8, <2>9 DEF Returned
<1> HIDE DEF status, l, s
<1>10. WorldOK(World') /\ \A g \in Handle : handles'[g].owner \in {"free", "app"}
    <2>1. World.h[h].owner = "candidate" /\ World.h[h].module \in Lib
        BY <1>7 DEF World
    <2>2. WorldOK(World') /\ \A g \in Handle : (World').h[g].owner \in {"free", "app"}
        BY ONLY <1>4, <1>7, <1>9, <2>1, ReturnedOK
    <2> QED
        BY <2>2 DEF World
<1>11. /\ CallOK' /\ call'.pc \in {"idle", "join"} /\ call'.candidates = <<>>
       /\ call'.pc = "join" => call'.current \in Handle /\ call'.clones \in Handle
    <2>1. CASE call' = Idle
        BY <2>1, IdleOK DEF CallOK
    <2>2. CASE call.clones # None /\ call' = [Idle EXCEPT !.pc = "join", !.current = h, !.clones = call.clones]
        <3>1. call.clones \in Handle
            BY <2>2, <1>4 DEF CallOK, CallType
        <3>2. call' = [pc |-> "join", method |-> "AUTO", place |-> Place(1, 1, 1), last |-> NoLast,
                       current |-> h, candidates |-> <<>>, clones |-> call.clones, faulted |-> FALSE]
            BY <2>2 DEF Idle
        <3>3. "AUTO" \in DOMAIN implTypesRange /\ MaxMerit \in Nat
            BY WindowsAssumption DEF implTypesRange
        <3> QED
            BY <3>1, <3>2, <3>3, <1>7 DEF CallOK, CallType, Place, PlaceType, NoLast, LastType
    <2> QED
        BY <1>3, <2>1, <2>2
<1>12. Resting'
    BY <1>10, <1>11 DEF Resting
<1> QED
    BY <1>2, <1>4, <1>5, <1>10, <1>11, <1>12 DEF IInv
-----------------------------------------------------------------------------
(* Libraries are loaded while they are held                                *)

LEMMA InitOK == ASSUME Init PROVE IInv
<1>1. /\ inst \in Installations /\ handles = [h \in Handle |-> Free] /\ refs = [l \in Lib |-> 0]
      /\ DOMAIN rt = {} /\ call = Idle /\ faults = 0
    BY DEF Init
<1>2. /\ World.h = handles /\ World.refs = refs /\ World.rt = rt /\ IsWorld(World)
      /\ \A h \in Handle : World.h[h] = Free
    BY <1>1 DEF World, IsWorld
<1>3. Typed(World) /\ Matched(World) /\ Held(World) /\ FreeHoldsNothing(World) /\ ParentsAreApp(World)
    BY <1>1, <1>2, FreeObject DEF Typed, Matched, Held, FreeHoldsNothing, ParentsAreApp
<1>4. Counted(World)
    <2>1. ASSUME NEW l \in Lib
          PROVE  Cardinality(Holding(World, l)) = 0
        <3>1. Holding(World, l) = {}
            BY <1>2, FreeObject, NoneIsNone DEF Holding
        <3> QED
            BY <3>1, FS_EmptySet
    <2> QED
        BY <2>1, <1>1, <1>2 DEF Counted
<1>5. CallOK /\ Resting /\ call.pc = "idle"
    BY <1>1, IdleOK, FreeObject DEF CallOK, Resting
<1> QED
    BY <1>1, <1>2, <1>3, <1>4, <1>5, WindowsAssumption DEF IInv, WorldOK

LEMMA StutterOK == ASSUME IInv, UNCHANGED vars PROVE IInv'
BY DEF vars, IInv, WorldOK, IsWorld, Typed, Counted, Holding, Matched, Held, FreeHoldsNothing, ParentsAreApp, World,
       CallOK, Searching, Resting, Candidates, App

LEMMA HeldWhileIInv == IInv => LoadedWhileHeld
<1> SUFFICES ASSUME IInv
             PROVE  LoadedWhileHeld
    OBVIOUS
<1>1. /\ WorldOK(World) /\ CallOK /\ inst \in Installations /\ faults \in 0..MaxFaults
      /\ World.h = handles /\ World.refs = refs /\ World.rt = rt
    BY DEF IInv, World
<1>2. /\ handles \in [Handle -> Object] /\ DOMAIN rt \subseteq Session
      /\ \A s \in DOMAIN rt : rt[s] \in [lib : Lib, parent : Session \cup {None}]
    BY <1>1 DEF WorldOK, Typed
<1>3. \A h \in Handle : /\ handles[h].table \in {None, handles[h].module}
                        /\ handles[h].session # None => /\ handles[h].session \in DOMAIN rt
                                                        /\ rt[handles[h].session].lib = handles[h].module
    BY <1>1 DEF WorldOK, Matched
<1>4. \A l \in Lib : refs[l] = Cardinality({h \in Handle : handles[h].module = l})
    BY <1>1 DEF WorldOK, Counted, Holding
<1>5. ASSUME NEW s \in DOMAIN rt
      PROVE  Cardinality({h \in Handle : handles[h].session = s}) = 1
    <2>1. PICK h \in Handle : handles[h].session = s
        BY <1>1 DEF WorldOK, Held
    <2>2. s # None
        BY <1>2, NoneIsNone
    <2>3. {g \in Handle : handles[g].session = s} = {h}
        BY <1>1, <2>1, <2>2 DEF WorldOK, Held
    <2> QED
        BY <2>3, FS_Singleton
<1>6. TypeOK
    <2>1. ASSUME NEW h \in Handle
          PROVE  LET r == handles[h]
                 IN  /\ {r.module, r.table} \subseteq Lib \cup {None} /\ r.session \in Session \cup {None}
                     /\ r.type \in {"hw", "sw"} /\ r.impl \in {Types[t].impl : t \in DOMAIN Types}
                     /\ r.version \in Nat /\ r.req \in Versions \cup {0} \cup {Runtime[l].api : l \in Lib}
                     /\ r.media \in Media
                     /\ r.status \in {"NOT_FOUND", "NONE", "ERROR", "UNSUPPORTED", "PARTIAL_ACCELERATION"}
                     /\ r.owner \in {"free", "call", "candidate", "app"}
        <3>1. handles[h] \in Object
            BY <1>2
        <3> QED
            BY <3>1, VersionsOK DEF Object, Impl, Req
    <2>2. refs \in [Lib -> Nat]
        <3>1. \A l \in Lib : refs[l] \in Nat
            BY <1>4, Handles
        <3>2. refs = [l \in Lib |-> refs[l]]
            BY <1>1 DEF WorldOK, Counted
        <3> QED
            BY <3>1, <3>2
    <2>3. ASSUME NEW s \in DOMAIN rt
          PROVE  s \in Session /\ rt[s].lib \in Lib /\ rt[s].parent \in DOMAIN rt \cup {None}
        <3>1. CASE rt[s].parent # None
            <4>1. PICK h \in Handle : handles[h].session = rt[s].parent
                BY <3>1, <1>1 DEF WorldOK, ParentsAreApp
            <4> QED
                BY <3>1, <4>1, <1>2, <1>3
        <3> QED
            BY <3>1, <1>2
    <2>4. /\ call.pc \in {"idle", "search", "choose", "join"} /\ call.method \in DOMAIN implTypesRange
          /\ call.place.phase \in 1..4 /\ call.current \in Handle \cup {None}
          /\ call.clones \in Handle \cup {None} /\ call.candidates \in Seq(Handle)
        BY <1>1 DEF CallOK, CallType, PlaceType
    <2>5. Len(call.candidates) <= 3
        <3>1. CASE call.pc \in {"search", "choose"}
            BY <3>1, <2>4 DEF IInv, Searching
        <3>2. CASE call.pc \notin {"search", "choose"}
            BY <3>2 DEF IInv, Resting
        <3> QED
            BY <3>1, <3>2
    <2> QED
        BY <1>1, <2>1, <2>2, <2>3, <2>4, <2>5 DEF TypeOK
<1>7. call.pc = "idle" => \A h \in Handle : handles[h].owner \in {"free", "app"}
    BY DEF IInv, Resting
<1> QED
    BY <1>3, <1>4, <1>5, <1>6, <1>7 DEF LoadedWhileHeld

LEMMA NextOK == ASSUME IInv, [Next]_vars PROVE IInv'
<1>1. CASE Next
    BY <1>1, TryLibraryOK, NextPlaceOK, NothingFoundOK, ChooseOK, CloneJoinOK, MFXInitExOK, MFXInitEx2OK,
       MFXCloseOK, MFXJoinSessionOK, MFXDisjoinSessionOK, CloneInitOK, Clone2OK DEF Next, Continues
<1>2. CASE UNCHANGED vars
    BY <1>2, StutterOK
<1> QED
    BY <1>1, <1>2

\* Windows' dispatcher loads a library as often as handles hold it, calls nothing
\* of one that is unloaded and leaves no session open, whatever is installed and
\* whatever fails.
THEOREM LoadedWhileHeldHolds == Spec => []LoadedWhileHeld
<1> QED
    BY NextOK, InitOK, HeldWhileIInv, PTL DEF Spec

-----------------------------------------------------------------------------
(* The order of the keys                                                   *)

Earlier(keys, i, j) ==
    keys[i].merit > keys[j].merit \/ (keys[i].merit = keys[j].merit /\ i < j)
Preceding(keys, fit, i) == {j \in fit : Earlier(keys, j, i)}
ByMerit(keys, fit) == [n \in 1..Cardinality(fit) |-> CHOOSE i \in fit : Cardinality(Preceding(keys, fit, i)) = n - 1]

LEMMA EarlierOrders ==
    ASSUME NEW keys \in Seq(KeyOf)
    PROVE  /\ \A i \in DOMAIN keys : ~Earlier(keys, i, i)
           /\ \A i, j \in DOMAIN keys : i = j \/ Earlier(keys, i, j) \/ Earlier(keys, j, i)
           /\ \A i, j \in DOMAIN keys : ~(Earlier(keys, i, j) /\ Earlier(keys, j, i))
           /\ \A i, j, k \in DOMAIN keys : Earlier(keys, i, j) /\ Earlier(keys, j, k) => Earlier(keys, i, k)
<1>1. \A i \in DOMAIN keys : keys[i].merit \in Int /\ i \in Int
    <2>1. MaxMerit \in Nat
        BY WindowsAssumption
    <2>2. \A i \in DOMAIN keys : keys[i] \in KeyOf /\ i \in Int
        OBVIOUS
    <2> QED
        BY <2>1, <2>2 DEF KeyOf
<1> QED
    BY <1>1 DEF Earlier

\* A key has fewer others before it than one that follows it.
LEMMA EarlierRanks ==
    ASSUME NEW keys \in Seq(KeyOf), NEW fit \in SUBSET DOMAIN keys
    PROVE  /\ IsFiniteSet(fit) /\ Cardinality(fit) \in Nat
           /\ \A i \in fit : Cardinality(Preceding(keys, fit, i)) \in 0 .. Cardinality(fit) - 1
           /\ \A i, j \in fit : Earlier(keys, i, j) =>
                  Cardinality(Preceding(keys, fit, i)) < Cardinality(Preceding(keys, fit, j))
<1>1. IsFiniteSet(fit) /\ Cardinality(fit) \in Nat
    <2>1. DOMAIN keys = 1..Len(keys) /\ Len(keys) \in Nat
        OBVIOUS
    <2>2. IsFiniteSet(DOMAIN keys)
        BY <2>1, FS_Interval
    <2> QED
        BY <2>2, FS_Subset, FS_CardinalityType
<1>2. ASSUME NEW S \in SUBSET fit, NEW x \in fit, x \notin S
      PROVE  /\ IsFiniteSet(S) /\ Cardinality(S) \in Nat
             /\ \A T \in SUBSET fit : S \subseteq T /\ x \in T =>
                    Cardinality(T) \in Nat /\ Cardinality(S) < Cardinality(T)
    <2>1. IsFiniteSet(S) /\ Cardinality(S) \in Nat
        BY <1>1, FS_Subset, FS_CardinalityType
    <2>2. ASSUME NEW T \in SUBSET fit, S \subseteq T, x \in T
          PROVE  Cardinality(T) \in Nat /\ Cardinality(S) < Cardinality(T)
        <3>1. IsFiniteSet(T) /\ Cardinality(T) \in Nat
            BY <1>1, FS_Subset, FS_CardinalityType
        <3>2. Cardinality(S \cup {x}) = Cardinality(S) + 1
            BY <2>1, <1>2, FS_AddElement
        <3>3. S \cup {x} \in SUBSET T
            BY <2>2
        <3>4. Cardinality(S \cup {x}) <= Cardinality(T)
            BY <3>1, <3>3, FS_Subset
        <3> QED
            BY <2>1, <3>1, <3>2, <3>4
    <2> QED
        BY <2>1, <2>2
<1>3. ASSUME NEW i \in fit
      PROVE  Cardinality(Preceding(keys, fit, i)) \in 0 .. Cardinality(fit) - 1
    <2>1. Preceding(keys, fit, i) \in SUBSET fit /\ i \notin Preceding(keys, fit, i)
        BY EarlierOrders DEF Preceding
    <2>2. /\ Cardinality(Preceding(keys, fit, i)) \in Nat
          /\ Cardinality(Preceding(keys, fit, i)) < Cardinality(fit)
        BY <1>2, <2>1
    <2> QED
        BY <1>1, <2>2
<1>4. ASSUME NEW i \in fit, NEW j \in fit, Earlier(keys, i, j)
      PROVE  Cardinality(Preceding(keys, fit, i)) < Cardinality(Preceding(keys, fit, j))
    <2>1. /\ Preceding(keys, fit, i) \in SUBSET fit /\ i \notin Preceding(keys, fit, i)
          /\ Preceding(keys, fit, j) \in SUBSET fit /\ i \in Preceding(keys, fit, j)
        BY <1>4, EarlierOrders DEF Preceding
    <2>2. Preceding(keys, fit, i) \subseteq Preceding(keys, fit, j)
        BY <1>4, EarlierOrders DEF Preceding
    <2> QED
        BY <1>2, <2>1, <2>2
<1> QED
    BY <1>1, <1>3, <1>4

\* The order by merit has every key once, each before the ones that follow it.
LEMMA ByMeritOK ==
    ASSUME NEW keys \in Seq(KeyOf), NEW fit \in SUBSET DOMAIN keys
    PROVE  LET r == ByMerit(keys, fit)
           IN  /\ Cardinality(fit) \in Nat /\ DOMAIN r = 1..Cardinality(fit)
               /\ \A a \in DOMAIN r : r[a] \in fit
               /\ \A i \in fit : \E a \in DOMAIN r : r[a] = i
               /\ \A a, b \in DOMAIN r : a < b => Earlier(keys, r[a], r[b])
<1> DEFINE n == Cardinality(fit)
           before(i) == Cardinality(Preceding(keys, fit, i))
           rank == [i \in fit |-> before(i)]
           r == ByMerit(keys, fit)
<1>1. /\ IsFiniteSet(fit) /\ n \in Nat
      /\ \A i \in fit : before(i) \in 0 .. n - 1
      /\ \A i, j \in fit : Earlier(keys, i, j) => before(i) < before(j)
    BY EarlierRanks
<1>2. r = [a \in 1..n |-> CHOOSE i \in fit : before(i) = a - 1]
    BY DEF ByMerit
<1>3. \A i, j \in fit : i = j \/ Earlier(keys, i, j) \/ Earlier(keys, j, i)
    BY EarlierOrders
<1> HIDE DEF before, r, n
<1>4. \A i, j \in fit : before(i) = before(j) => i = j
    BY <1>1, <1>3
<1>5. rank \in Injection(fit, 0 .. n - 1)
    BY <1>1, <1>4 DEF Injection, IsInjective
<1>6. IsFiniteSet(0 .. n - 1) /\ Cardinality(0 .. n - 1) = n
    BY <1>1, FS_Interval
<1>7. rank \in Surjection(fit, 0 .. n - 1)
    BY <1>5, <1>6, FS_Injection DEF n
<1>8. ASSUME NEW a \in 1..n
      PROVE  r[a] \in fit /\ before(r[a]) = a - 1
    <2>1. a - 1 \in 0 .. n - 1
        BY <1>1
    <2>2. \E i \in fit : before(i) = a - 1
        BY <1>7, <2>1 DEF Surjection
    <2> QED
        BY <1>2, <2>2
<1>9. ASSUME NEW i \in fit
      PROVE  \E a \in 1..n : r[a] = i
    <2>1. before(i) + 1 \in 1..n /\ (before(i) + 1) - 1 = before(i)
        BY <1>1
    <2>2. r[before(i) + 1] \in fit /\ before(r[before(i) + 1]) = before(i)
        BY <1>8, <2>1
    <2> QED
        BY <1>4, <2>1, <2>2
<1>10. ASSUME NEW a \in 1..n, NEW b \in 1..n, a < b
       PROVE  Earlier(keys, r[a], r[b])
    <2>1. before(r[a]) < before(r[b]) /\ r[a] \in fit /\ r[b] \in fit
        BY <1>1, <1>8, <1>10
    <2> QED
        BY <1>1, <1>3, <2>1
<1> QED
    BY <1>1, <1>2, <1>8, <1>9, <1>10 DEF r, n

-----------------------------------------------------------------------------
(* What a place offers, and what the iterator makes of it                  *)

Keys(p) == inst.key[Storage(p)]
Eligible(p) == {i \in DOMAIN Keys(p) : Fits(p, Keys(p)[i]) /\ Keys(p)[i].merit > 0}
NoAdapter(p) == Type(p) = "hw" /\ Adapter(p) = "none"
KindOf(k) == IF k.device = 0 THEN "sw" ELSE "hw"

LEMMA KeyOffers ==
    ASSUME inst \in Installations, NEW p, Storage(p) \in Key
    PROVE  /\ Keys(p) \in Seq(KeyOf) /\ Eligible(p) \in SUBSET DOMAIN Keys(p)
           /\ LET order == ByMerit(Keys(p), Eligible(p))
              IN  Offers(p) = IF NoAdapter(p) THEN <<>>
                              ELSE [a \in DOMAIN order |-> [lib |-> Keys(p)[order[a]].lib,
                                                            type |-> KindOf(Keys(p)[order[a]])]]
<1>1. Keys(p) \in Seq(KeyOf)
    BY WindowsAssumption DEF Keys
<1>2. Order(p) = ByMerit(Keys(p), Eligible(p))
    BY DEF Order, ByMerit, Preceding, Earlier, Keys, Eligible
<1>3. Offers(p) = IF NoAdapter(p) THEN <<>>
                  ELSE [a \in DOMAIN Order(p) |-> [lib |-> Keys(p)[Order(p)[a]].lib,
                                                   type |-> KindOf(Keys(p)[Order(p)[a]])]]
    BY DEF Offers, NoAdapter, Keys, KindOf
<1> QED
    BY <1>1, <1>2, <1>3 DEF Eligible

\* Of the keys of a place, the iterator selects the first that is left.
LEMMA KeySelected ==
    ASSUME inst \in Installations, NEW p, Storage(p) \in Key, NEW last \in LastType
    PROVE  LET i == SelectKey(p, last)
               next == SelectDLLVersion(p, last)
               left == {j \in Eligible(p) : AfterLast(last, j - 1, Keys(p)[j].merit)}
           IN  IF NoAdapter(p) \/ left = {} THEN next.lib = None
               ELSE /\ i \in left /\ \A j \in left : j = i \/ Earlier(Keys(p), i, j)
                    /\ next = [lib |-> Keys(p)[i].lib, type |-> KindOf(Keys(p)[i]),
                               last |-> [index |-> i - 1, merit |-> Keys(p)[i].merit]]
                    /\ next.lib # None
<1> DEFINE keys == Keys(p)
           i == SelectKey(p, last)
           next == SelectDLLVersion(p, last)
           left == {j \in Eligible(p) : AfterLast(last, j - 1, keys[j].merit)}
           best(k) == \A j \in left \ {k} :
               keys[j].merit < keys[k].merit \/ (keys[j].merit = keys[k].merit /\ k < j)
<1>1. keys \in Seq(KeyOf) /\ left \subseteq DOMAIN keys
    BY KeyOffers DEF Eligible
<1>2. i = IF left = {} THEN None ELSE CHOOSE k \in left : best(k)
    BY DEF SelectKey, Keys, Eligible
<1>3. next = IF NoAdapter(p) \/ i = None THEN [lib |-> None, type |-> "sw", last |-> last]
             ELSE [lib |-> keys[i].lib, type |-> KindOf(keys[i]), last |-> [index |-> i - 1, merit |-> keys[i].merit]]
    <2>1. Storage(p) # "app" /\ Storage(p) # "default"
        BY DEF Key
    <2> QED
        BY <2>1 DEF SelectDLLVersion, NoAdapter, Keys, KindOf
<1> HIDE DEF keys, left, i, next
<1>4. CASE left # {}
    <2>1. \E k \in left : best(k)
        BY <1>1, <1>4, KeyExists
    <2>2. i \in left /\ best(i)
        <3> HIDE DEF best
        <3> QED
            BY <1>2, <1>4, <2>1
    <2>3. \A j \in left : keys[j].merit \in Int /\ keys[j].lib \in Lib /\ j \in Nat
        <3>1. \A j \in left : keys[j] \in KeyOf /\ j \in Nat
            BY <1>1
        <3> QED
            BY <3>1, WindowsAssumption DEF KeyOf
    <2>4. \A j \in left : j = i \/ Earlier(keys, i, j)
        BY <2>2, <2>3 DEF Earlier
    <2>5. i # None
        BY <2>2, <2>3, NoneIsNone
    <2>6. keys[i].lib # None
        BY <2>2, <2>3, NoneIsNone
    <2> QED
        BY <1>3, <1>4, <2>2, <2>4, <2>5, <2>6 DEF keys, left, i, next
<1>5. CASE left = {}
    BY <1>2, <1>3, <1>5 DEF keys, left, i, next
<1> QED
    BY <1>4, <1>5

\* Any other place has one library at most, which the iterator gives once.
LEMMA OneOffer ==
    ASSUME inst \in Installations, NEW m \in DOMAIN implTypesRange, NEW p \in PlaceType, PlaceOK(m, p),
           Storage(p) \notin Key, NEW last \in LastType
    PROVE  LET next == SelectDLLVersion(p, last)
           IN  /\ last # NoLast => next.lib = None
               /\ last = NoLast =>
                    IF next.lib = None THEN Offers(p) = <<>>
                    ELSE Offers(p) = << [lib |-> next.lib, type |-> next.type] >> /\ next.last # NoLast
<1> DEFINE next == SelectDLLVersion(p, last)
           one(lib, type) == IF lib = None THEN <<>> ELSE << [lib |-> lib, type |-> type] >>
           done == [index |-> 1, merit |-> MaxMerit]
           Gives(lib, type) == next = [lib |-> lib, type |-> type, last |-> done] /\ Offers(p) = one(lib, type)
           Nothing == next.lib = None /\ (last = NoLast => Offers(p) = <<>>)
<1>1. Type(p) \in {"hw", "sw"} /\ Storage(p) \in Folder \cup {"default"}
    BY StorageOK
<1>2. done # NoLast
    BY DEF NoLast
<1>3. CASE Storage(p) = "default"
    <2>1. next = IF last = NoLast /\ (Type(p) = "hw" => OnIntel(p))
                 THEN [lib |-> inst.default[Type(p)], type |-> Type(p), last |-> done]
                 ELSE [lib |-> None, type |-> "sw", last |-> last]
        BY <1>3 DEF SelectDLLVersion
    <2>2. Offers(p) = IF Type(p) = "hw" /\ Adapter(p) # "intel" THEN <<>>
                      ELSE one(inst.default[Type(p)], Type(p))
        BY <1>3 DEF Offers
    <2>3. last = NoLast /\ (Type(p) = "hw" => Adapter(p) = "intel") => Gives(inst.default[Type(p)], Type(p))
        BY <2>1, <2>2 DEF OnIntel
    <2>4. ~(last = NoLast /\ (Type(p) = "hw" => Adapter(p) = "intel")) => Nothing
        BY <2>1, <2>2 DEF OnIntel
    <2> HIDE DEF next
    <2> QED
        BY <2>3, <2>4, <1>2 DEF next
<1>4. CASE Storage(p) \in Folder
    <2> DEFINE type == IF Storage(p) = "app" THEN "sw" ELSE Type(p)
    <2>1. next = InitFolder(p, type, last)
        BY <1>4 DEF SelectDLLVersion, Folder, Key
    <2>2. Storage(p) # "default"
        BY <1>4 DEF Folder
    <2>3. Offers(p) = IF Type(p) = "hw" /\ Adapter(p) = "intel"
                      THEN one(inst.folder[Storage(p)], IF Storage(p) = "app" THEN "sw" ELSE "hw") ELSE <<>>
        BY <1>1, <2>2 DEF Offers
    <2>4. last = NoLast /\ OnIntel(p) => Gives(inst.folder[Storage(p)], type)
        BY <2>1, <2>3 DEF InitFolder, OnIntel
    <2>5. ~(last = NoLast /\ OnIntel(p)) => Nothing
        BY <2>1, <2>3 DEF InitFolder, OnIntel
    <2> HIDE DEF next, type
    <2> QED
        BY <2>4, <2>5, <1>2 DEF next
<1> QED
    BY <1>1, <1>3, <1>4

-----------------------------------------------------------------------------
(* What is found does not change while the system stays as it is           *)

LEMMA OrderStays ==
    ASSUME inst' = inst, NEW p
    PROVE  Order(p)' = Order(p)
BY DEF Order, Adapter, Fits, OnIntel, Type, Storage, Device

LEMMA OffersStay ==
    ASSUME inst' = inst, NEW p
    PROVE  Offers(p)' = Offers(p)
<1>1. Order(p)' = Order(p) /\ Adapter(p)' = Adapter(p)
    BY OrderStays DEF Adapter
<1> QED
    BY <1>1 DEF Offers

LEMMA FindsStays ==
    ASSUME inst' = inst, NEW m, NEW phase, NEW v
    PROVE  Finds(m, phase, v)' = Finds(m, phase, v)
<1>1. \A p : Offers(p)' = Offers(p)
    BY OffersStay
<1>2. \A p : {i \in DOMAIN Offers(p)' : Suits(phase, Offers(p)'[i].lib, v)}
                = {i \in DOMAIN Offers(p) : Suits(phase, Offers(p)[i].lib, v)}
    BY <1>1
<1> QED
    BY <1>1, <1>2 DEF Finds

-----------------------------------------------------------------------------
(* What the iterator has passed over                                       *)

\* A place has nothing that suits,
SuitsAt(p, v) == {i \in DOMAIN Offers(p) : Suits(p.phase, Offers(p)[i].lib, v)}
Barren(p, v) == SuitsAt(p, v) = {}

\* or nothing up to the library that was tried last.
NoneBefore(p, last, v) ==
    IF Storage(p) \in Key
    THEN \A i \in Eligible(p) : AfterLast(last, i - 1, Keys(p)[i].merit) \/ ~Suits(p.phase, Keys(p)[i].lib, v)
    ELSE last = NoLast \/ Barren(p, v)

LEMMA KeysTyped ==
    ASSUME inst \in Installations, NEW p, Storage(p) \in Key
    PROVE  \A i \in Eligible(p) : /\ i \in DOMAIN Keys(p) /\ i \in Nat /\ Keys(p)[i].merit \in Int
                                  /\ Keys(p)[i].merit < MaxMerit /\ Keys(p)[i].lib \in Lib
<1>1. Keys(p) \in Seq(KeyOf) /\ MaxMerit \in Nat
    BY KeyOffers, WindowsAssumption
<1>2. \A i \in DOMAIN Keys(p) : Keys(p)[i] \in KeyOf /\ i \in Nat
    BY <1>1
<1>3. \A i \in Eligible(p) : i \in DOMAIN Keys(p)
    BY DEF Eligible
<1> QED
    BY <1>1, <1>2, <1>3 DEF KeyOf

\* Where the keys of a place that suit are among its offers.
LEMMA KeysAt ==
    ASSUME inst \in Installations, NEW p, Storage(p) \in Key, ~NoAdapter(p), NEW v
    PROVE  LET order == ByMerit(Keys(p), Eligible(p))
           IN  /\ DOMAIN Offers(p) = DOMAIN order /\ DOMAIN order \subseteq Nat
               /\ \A a \in DOMAIN order :
                     /\ order[a] \in Eligible(p)
                     /\ Offers(p)[a] = [lib |-> Keys(p)[order[a]].lib, type |-> KindOf(Keys(p)[order[a]])]
                     /\ a \in SuitsAt(p, v) <=> Suits(p.phase, Keys(p)[order[a]].lib, v)
               /\ SuitsAt(p, v) \subseteq DOMAIN order
               /\ \A i \in Eligible(p) : \E a \in DOMAIN order : order[a] = i
               /\ \A a, b \in DOMAIN order : a < b => Earlier(Keys(p), order[a], order[b])
<1> DEFINE order == ByMerit(Keys(p), Eligible(p))
<1>1. /\ Keys(p) \in Seq(KeyOf) /\ Eligible(p) \in SUBSET DOMAIN Keys(p)
      /\ Offers(p) = [a \in DOMAIN order |-> [lib |-> Keys(p)[order[a]].lib, type |-> KindOf(Keys(p)[order[a]])]]
    BY KeyOffers
<1>2. /\ Cardinality(Eligible(p)) \in Nat /\ DOMAIN order = 1..Cardinality(Eligible(p))
      /\ \A a \in DOMAIN order : order[a] \in Eligible(p)
      /\ \A i \in Eligible(p) : \E a \in DOMAIN order : order[a] = i
      /\ \A a, b \in DOMAIN order : a < b => Earlier(Keys(p), order[a], order[b])
    BY <1>1, ByMeritOK
<1> HIDE DEF order
<1>3. DOMAIN Offers(p) = DOMAIN order /\ DOMAIN order \subseteq Nat
    BY <1>1, <1>2
<1>4. ASSUME NEW a \in DOMAIN order
      PROVE  /\ Offers(p)[a] = [lib |-> Keys(p)[order[a]].lib, type |-> KindOf(Keys(p)[order[a]])]
             /\ a \in SuitsAt(p, v) <=> Suits(p.phase, Keys(p)[order[a]].lib, v)
    <2>1. Offers(p)[a] = [lib |-> Keys(p)[order[a]].lib, type |-> KindOf(Keys(p)[order[a]])]
        BY <1>1, <1>4
    <2>2. Offers(p)[a].lib = Keys(p)[order[a]].lib
        BY <2>1
    <2> QED
        BY <1>3, <1>4, <2>1, <2>2 DEF SuitsAt
<1> QED
    BY <1>2, <1>3, <1>4 DEF order, SuitsAt

\* A place of keys has nothing if none of its keys suits.
LEMMA KeysBarren ==
    ASSUME inst \in Installations, NEW p, Storage(p) \in Key, NEW v,
           NoAdapter(p) \/ \A i \in Eligible(p) : ~Suits(p.phase, Keys(p)[i].lib, v)
    PROVE  Barren(p, v)
<1>1. CASE NoAdapter(p)
    <2>1. Offers(p) = <<>>
        BY <1>1, KeyOffers
    <2> QED
        BY <2>1 DEF Barren, SuitsAt
<1>2. CASE ~NoAdapter(p)
    <2>1. \A a \in SuitsAt(p, v) : \E i \in Eligible(p) : Suits(p.phase, Keys(p)[i].lib, v)
        BY <1>2, KeysAt
    <2> QED
        BY <1>2, <2>1 DEF Barren
<1> QED
    BY <1>1, <1>2

\* A search begins before the first library of a place.
LEMMA NoneBeforeFirst ==
    ASSUME inst \in Installations, NEW p, NEW v
    PROVE  NoneBefore(p, NoLast, v)
<1>1. CASE Storage(p) \in Key
    <2>1. ASSUME NEW i \in Eligible(p)
          PROVE  AfterLast(NoLast, i - 1, Keys(p)[i].merit)
        <3>1. Keys(p)[i].merit \in Int /\ Keys(p)[i].merit < MaxMerit /\ MaxMerit \in Nat
            BY <1>1, KeysTyped, WindowsAssumption
        <3> QED
            BY <3>1 DEF AfterLast, NoLast
    <2> QED
        BY <1>1, <2>1 DEF NoneBefore
<1>2. CASE Storage(p) \notin Key
    BY <1>2 DEF NoneBefore
<1> QED
    BY <1>1, <1>2

\* When the iterator has no more, nothing suited.
LEMMA ExhaustedIsBarren ==
    ASSUME inst \in Installations, NEW m \in DOMAIN implTypesRange, NEW p \in PlaceType, PlaceOK(m, p),
           NEW last \in LastType, NEW v, NoneBefore(p, last, v), SelectDLLVersion(p, last).lib = None
    PROVE  Barren(p, v)
<1>1. CASE Storage(p) \in Key
    <2> DEFINE left == {j \in Eligible(p) : AfterLast(last, j - 1, Keys(p)[j].merit)}
    <2>1. NoAdapter(p) \/ left = {}
        BY <1>1, KeySelected
    <2>2. NoAdapter(p) \/ \A i \in Eligible(p) : ~Suits(p.phase, Keys(p)[i].lib, v)
        BY <1>1, <2>1 DEF NoneBefore
    <2> QED
        BY <1>1, <2>2, KeysBarren
<1>2. CASE Storage(p) \notin Key
    <2>1. last = NoLast => Offers(p) = <<>>
        BY <1>2, OneOffer
    <2>2. Offers(p) = <<>> => Barren(p, v)
        BY DEF Barren, SuitsAt
    <2> QED
        BY <1>2, <2>1, <2>2 DEF NoneBefore
<1> QED
    BY <1>1, <1>2

\* A library that does not suit is passed over.
LEMMA NoneBeforeNext ==
    ASSUME inst \in Installations, NEW m \in DOMAIN implTypesRange, NEW p \in PlaceType, PlaceOK(m, p),
           NEW last \in LastType, NEW v, NoneBefore(p, last, v), SelectDLLVersion(p, last).lib # None,
           ~Suits(p.phase, SelectDLLVersion(p, last).lib, v)
    PROVE  NoneBefore(p, SelectDLLVersion(p, last).last, v)
<1> DEFINE next == SelectDLLVersion(p, last)
<1>1. CASE Storage(p) \in Key
    <2> DEFINE i == SelectKey(p, last)
               left == {j \in Eligible(p) : AfterLast(last, j - 1, Keys(p)[j].merit)}
    <2>1. /\ i \in left /\ \A j \in left : j = i \/ Earlier(Keys(p), i, j)
          /\ next = [lib |-> Keys(p)[i].lib, type |-> KindOf(Keys(p)[i]),
                     last |-> [index |-> i - 1, merit |-> Keys(p)[i].merit]]
        BY <1>1, KeySelected
    <2> HIDE DEF i, next
    <2>2. next.lib = Keys(p)[i].lib /\ next.last = [index |-> i - 1, merit |-> Keys(p)[i].merit]
        BY <2>1
    <2>3. i \in Eligible(p)
        BY <2>1
    <2>4. ASSUME NEW j \in Eligible(p)
          PROVE  AfterLast(next.last, j - 1, Keys(p)[j].merit) \/ ~Suits(p.phase, Keys(p)[j].lib, v)
        <3>1. CASE j \notin left
            BY <3>1, <1>1 DEF NoneBefore
        <3>2. CASE j = i
            BY <3>2, <2>2 DEF next
        <3>3. CASE j \in left /\ j # i
            <4>1. Earlier(Keys(p), i, j)
                BY <2>1, <3>3
            <4>2. i \in Nat /\ j \in Nat /\ Keys(p)[i].merit \in Int /\ Keys(p)[j].merit \in Int
                BY <1>1, <2>3, KeysTyped
            <4> QED
                BY <2>2, <4>1, <4>2 DEF Earlier, AfterLast
        <3> QED
            BY <3>1, <3>2, <3>3
    <2> QED
        BY <1>1, <2>4 DEF NoneBefore, next
<1>2. CASE Storage(p) \notin Key
    <2>1. last = NoLast /\ Offers(p) = << [lib |-> next.lib, type |-> next.type] >>
        BY <1>2, OneOffer
    <2>2. Barren(p, v)
        <3>1. DOMAIN Offers(p) = {1} /\ Offers(p)[1].lib = next.lib
            BY <2>1
        <3> QED
            BY <3>1 DEF Barren, SuitsAt
    <2> QED
        BY <1>2, <2>2 DEF NoneBefore
<1> QED
    BY <1>1, <1>2

\* A library that suits is the first of the place that does.
LEMMA NextSuits ==
    ASSUME inst \in Installations, NEW m \in DOMAIN implTypesRange, NEW p \in PlaceType, PlaceOK(m, p),
           NEW last \in LastType, NEW v, NoneBefore(p, last, v), SelectDLLVersion(p, last).lib # None,
           Suits(p.phase, SelectDLLVersion(p, last).lib, v)
    PROVE  /\ SuitsAt(p, v) # {}
           /\ Offers(p)[Lowest(SuitsAt(p, v))] = [lib |-> SelectDLLVersion(p, last).lib,
                                                  type |-> SelectDLLVersion(p, last).type]
<1> DEFINE next == SelectDLLVersion(p, last)
<1> SUFFICES ASSUME TRUE
             PROVE  \E a \in SuitsAt(p, v) : /\ a = Lowest(SuitsAt(p, v))
                                             /\ Offers(p)[a] = [lib |-> next.lib, type |-> next.type]
    OBVIOUS
<1>1. ASSUME SuitsAt(p, v) \subseteq Nat, NEW a \in SuitsAt(p, v), \A b \in SuitsAt(p, v) : ~(b < a)
      PROVE  a = Lowest(SuitsAt(p, v))
    <2>1. Lowest(SuitsAt(p, v)) \in SuitsAt(p, v) /\ \A b \in SuitsAt(p, v) : Lowest(SuitsAt(p, v)) <= b
        BY <1>1, LowestNumber
    <2> QED
        BY <1>1, <2>1
<1>2. CASE Storage(p) \in Key
    <2> DEFINE i == SelectKey(p, last)
               left == {j \in Eligible(p) : AfterLast(last, j - 1, Keys(p)[j].merit)}
               order == ByMerit(Keys(p), Eligible(p))
    <2>1. /\ ~NoAdapter(p) /\ i \in left /\ \A j \in left : j = i \/ Earlier(Keys(p), i, j)
          /\ next = [lib |-> Keys(p)[i].lib, type |-> KindOf(Keys(p)[i]),
                     last |-> [index |-> i - 1, merit |-> Keys(p)[i].merit]]
        BY <1>2, KeySelected
    <2>2. /\ DOMAIN order \subseteq Nat /\ SuitsAt(p, v) \subseteq DOMAIN order
          /\ \A a \in DOMAIN order :
                /\ order[a] \in Eligible(p)
                /\ Offers(p)[a] = [lib |-> Keys(p)[order[a]].lib, type |-> KindOf(Keys(p)[order[a]])]
                /\ a \in SuitsAt(p, v) <=> Suits(p.phase, Keys(p)[order[a]].lib, v)
          /\ \A j \in Eligible(p) : \E a \in DOMAIN order : order[a] = j
          /\ \A a, b \in DOMAIN order : a < b => Earlier(Keys(p), order[a], order[b])
        BY <1>2, <2>1, KeysAt
    <2> HIDE DEF i, next, order
    <2>3. i \in Eligible(p) /\ next.lib = Keys(p)[i].lib /\ next.type = KindOf(Keys(p)[i])
        BY <2>1
    <2>4. PICK a \in DOMAIN order : order[a] = i
        BY <2>2, <2>3
    <2>5. a \in SuitsAt(p, v) /\ Offers(p)[a] = [lib |-> next.lib, type |-> next.type]
        BY <2>2, <2>3, <2>4 DEF next
    <2>6. ASSUME NEW b \in SuitsAt(p, v), b < a
          PROVE  FALSE
        <3>1. b \in DOMAIN order /\ Earlier(Keys(p), order[b], i) /\ order[b] \in Eligible(p)
              /\ Suits(p.phase, Keys(p)[order[b]].lib, v)
            BY <2>2, <2>4, <2>6
        <3>2. order[b] \in left
            BY <3>1, <1>2 DEF NoneBefore
        <3>3. order[b] = i \/ Earlier(Keys(p), i, order[b])
            BY <2>1, <3>2
        <3>4. Keys(p) \in Seq(KeyOf) /\ i \in DOMAIN Keys(p) /\ order[b] \in DOMAIN Keys(p)
            BY <1>2, <2>3, <3>1, KeyOffers, KeysTyped
        <3> QED
            BY ONLY <3>1, <3>3, <3>4, EarlierOrders
    <2> QED
        BY <1>1, <2>2, <2>5, <2>6 DEF next
<1>3. CASE Storage(p) \notin Key
    <2>1. last = NoLast /\ Offers(p) = << [lib |-> next.lib, type |-> next.type] >>
        BY <1>3, OneOffer
    <2> HIDE DEF next
    <2>2. DOMAIN Offers(p) = {1} /\ Offers(p)[1] = [lib |-> next.lib, type |-> next.type]
        BY <2>1
    <2>3. SuitsAt(p, v) = {1}
        BY <2>2 DEF SuitsAt, next
    <2> QED
        BY <1>1, <2>2, <2>3 DEF next
<1> QED
    BY <1>2, <1>3

-----------------------------------------------------------------------------
(* What a search should find                                               *)

\* The places that a search has left behind have nothing that suits.
Visited(m, p, v) == \A q \in Places(m, p.phase) : Before(q, p) => Barren(q, v)

LEMMA PlacesOK ==
    ASSUME NEW m \in DOMAIN implTypesRange, NEW phase \in 1..3
    PROVE  \A q : q \in Places(m, phase) <=> /\ q = [phase |-> phase, t |-> q.t, s |-> q.s]
                                             /\ q \in PlaceType /\ PlaceOK(m, q)
<1>1. /\ implTypesRange[m][1] \in Nat /\ implTypesRange[m][2] \in Nat
      /\ DOMAIN Storages[phase] = 1 .. Len(Storages[phase]) /\ Len(Storages[phase]) \in Nat
    BY RangesOK DEF Storages
<1>2. Places(m, phase) = {[phase |-> phase, t |-> t, s |-> s] :
                             t \in implTypesRange[m][1] .. implTypesRange[m][2], s \in 1 .. Len(Storages[phase])}
    BY <1>1 DEF Places, Place
<1>3. ASSUME NEW q \in Places(m, phase)
      PROVE  q = [phase |-> phase, t |-> q.t, s |-> q.s] /\ q \in PlaceType /\ PlaceOK(m, q)
    BY <1>1, <1>2, <1>3 DEF PlaceOK, PlaceType
<1>4. ASSUME NEW q, q = [phase |-> phase, t |-> q.t, s |-> q.s], PlaceOK(m, q)
      PROVE  q \in Places(m, phase)
    <2>1. /\ q.t \in implTypesRange[m][1] .. implTypesRange[m][2]
          /\ q.s \in 1 .. Len(Storages[phase])
        BY <1>4 DEF PlaceOK
    <2> QED
        BY <1>2, <1>4, <2>1
<1> QED
    BY <1>3, <1>4

LEMMA PlaceIsItself ==
    ASSUME NEW m \in DOMAIN implTypesRange, NEW p \in PlaceType, PlaceOK(m, p)
    PROVE  p.phase \in 1..3 /\ p \in Places(m, p.phase)
<1>1. p.phase \in 1..3 /\ p = [phase |-> p.phase, t |-> p.t, s |-> p.s]
    BY DEF PlaceOK, PlaceType
<1> QED
    BY <1>1, PlacesOK

\* Nothing comes before the first place.
LEMMA FirstPlace ==
    ASSUME NEW m \in DOMAIN implTypesRange, NEW phase \in 1..3, NEW v
    PROVE  Visited(m, First(m, phase), v)
<1>1. First(m, phase) = [phase |-> phase, t |-> implTypesRange[m][1], s |-> 1]
    BY DEF First, Place
<1>2. ASSUME NEW q \in Places(m, phase)
      PROVE  ~Before(q, First(m, phase))
    <2>1. PlaceOK(m, q) /\ q \in PlaceType /\ q.phase = phase
        BY <1>2, PlacesOK
    <2>2. q.t \in implTypesRange[m][1] .. implTypesRange[m][2] /\ q.s \in 1 .. Len(Storages[phase])
        BY <2>1 DEF PlaceOK
    <2>3. implTypesRange[m][1] \in Int /\ q.t \in Int /\ q.s \in Int /\ Len(Storages[phase]) \in Int
        BY <2>1, RangesOK DEF PlaceType, Storages
    <2> QED
        BY <1>1, <2>2, <2>3 DEF Before
<1> QED
    BY <1>1, <1>2 DEF Visited

\* The next place follows the one before, with none between them; after the last
\* one every place of the search has been visited.
LEMMA AfterPlace ==
    ASSUME NEW m \in DOMAIN implTypesRange, NEW p \in PlaceType, PlaceOK(m, p)
    PROVE  \/ /\ After(m, p).phase = p.phase
              /\ \A q \in Places(m, p.phase) : Before(q, After(m, p)) => q = p \/ Before(q, p)
           \/ /\ After(m, p) = First(m, p.phase + 1)
              /\ \A q \in Places(m, p.phase) : q = p \/ Before(q, p)
<1> DEFINE n == Len(Storages[p.phase])
<1>1. /\ p.phase \in 1..3 /\ p = [phase |-> p.phase, t |-> p.t, s |-> p.s]
      /\ p.t \in implTypesRange[m][1] .. implTypesRange[m][2] /\ p.s \in 1..n
    BY DEF PlaceOK, PlaceType
<1>2. n \in Nat /\ implTypesRange[m][1] \in Int /\ implTypesRange[m][2] \in Int /\ p.t \in Int /\ p.s \in Int
    BY <1>1, RangesOK DEF PlaceType, Storages
<1>3. ASSUME NEW q \in Places(m, p.phase)
      PROVE  /\ q = [phase |-> p.phase, t |-> q.t, s |-> q.s]
             /\ q.t \in implTypesRange[m][1] .. implTypesRange[m][2] /\ q.s \in 1..n
             /\ q.t \in Int /\ q.s \in Int
    <2>1. q = [phase |-> p.phase, t |-> q.t, s |-> q.s] /\ q \in PlaceType /\ PlaceOK(m, q)
        BY <1>1, PlacesOK
    <2>2. q.phase = p.phase
        BY <2>1
    <2> QED
        BY <2>1, <2>2 DEF PlaceOK, PlaceType
<1>4. ASSUME NEW q \in Places(m, p.phase), q.t = p.t, q.s = p.s
      PROVE  q = p
    BY <1>1, <1>3, <1>4
<1>5. CASE p.s < n
    <2>1. After(m, p) = [phase |-> p.phase, t |-> p.t, s |-> p.s + 1]
        BY <1>1, <1>5 DEF After
    <2> HIDE DEF n
    <2>2. ASSUME NEW q \in Places(m, p.phase), Before(q, After(m, p))
          PROVE  q = p \/ Before(q, p)
        <3>1. q.t < p.t \/ (q.t = p.t /\ q.s < p.s + 1)
            BY <2>1, <2>2 DEF Before
        <3>2. q.t \in Int /\ q.s \in Int
            BY <1>3
        <3>3. q.t < p.t \/ (q.t = p.t /\ q.s < p.s) \/ (q.t = p.t /\ q.s = p.s)
            BY <3>1, <3>2, <1>2
        <3> QED
            BY <3>3, <1>4 DEF Before
    <2> QED
        BY <2>1, <2>2
<1>6. CASE ~(p.s < n) /\ p.t < implTypesRange[m][2]
    <2>1. After(m, p) = [phase |-> p.phase, t |-> p.t + 1, s |-> 1]
        BY <1>6 DEF After, Place
    <2> HIDE DEF n
    <2>2. ASSUME NEW q \in Places(m, p.phase), Before(q, After(m, p))
          PROVE  q = p \/ Before(q, p)
        <3>1. q.t < p.t + 1 \/ (q.t = p.t + 1 /\ q.s < 1)
            BY <2>1, <2>2 DEF Before
        <3>2. q.t \in Int /\ q.s \in 1..n /\ q.s \in Int
            BY <1>3
        <3>3. q.t < p.t \/ (q.t = p.t /\ q.s < p.s) \/ (q.t = p.t /\ q.s = p.s)
            BY <3>1, <3>2, <1>1, <1>2, <1>6
        <3> QED
            BY <3>3, <1>4 DEF Before
    <2> QED
        BY <2>1, <2>2
<1>7. CASE ~(p.s < n) /\ ~(p.t < implTypesRange[m][2])
    <2>1. After(m, p) = First(m, p.phase + 1)
        BY <1>7 DEF After
    <2> HIDE DEF n
    <2>2. ASSUME NEW q \in Places(m, p.phase)
          PROVE  q = p \/ Before(q, p)
        <3>1. q.t \in implTypesRange[m][1] .. implTypesRange[m][2] /\ q.s \in 1..n /\ q.t \in Int /\ q.s \in Int
            BY <1>3
        <3>2. q.t < p.t \/ (q.t = p.t /\ q.s < p.s) \/ (q.t = p.t /\ q.s = p.s)
            BY <3>1, <1>1, <1>2, <1>7
        <3> QED
            BY <3>2, <1>4 DEF Before
    <2> QED
        BY <2>1, <2>2
<1> QED
    BY <1>5, <1>6, <1>7

\* The first place that has a library that suits is the one that is found,
LEMMA FoundAt ==
    ASSUME NEW m \in DOMAIN implTypesRange, NEW p \in PlaceType, PlaceOK(m, p), NEW v,
           Visited(m, p, v), SuitsAt(p, v) # {}
    PROVE  Finds(m, p.phase, v) = {[phase |-> p.phase, lib |-> Offers(p)[Lowest(SuitsAt(p, v))].lib,
                                    type |-> Offers(p)[Lowest(SuitsAt(p, v))].type]}
<1> DEFINE suits(q) == {i \in DOMAIN Offers(q) : Suits(p.phase, Offers(q)[i].lib, v)}
           places == {q \in Places(m, p.phase) : suits(q) # {}}
           firsts == {q \in places : \A r \in places \ {q} : Before(q, r)}
           found(q) == [phase |-> p.phase, lib |-> Offers(q)[Lowest(suits(q))].lib,
                        type |-> Offers(q)[Lowest(suits(q))].type]
<1>1. Finds(m, p.phase, v) = {found(q) : q \in firsts}
    BY DEF Finds
<1>2. p.phase \in 1..3 /\ p \in Places(m, p.phase)
    BY PlaceIsItself
<1>3. ASSUME NEW q \in Places(m, p.phase)
      PROVE  suits(q) = SuitsAt(q, v)
    <2>1. q.phase = p.phase
        BY <1>2, <1>3, PlacesOK
    <2> QED
        BY <2>1 DEF SuitsAt
<1>4. ASSUME NEW q \in Places(m, p.phase), NEW r \in Places(m, p.phase)
      PROVE  /\ q = r \/ Before(q, r) \/ Before(r, q)
             /\ ~(Before(q, r) /\ Before(r, q)) /\ ~Before(q, q)
    <2>1. /\ q = [phase |-> p.phase, t |-> q.t, s |-> q.s] /\ r = [phase |-> p.phase, t |-> r.t, s |-> r.s]
          /\ q \in PlaceType /\ r \in PlaceType
        BY <1>2, PlacesOK
    <2>2. q.t \in Int /\ q.s \in Int /\ r.t \in Int /\ r.s \in Int
        BY <2>1 DEF PlaceType
    <2>3. q.t = r.t /\ q.s = r.s => q = r
        BY <2>1
    <2> QED
        BY <2>2, <2>3 DEF Before
<1>5. p \in places
    BY <1>2, <1>3
<1>6. ASSUME NEW q \in places
      PROVE  ~Before(q, p)
    BY <1>3, <1>6 DEF Visited, Barren
<1>7. firsts = {p}
    <2>1. p \in firsts
        BY <1>4, <1>5, <1>6
    <2>2. ASSUME NEW q \in firsts
          PROVE  q = p
        <3>1. q \in places /\ (p # q => Before(q, p))
            BY <1>5
        <3> QED
            BY <3>1, <1>6
    <2> HIDE DEF firsts
    <2> QED
        BY <2>1, <2>2
<1>8. found(p) = [phase |-> p.phase, lib |-> Offers(p)[Lowest(SuitsAt(p, v))].lib,
                  type |-> Offers(p)[Lowest(SuitsAt(p, v))].type]
    BY <1>2, <1>3
<1> HIDE DEF firsts, found
<1> QED
    BY <1>1, <1>7, <1>8

\* and nothing is if no place has one.
LEMMA NothingAt ==
    ASSUME NEW m \in DOMAIN implTypesRange, NEW phase \in 1..3, NEW v,
           \A q \in Places(m, phase) : Barren(q, v)
    PROVE  Finds(m, phase, v) = {}
<1>1. ASSUME NEW q \in Places(m, phase)
      PROVE  {i \in DOMAIN Offers(q) : Suits(phase, Offers(q)[i].lib, v)} = {}
    <2>1. q.phase = phase
        BY <1>1, PlacesOK
    <2> QED
        BY <1>1, <2>1 DEF Barren, SuitsAt
<1> QED
    BY <1>1 DEF Finds

-----------------------------------------------------------------------------
(* What a handle says of the library that it loaded                        *)

\* A handle that was not accepted says nothing that HandleSort prefers.
Plain(r) == r.version < VPL /\ r.media # "integrated"

\* A candidate is what its search should find, and ranks as that does.
RankedAs(r, phase, v) ==
    /\ r.version = VPL <=> Runtime[r.module].api = VPL /\ Major(v) < 2 /\ ~Runtime[r.module].partial
    /\ Major(v) < 2 => r.version <= VPL
    /\ r.media = "integrated" <=>
         phase = 1 /\ Exports(r.module, V(1, 19)) /\ Runtime[r.module].media = "integrated"
Result(r, phase, m, v) ==
    /\ Finds(m, phase, v) = {[phase |-> phase, lib |-> r.module, type |-> r.type]}
    /\ RankedAs(r, phase, v)

\* What loading a library makes of a handle if no call fails
LoadedAs(r, q, lib, type) ==
    /\ q.module = lib /\ q.type = type /\ q.req = r.req /\ q.media = r.media
    /\ q.status = IF Missing(lib, r.req) THEN "UNSUPPORTED"
                  ELSE IF Runtime[lib].partial THEN "PARTIAL_ACCELERATION" ELSE "NONE"
    /\ q.version = IF ~Missing(lib, r.req) /\ ~Runtime[lib].partial
                   THEN IF Major(r.req) >= 2 THEN V(2, 9) ELSE Runtime[lib].api
                   ELSE r.version

LEMMA LoadedAsOK ==
    ASSUME NEW w, WorldOK(w), NEW h \in Handle, w.h[h].owner = "call",
           NEW lib \in Lib, NEW type, NEW impl
    PROVE  LoadedAs(w.h[h], LoadSelectedDLL(w, h, lib, type, impl, "none").h[h], lib, type)
<1> DEFINE v == w.h[h].req
           c == Close(w, h)
           s == FreeSession(c)
           opens == lib # None /\ "none" # "LOAD"
           inits == opens /\ ~Missing(lib, v) /\ "none" # "INIT"
           answers == inits /\ ~Runtime[lib].partial /\ "none" # "VERSION"
           new == IF answers THEN IF Major(v) >= 2 THEN V(2, 9) ELSE Runtime[lib].api ELSE c.h[h].version
           m == IF opens THEN lib ELSE None
           z == IF inits THEN s ELSE None
           status == IF answers THEN "NONE"
                     ELSE IF inits /\ Runtime[lib].partial THEN "PARTIAL_ACCELERATION"
                     ELSE IF opens /\ ~Missing(lib, v) THEN "ERROR" ELSE "UNSUPPORTED"
           r == [c.h[h] EXCEPT !.module = m, !.table = m, !.session = z, !.version = new,
                               !.type = type, !.impl = impl, !.status = status]
           u == LoadSelectedDLL(w, h, lib, type, impl, "none")
<1>1. ~Refuses(w, h)
    BY NotRefused
<1>2. WorldOK(c) /\ c.h = [w.h EXCEPT ![h] = Reset(w.h[h])]
    BY <1>1, CloseOK
<1>3. /\ w.h[h] \in Object /\ c.h \in [Handle -> Object] /\ c.h[h] = Reset(w.h[h]) /\ c.h[h] \in Object
      /\ c.h[h].req = w.h[h].req /\ c.h[h].version = w.h[h].version /\ c.h[h].media = w.h[h].media
    BY <1>2, ResetObject DEF WorldOK, Typed
<1>4. u.h = [c.h EXCEPT ![h] = [c.h[h] EXCEPT
                   !.module = IF opens THEN lib ELSE None,
                   !.table = IF opens THEN lib ELSE None,
                   !.session = IF inits THEN s ELSE None,
                   !.version = IF answers THEN IF Major(v) >= 2 THEN V(2, 9) ELSE Runtime[lib].api ELSE @,
                   !.type = type, !.impl = impl,
                   !.status = IF answers THEN "NONE"
                              ELSE IF inits /\ Runtime[lib].partial THEN "PARTIAL_ACCELERATION"
                              ELSE IF opens /\ ~Missing(lib, v) THEN "ERROR" ELSE "UNSUPPORTED"]]
    BY DEF LoadSelectedDLL
<1>5. u.h = [c.h EXCEPT ![h] = r]
    <2> HIDE DEF c, s, opens, inits, answers, u
    <2> QED
        BY <1>3, <1>4 DEF Object
<1>6. opens /\ (inits <=> ~Missing(lib, v)) /\ (answers <=> ~Missing(lib, v) /\ ~Runtime[lib].partial)
    <2>1. opens
        BY NoneIsNone
    <2> HIDE DEF opens
    <2> QED
        BY <2>1
<1> HIDE DEF opens, inits, answers, c, s, u
<1>7. m = lib
    BY <1>6
<1>8. /\ status = IF Missing(lib, v) THEN "UNSUPPORTED"
                  ELSE IF Runtime[lib].partial THEN "PARTIAL_ACCELERATION" ELSE "NONE"
      /\ new = IF ~Missing(lib, v) /\ ~Runtime[lib].partial
               THEN IF Major(v) >= 2 THEN V(2, 9) ELSE Runtime[lib].api ELSE w.h[h].version
    BY <1>3, <1>6
<1> HIDE DEF m, z, status, new, v
<1>9. r.module = m /\ r.type = type /\ r.status = status /\ r.version = new
      /\ r.req = w.h[h].req /\ r.media = w.h[h].media
    BY <1>3 DEF Object
<1>10. u.h[h] = r
    BY <1>3, <1>5
<1> HIDE DEF r
<1> QED
    BY <1>7, <1>8, <1>9, <1>10 DEF LoadedAs, v, u

LEMMA RuntimeOK ==
    ASSUME NEW l \in Lib
    PROVE  /\ Runtime[l].api \in Nat /\ Runtime[l].api <= VPL /\ Runtime[l].partial \in BOOLEAN
           /\ VPL = 511 /\ V(2, 9) = 521 /\ V(1, 9) = 265
<1>1. VPL = 511 /\ V(2, 9) = 521 /\ V(1, 9) = 265 /\ V(1, 0) = 256
    BY DEF VPL, V
<1>2. /\ Runtime \in [Lib -> [api : Nat, media : Media, partial : BOOLEAN]]
      /\ Runtime[l].api \in V(1, 0)..VPL
    BY WindowsAssumption
<1> QED
    BY <1>1, <1>2

\* A search accepts exactly what suits it,
LEMMA AcceptedSuits ==
    ASSUME NEW phase \in 1..3, NEW lib \in Lib, NEW r, NEW q, NEW type, LoadedAs(r, q, lib, type)
    PROVE  Accepted(phase, q, "none") <=> Suits(phase, lib, r.req)
<1>1. /\ Runtime[lib].api \in Nat /\ V(2, 9) = 521 /\ V(1, 9) = 265
    BY RuntimeOK
<1>2. CASE phase = 1
    BY <1>2 DEF Accepted, Suits, LoadedAs
<1>3. CASE phase = 2
    BY <1>1, <1>3 DEF Accepted, Suits, LoadedAs
<1>4. CASE phase = 3
    BY <1>4 DEF Accepted, Suits, LoadedAs
<1> QED
    BY <1>2, <1>3, <1>4

\* and what it rejects leaves no trace that HandleSort sees.
LEMMA RejectedIsPlain ==
    ASSUME NEW phase \in 1..3, NEW lib \in Lib, NEW r, NEW q, NEW type, LoadedAs(r, q, lib, type),
           Plain(r), ~Suits(phase, lib, r.req)
    PROVE  Plain(q)
<1>1. /\ Runtime[lib].api \in Nat /\ VPL = 511 /\ V(2, 9) = 521 /\ V(1, 9) = 265
    BY RuntimeOK
<1>2. CASE Missing(lib, r.req) \/ Runtime[lib].partial
    BY <1>2 DEF LoadedAs, Plain
<1>3. CASE ~(Missing(lib, r.req) \/ Runtime[lib].partial)
    <2>1. phase = 2 /\ ~(Runtime[lib].api > V(1, 9)) /\ ~(Major(r.req) >= 2)
        BY <1>3 DEF Suits
    <2>2. q.version = Runtime[lib].api /\ q.media = r.media
        BY <1>3, <2>1 DEF LoadedAs
    <2> QED
        BY <1>1, <2>1, <2>2 DEF Plain
<1> QED
    BY <1>2, <1>3

LEMMA AcceptedRanks ==
    ASSUME NEW phase \in 1..3, NEW lib \in Lib, NEW r, NEW q, NEW type, LoadedAs(r, q, lib, type),
           Plain(r), r.version \in Nat, r.req \in Nat, Suits(phase, lib, r.req), NEW k, k.module = q.module, k.version = q.version,
           k.media = IF phase = 1 /\ Exports(lib, V(1, 19)) THEN Runtime[lib].media ELSE q.media
    PROVE  RankedAs(k, phase, r.req)
<1>1. /\ Runtime[lib].api \in Nat /\ Runtime[lib].api <= VPL /\ Runtime[lib].partial \in BOOLEAN
      /\ VPL = 511 /\ V(2, 9) = 521 /\ V(1, 9) = 265
    BY RuntimeOK
<1>2. ~Missing(lib, r.req)
    BY DEF Suits
<1>3. k.module = lib /\ q.media = r.media /\ r.version < VPL /\ r.media # "integrated"
    BY DEF LoadedAs, Plain
<1>4. CASE Runtime[lib].partial
    <2>1. k.version = r.version
        BY <1>2, <1>4 DEF LoadedAs
    <2> QED
        BY <1>1, <1>3, <1>4, <2>1 DEF RankedAs
<1>5. CASE ~Runtime[lib].partial
    <2>1. k.version = IF Major(r.req) >= 2 THEN V(2, 9) ELSE Runtime[lib].api
        BY <1>2, <1>5 DEF LoadedAs
    <2>4. Major(r.req) \in Int
        BY DEF Major
    <2>2. CASE Major(r.req) >= 2
        <3>1. ~(Major(r.req) < 2) /\ k.version # VPL
            BY <1>1, <2>1, <2>2, <2>4
        <3> QED
            BY <1>3, <3>1 DEF RankedAs
    <2>3. CASE ~(Major(r.req) >= 2)
        <3>1. Major(r.req) < 2 /\ k.version = Runtime[lib].api
            BY <2>1, <2>3, <2>4
        <3> QED
            BY <1>1, <1>3, <1>5, <3>1 DEF RankedAs
    <2> QED
        BY <2>2, <2>3
<1> QED
    BY <1>1, <1>4, <1>5

-----------------------------------------------------------------------------
(* HandleSort prefers what outranks                                        *)

LEMMA FirstOfFive ==
    ASSUME NEW a, NEW b, NEW c, NEW d, NEW e
    PROVE  /\ a # 0 => FirstOf(<<a, b, c, d, e>>) = a
           /\ a = 0 /\ b # 0 => FirstOf(<<a, b, c, d, e>>) = b
           /\ a = 0 /\ b = 0 /\ c # 0 => FirstOf(<<a, b, c, d, e>>) = c
<1> DEFINE s == <<a, b, c, d, e>>
           n == {i \in DOMAIN s : s[i] # 0}
<1>1. DOMAIN s = 1..5 /\ s[1] = a /\ s[2] = b /\ s[3] = c
    OBVIOUS
<1>2. n \subseteq Nat
    BY <1>1
<1>3. FirstOf(s) = IF n = {} THEN 0 ELSE s[Lowest(n)]
    BY DEF FirstOf
<1>4. ASSUME NEW i \in n, \A j \in n : i <= j
      PROVE  FirstOf(s) = s[i]
    <2> HIDE DEF s, n
    <2>1. Lowest(n) \in n /\ \A j \in n : Lowest(n) <= j
        BY <1>2, <1>4, LowestNumber
    <2>2. Lowest(n) \in Nat /\ i \in Nat
        BY <1>2, <1>4, <2>1
    <2>4. i <= Lowest(n)
        BY <1>4, <2>1
    <2>5. Lowest(n) <= i
        BY <1>4, <2>1
    <2>3. Lowest(n) = i
        BY ONLY <2>2, <2>4, <2>5
    <2> QED
        BY <1>3, <1>4, <2>3
<1>5. a # 0 => 1 \in n /\ \A j \in n : 1 <= j
    BY <1>1
<1>6. a = 0 /\ b # 0 => 2 \in n /\ \A j \in n : 2 <= j
    BY <1>1
<1>7. a = 0 /\ b = 0 /\ c # 0 => 3 \in n /\ \A j \in n : 3 <= j
    BY <1>1
<1> HIDE DEF s, n
<1> QED
    BY <1>1, <1>4, <1>5, <1>6, <1>7 DEF s

\* The rank of what a candidate is, as its handle says it
Asked(r, phase) == [phase |-> phase, lib |-> r.module, type |-> r.type]

LEMMA RankOfHandle ==
    ASSUME NEW r, NEW phase, NEW v, RankedAs(r, phase, v)
    PROVE  /\ Rank(Asked(r, phase), v)[1] <=> r.version = VPL
           /\ Rank(Asked(r, phase), v)[2] <=> r.type = "hw"
           /\ Rank(Asked(r, phase), v)[3] <=> r.media = "integrated"
           /\ Rank(Asked(r, phase), v)[1] \in BOOLEAN
           /\ Rank(Asked(r, phase), v)[2] \in BOOLEAN
           /\ Rank(Asked(r, phase), v)[3] \in BOOLEAN
<1> DEFINE f == Asked(r, phase)
<1>1. f.phase = phase /\ f.lib = r.module /\ f.type = r.type
    BY DEF Asked
<1> HIDE DEF f
<1>2. /\ Rank(f, v)[1] = (Runtime[f.lib].api = VPL /\ Major(v) < 2 /\ ~Runtime[f.lib].partial)
      /\ Rank(f, v)[2] = (f.type = "hw")
      /\ Rank(f, v)[3] = (f.phase = 1 /\ Exports(f.lib, V(1, 19)) /\ Runtime[f.lib].media = "integrated")
    BY DEF Rank
<1>3. /\ Rank(f, v)[1] <=> r.version = VPL
      /\ Rank(f, v)[2] <=> r.type = "hw"
      /\ Rank(f, v)[3] <=> r.media = "integrated"
    BY <1>1, <1>2 DEF RankedAs
<1>4. /\ Rank(f, v)[1] \in BOOLEAN
      /\ Rank(f, v)[2] \in BOOLEAN
      /\ Rank(f, v)[3] \in BOOLEAN
    BY <1>2
<1> QED
    BY <1>3, <1>4 DEF f

\* What outranks comes first.
LEMMA OutranksIsFirst ==
    ASSUME NEW a, NEW b, NEW v, NEW p, NEW q, RankedAs(a, p, v), RankedAs(b, q, v),
           a.version \in Nat, b.version \in Nat, v \in Nat, Outranks(Asked(a, p), Asked(b, q), v)
    PROVE  HandleSort(a, b) = -1 /\ HandleSort(b, a) = 1
<1> DEFINE f == Rank(Asked(a, p), v)
           g == Rank(Asked(b, q), v)
<1>1. /\ f[1] <=> a.version = VPL
      /\ f[2] <=> a.type = "hw"
      /\ f[3] <=> a.media = "integrated"
    BY RankOfHandle
<1>2. /\ g[1] <=> b.version = VPL
      /\ g[2] <=> b.type = "hw"
      /\ g[3] <=> b.media = "integrated"
    BY RankOfHandle
<1>3. PICK i \in 1..3 : f[i] /\ ~g[i] /\ \A j \in 1 .. i - 1 : f[j] = g[j]
    BY DEF Outranks
<1> HIDE DEF f, g
<1>4. \/ f[1] /\ ~g[1]
      \/ f[2] /\ ~g[2] /\ (f[1] <=> g[1])
      \/ f[3] /\ ~g[3] /\ (f[1] <=> g[1]) /\ (f[2] <=> g[2])
    <2>1. CASE i = 1
        BY <1>3, <2>1
    <2>2. CASE i = 2
        <3>1. 1 \in 1 .. i - 1
            BY <2>2
        <3>2. f[1] = g[1]
            BY <1>3, <3>1
        <3> QED
            BY <1>3, <2>2, <3>2
    <2>3. CASE i = 3
        <3>1. 1 \in 1 .. i - 1 /\ 2 \in 1 .. i - 1
            BY <2>3
        <3>2. f[1] = g[1] /\ f[2] = g[2]
            BY <1>3, <3>1
        <3> QED
            BY <1>3, <2>3, <3>2
    <2> QED
        BY <2>1, <2>2, <2>3
<1>5. VPL = 511 /\ Major(v) \in Int
    BY DEF VPL, V, Major
<1> DEFINE v1(x, y) == Sign(x.version = VPL /\ y.version < VPL, y.version = VPL /\ x.version < VPL)
           v2(x, y) == Sign(x.type = "hw" /\ y.type # "hw", y.type = "hw" /\ x.type # "hw")
           v3(x, y) == Sign(x.media = "integrated" /\ y.media # "integrated",
                            y.media = "integrated" /\ x.media # "integrated")
           v4(x, y) == Sign(x.version < y.version, y.version < x.version)
           v5(x, y) == Sign(x.status = "NONE" /\ y.status # "NONE", y.status = "NONE" /\ x.status # "NONE")
<1>6. ASSUME NEW x, NEW y
      PROVE  /\ v1(x, y) # 0 => HandleSort(x, y) = v1(x, y)
             /\ v1(x, y) = 0 /\ v2(x, y) # 0 => HandleSort(x, y) = v2(x, y)
             /\ v1(x, y) = 0 /\ v2(x, y) = 0 /\ v3(x, y) # 0 => HandleSort(x, y) = v3(x, y)
    <2>1. HandleSort(x, y) = FirstOf(<<v1(x, y), v2(x, y), v3(x, y), v4(x, y), v5(x, y)>>)
        BY DEF HandleSort
    <2> HIDE DEF v1, v2, v3, v4, v5
    <2> QED
        BY <2>1, FirstOfFive
<1>7. (a.version = VPL \/ b.version = VPL) => a.version <= VPL /\ b.version <= VPL
    BY DEF RankedAs
<1>8. CASE f[1] /\ ~g[1]
    <2>1. v1(a, b) = -1 /\ v1(b, a) = 1
        BY <1>1, <1>2, <1>5, <1>7, <1>8 DEF Sign
    <2> HIDE DEF v1, v2, v3, v4, v5
    <2> QED
        BY <1>6, <2>1
<1>9. CASE f[2] /\ ~g[2] /\ (f[1] <=> g[1])
    <2>1. v1(a, b) = 0 /\ v1(b, a) = 0
        BY <1>1, <1>2, <1>5, <1>9 DEF Sign
    <2>2. v2(a, b) = -1 /\ v2(b, a) = 1
        BY <1>1, <1>2, <1>9 DEF Sign
    <2> HIDE DEF v1, v2, v3, v4, v5
    <2> QED
        BY <1>6, <2>1, <2>2
<1>10. CASE f[3] /\ ~g[3] /\ (f[1] <=> g[1]) /\ (f[2] <=> g[2])
    <2>1. v1(a, b) = 0 /\ v1(b, a) = 0
        BY <1>1, <1>2, <1>5, <1>10 DEF Sign
    <2>2. v2(a, b) = 0 /\ v2(b, a) = 0
        BY <1>1, <1>2, <1>10 DEF Sign
    <2>3. v3(a, b) = -1 /\ v3(b, a) = 1
        BY <1>1, <1>2, <1>10 DEF Sign
    <2> HIDE DEF v1, v2, v3, v4, v5
    <2> QED
        BY <1>6, <2>1, <2>2, <2>3
<1> QED
    BY <1>4, <1>8, <1>9, <1>10

-----------------------------------------------------------------------------
(* The second invariant                                                    *)

\* The candidates are what the searches before n should find, one of each.
Results(m, v, n) ==
    /\ \A h \in Candidates : \E phase \in 1 .. n - 1 : Result(handles[h], phase, m, v)
    /\ \A phase \in 1 .. n - 1 :
         Finds(m, phase, v) = {} \/ \E h \in Candidates : Result(handles[h], phase, m, v)

\* The search that runs has passed over nothing that suits.
Searched(m, v, p, last) ==
    /\ Plain(handles[call.current])
    /\ Results(m, v, p.phase)
    /\ call.pc = "search" => Visited(m, p, v) /\ NoneBefore(p, last, v)

Progress ==
    /\ call.pc = "choose" => call.place.phase = 4
    /\ \A m, v, p, last :
         /\ call.pc \in {"search", "choose"} /\ ~call.faulted
         /\ m = call.method /\ v = handles[call.current].req /\ p = call.place /\ last = call.last
         => Searched(m, v, p, last)

LEMMA BarrenStays ==
    ASSUME inst' = inst, NEW p, NEW v
    PROVE  Barren(p, v)' <=> Barren(p, v)
BY OffersStay DEF Barren, SuitsAt

LEMMA VisitedStays ==
    ASSUME inst' = inst, NEW m, NEW p, NEW v
    PROVE  Visited(m, p, v)' <=> Visited(m, p, v)
<1>1. \A q : Barren(q, v)' <=> Barren(q, v)
    BY BarrenStays
<1> QED
    BY <1>1 DEF Visited

LEMMA NoneBeforeStays ==
    ASSUME inst' = inst, NEW p, NEW last, NEW v
    PROVE  NoneBefore(p, last, v)' <=> NoneBefore(p, last, v)
<1>1. Barren(p, v)' <=> Barren(p, v)
    BY BarrenStays
<1>2. Eligible(p)' = Eligible(p) /\ Keys(p)' = Keys(p)
    BY DEF Eligible, Keys, Adapter, Fits, OnIntel, Type, Storage, Device
<1> QED
    BY <1>1, <1>2 DEF NoneBefore

LEMMA ResultsStay ==
    ASSUME inst' = inst, Candidates' = Candidates, \A h \in Candidates : handles'[h] = handles[h],
           NEW m, NEW v, NEW n, Results(m, v, n)
    PROVE  Results(m, v, n)'
<1>1. \A phase : Finds(m, phase, v)' = Finds(m, phase, v)
    BY FindsStays
<1>2. ASSUME NEW h \in Candidates, NEW phase
      PROVE  Result(handles[h], phase, m, v)' <=> Result(handles[h], phase, m, v)
    <2>1. handles'[h] = handles[h]
        BY <1>2
    <2> QED
        BY <1>1, <2>1 DEF Result, RankedAs
<1> QED
    BY <1>1, <1>2 DEF Results

\* A search that found nothing adds nothing.
LEMMA ResultsNothing ==
    ASSUME NEW m, NEW v, NEW n \in Nat, Results(m, v, n), Finds(m, n, v) = {}
    PROVE  Results(m, v, n + 1)
<1>1. \A phase : phase \in 1 .. (n + 1) - 1 => phase \in 1 .. n - 1 \/ phase = n
    OBVIOUS
<1>2. \A phase : phase \in 1 .. n - 1 => phase \in 1 .. (n + 1) - 1
    OBVIOUS
<1> QED
    BY <1>1, <1>2 DEF Results

LEMMA ProgressStep ==
    ASSUME inst' = inst, NEW m, NEW v, NEW p, NEW last,
           call'.method = m, handles'[call'.current].req = v, call'.place = p, call'.last = last,
           call'.pc = "choose" => p.phase = 4,
           \/ call'.faulted
           \/ /\ Plain(handles'[call'.current]) /\ Results(m, v, p.phase)'
              /\ call'.pc = "search" => Visited(m, p, v) /\ NoneBefore(p, last, v)
    PROVE  Progress'
<1>1. CASE call'.faulted
    BY <1>1 DEF Progress
<1>2. CASE /\ Plain(handles'[call'.current]) /\ Results(m, v, p.phase)'
           /\ call'.pc = "search" => Visited(m, p, v) /\ NoneBefore(p, last, v)
    <2>1. Searched(m, v, p, last)'
        BY <1>2, VisitedStays, NoneBeforeStays DEF Searched, Plain
    <2> QED
        BY <2>1 DEF Progress
<1> QED
    BY <1>1, <1>2

LEMMA RestingProgress ==
    ASSUME call'.pc \notin {"search", "choose"}
    PROVE  Progress'
BY DEF Progress

\* What the invariants say of a running search
LEMMA SearchedNow ==
    ASSUME IInv, Progress, call.pc \in {"search", "choose"}
    PROVE  /\ ~call.faulted => Searched(call.method, handles[call.current].req, call.place, call.last)
           /\ call.pc = "choose" => call.place.phase = 4
           /\ Searching /\ call \in CallType /\ inst \in Installations
           /\ call.method \in DOMAIN implTypesRange /\ call.place \in PlaceType /\ call.last \in LastType
           /\ call.current \in Handle /\ call.current \notin Candidates /\ Candidates \subseteq Handle
           /\ handles \in [Handle -> Object] /\ handles[call.current].owner = "call"
           /\ handles[call.current].req \in Nat
           /\ WorldOK(World) /\ World.h = handles
           /\ call.faulted \in BOOLEAN
<1>1. ~call.faulted => Searched(call.method, handles[call.current].req, call.place, call.last)
    BY DEF Progress
<1>2. call.pc = "choose" => call.place.phase = 4
    BY DEF Progress
<1>3. Searching /\ CallOK /\ inst \in Installations /\ WorldOK(World) /\ World.h = handles
    BY DEF IInv, World
<1>4. /\ call.current \in Handle /\ handles[call.current].owner = "call"
      /\ call.current \notin Candidates
    BY <1>3 DEF Searching
<1>5. handles \in [Handle -> Object]
    BY <1>3 DEF WorldOK, Typed
<1>6. /\ call.method \in DOMAIN implTypesRange /\ call.place \in PlaceType /\ call.last \in LastType
      /\ call.candidates \in Seq(Handle) /\ call.faulted \in BOOLEAN
    BY <1>3 DEF CallOK, CallType
<1>7. Candidates \subseteq Handle
    BY <1>6 DEF Candidates
<1>8. handles[call.current].req \in Nat
    <2>1. handles[call.current].req \in Req
        BY <1>4, <1>5 DEF Object
    <2>2. Req \subseteq Nat
        <3>1. \A l \in Lib : Runtime[l].api \in Nat
            BY RuntimeOK
        <3>2. Versions \subseteq Nat
            BY WindowsAssumption
        <3>3. {Runtime[l].api : l \in Lib} \subseteq Nat /\ 0 \in Nat
            BY ONLY <3>1
        <3> QED
            BY ONLY <3>2, <3>3 DEF Req
    <2> QED
        BY ONLY <2>1, <2>2
<1>9. call \in CallType
    BY <1>3 DEF CallOK
<1> QED
    BY ONLY <1>1, <1>2, <1>3, <1>4, <1>5, <1>6, <1>7, <1>8, <1>9

-----------------------------------------------------------------------------
(* The steps keep the second invariant                                     *)

\* A call begins before the first place of its first search.
LEMMA BeginProgress ==
    ASSUME IInv, call.pc = "idle", Cardinality(App) < MaxSessions, UNCHANGED <<inst, faults>>,
           NEW m \in DOMAIN implTypesRange, NEW v \in Req, NEW clones \in Handle \cup {None},
           Begin(m, v, clones)
    PROVE  Progress'
<1> DEFINE h == FreeHandle(World)
           u == Allocate(World, h, v)
           p == First(m, 1)
<1>1. h \in Handle /\ handles[h].owner = "free"
    BY IdleHandle
<1>2. /\ Becomes(u)
      /\ call' = [Idle EXCEPT !.pc = "search", !.method = m, !.place = p,
                              !.current = h, !.clones = clones]
    BY DEF Begin
<1>3. /\ call'.pc = "search" /\ call'.method = m /\ call'.place = p /\ call'.last = NoLast
      /\ call'.current = h /\ call'.candidates = <<>>
    BY <1>2 DEF Idle
<1> HIDE DEF h
<1>4. WorldOK(u) /\ u.h = [handles EXCEPT ![h] = New(v)] /\ handles \in [Handle -> Object]
    <2>1. WorldOK(World) /\ World.h = handles
        BY DEF IInv, World
    <2>2. WorldOK(u) /\ u.h = [handles EXCEPT ![h] = New(v)]
        BY <1>1, <2>1, AllocateOK
    <2> QED
        BY <2>1, <2>2 DEF WorldOK, Typed
<1> HIDE DEF u
<1>5. handles'[h] = New(v)
    BY <1>1, <1>2, <1>4 DEF Becomes
<1>6. handles'[h].req = v /\ Plain(handles'[h])
    BY <1>5 DEF New, Plain, VPL, V
<1>7. p.phase = 1
    BY FirstOK
<1>8. Results(m, v, p.phase)'
    <2>1. Candidates' = {}
        BY <1>3 DEF Candidates
    <2>2. 1 .. p.phase - 1 = {}
        BY <1>7
    <2> QED
        BY <2>1, <2>2 DEF Results
<1>9. Visited(m, p, v) /\ NoneBefore(p, NoLast, v)
    <2>1. 1 \in 1..3 /\ inst \in Installations
        BY DEF IInv
    <2> QED
        BY <2>1, FirstPlace, NoneBeforeFirst
<1> HIDE DEF p
<1> QED
    BY <1>3, <1>6, <1>8, <1>9, ProgressStep

\* A place is left when it has nothing that suits.
LEMMA NextPlaceProgress == ASSUME IInv, Progress, NextPlace PROVE Progress'
<1> DEFINE u == IF call.place.phase = 3 THEN Close(World, call.current) ELSE World
<1> SUFFICES ASSUME NEW m, NEW v, NEW p, NEW place,
                    m = call.method, v = handles[call.current].req, p = call.place, place = After(m, p)
             PROVE  Progress'
    OBVIOUS
<1>1. call.pc = "search" /\ Becomes(u) /\ call' = MoveTo(call, place) /\ UNCHANGED <<inst, faults>>
      /\ SelectDLLVersion(call.place, call.last).lib = None
    BY DEF NextPlace
<1>2. /\ ~call.faulted => Searched(m, v, p, call.last)
      /\ Searching /\ call \in CallType /\ inst \in Installations
      /\ m \in DOMAIN implTypesRange /\ p \in PlaceType /\ call.last \in LastType
      /\ call.current \in Handle /\ call.current \notin Candidates /\ Candidates \subseteq Handle
      /\ handles \in [Handle -> Object] /\ handles[call.current].owner = "call"
      /\ WorldOK(World) /\ World.h = handles
    BY <1>1, SearchedNow
<1>3. PlaceOK(m, p) /\ p.phase \in 1..3
    BY <1>1, <1>2 DEF Searching, PlaceOK
<1>4. /\ \A g \in Handle \ {call.current} : handles'[g] = handles[g]
      /\ handles'[call.current].req = v
      /\ Plain(handles[call.current]) => Plain(handles'[call.current])
    <2>1. CASE p.phase = 3
        <3>1. ~Refuses(World, call.current)
            BY <1>2, NotRefused
        <3>2. Close(World, call.current).h = [handles EXCEPT ![call.current] = Reset(handles[call.current])]
            BY <3>1, <1>2, CloseOK
        <3>3. handles' = [handles EXCEPT ![call.current] = Reset(handles[call.current])]
            BY <2>1, <3>2, <1>1 DEF Becomes
        <3>4. handles[call.current] \in Object
            BY <1>2
        <3> QED
            BY <3>3, <3>4, <1>2, ResetObject DEF Plain
    <2>2. CASE p.phase # 3
        <3>1. handles' = handles
            BY <2>2, <1>1, <1>2 DEF Becomes
        <3> QED
            BY <3>1
    <2> QED
        BY <2>1, <2>2
<1>5. /\ call'.method = m /\ call'.current = call.current /\ call'.candidates = call.candidates
      /\ call'.place = place /\ call'.last = NoLast /\ call'.faulted = call.faulted
      /\ call'.pc = IF place.phase > 3 THEN "choose" ELSE "search"
    BY <1>1, <1>2 DEF MoveTo, CallType
<1>6. place \in PlaceType
    BY <1>2, <1>3, AfterOK
<1>7. Candidates' = Candidates /\ \A h \in Candidates : handles'[h] = handles[h]
    BY <1>2, <1>4, <1>5 DEF Candidates
<1> HIDE DEF u
<1>8. CASE call.faulted
    <2>1. call'.pc = "choose" => place.phase = 4
        BY <1>5, <1>6 DEF PlaceType
    <2> QED
        BY <2>1, <1>1, <1>4, <1>5, <1>8, ProgressStep
<1>9. CASE ~call.faulted
    <2>1. Searched(m, v, p, call.last)
        BY <1>2, <1>9
    <2>2. Plain(handles[call.current]) /\ Results(m, v, p.phase) /\ Visited(m, p, v) /\ NoneBefore(p, call.last, v)
        BY <2>1, <1>1 DEF Searched
    <2>3. Barren(p, v)
        BY <1>1, <1>2, <1>3, <2>2, ExhaustedIsBarren
    <2>4. \A q \in Places(m, p.phase) : q = p \/ Before(q, p) => Barren(q, v)
        BY <2>2, <2>3 DEF Visited
    <2>5. NoneBefore(place, NoLast, v)
        BY <1>2, NoneBeforeFirst
    <2>6. CASE /\ place.phase = p.phase
               /\ \A q \in Places(m, p.phase) : Before(q, place) => q = p \/ Before(q, p)
        <3>1. Visited(m, place, v)
            BY <2>4, <2>6 DEF Visited
        <3>2. Results(m, v, place.phase)'
            BY <1>1, <1>7, <2>2, <2>6, ResultsStay
        <3>3. call'.pc = "search"
            BY <1>3, <1>5, <2>6
        <3> QED
            BY <3>1, <3>2, <3>3, <1>1, <1>4, <1>5, <2>2, <2>5, ProgressStep
    <2>7. CASE /\ place = First(m, p.phase + 1)
               /\ \A q \in Places(m, p.phase) : q = p \/ Before(q, p)
        <3>1. Finds(m, p.phase, v) = {}
            BY <1>2, <1>3, <2>4, <2>7, NothingAt
        <3>2. p.phase + 1 \in 1..4 /\ p.phase \in Nat
            BY <1>3
        <3>3. place.phase = p.phase + 1
            BY <1>2, <2>7, <3>2, FirstOK
        <3>4. Results(m, v, place.phase)
            BY <2>2, <3>1, <3>2, <3>3, ResultsNothing
        <3>5. Results(m, v, place.phase)'
            BY <1>1, <1>7, <3>4, ResultsStay
        <3>6. call'.pc = "choose" => place.phase = 4
            BY <1>5, <3>2, <3>3
        <3>7. ASSUME call'.pc = "search"
              PROVE  Visited(m, place, v)
            <4>1. p.phase + 1 \in 1..3
                BY <1>5, <3>2, <3>3, <3>7
            <4> QED
                BY <1>2, <2>7, <4>1, FirstPlace
        <3> QED
            BY <3>5, <3>6, <3>7, <1>1, <1>4, <1>5, <2>2, <2>5, ProgressStep
    <2> QED
        BY <1>2, <1>3, <2>6, <2>7, AfterPlace
<1> QED
    BY <1>8, <1>9

\* What trying a library says of it, if nothing failed
LEMMA TriedAs ==
    ASSUME IInv, Progress, call.pc = "search", SelectDLLVersion(call.place, call.last).lib \in Lib
    PROVE  LoadedAs(handles[call.current], Tried("none").h[call.current],
                    SelectDLLVersion(call.place, call.last).lib, SelectDLLVersion(call.place, call.last).type)
<1> DEFINE next == SelectDLLVersion(call.place, call.last)
<1>1. /\ WorldOK(World) /\ World.h = handles /\ call.current \in Handle /\ handles[call.current].owner = "call"
    BY SearchedNow
<1>2. Tried("none") = LoadSelectedDLL(World, call.current, next.lib, next.type, Types[call.place.t].impl, "none")
    BY DEF Tried
<1> HIDE DEF next
<1>3. LoadedAs(World.h[call.current], Tried("none").h[call.current], next.lib, next.type)
    <2>1. next.lib \in Lib
        BY DEF next
    <2> QED
        BY <1>1, <1>2, <2>1, LoadedAsOK
<1> QED
    BY <1>1, <1>3 DEF next

\* A library that does not suit leaves nothing behind.
LEMMA RejectedProgress ==
    ASSUME IInv, Progress, call.pc = "search", inst' = inst, faults' \in 0..MaxFaults,
           SelectDLLVersion(call.place, call.last).lib \in Lib, NEW fault, NEW u, Rejects(fault, u)
    PROVE  Progress'
<1> SUFFICES ASSUME NEW m, NEW v, NEW p, NEW next, NEW q,
                    m = call.method, v = handles[call.current].req, p = call.place,
                    next = SelectDLLVersion(call.place, call.last), q = Tried("none").h[call.current]
             PROVE  Progress'
    OBVIOUS
<1>1. /\ ~call.faulted => Searched(m, v, p, call.last)
      /\ Searching /\ call \in CallType /\ inst \in Installations
      /\ m \in DOMAIN implTypesRange /\ p \in PlaceType /\ call.last \in LastType
      /\ call.current \in Handle /\ call.current \notin Candidates /\ Candidates \subseteq Handle
    BY SearchedNow
<1>2. PlaceOK(m, p) /\ p.phase \in 1..3
    BY <1>1 DEF Searching, PlaceOK
<1>3. /\ handles'[call.current].version = Tried(fault).h[call.current].version
      /\ handles'[call.current].media = Tried(fault).h[call.current].media
      /\ handles'[call.current].req = Tried(fault).h[call.current].req
      /\ \A g \in Handle \ {call.current} : handles'[g] = handles[g]
      /\ call'.pc = "search" /\ call'.method = m /\ call'.place = p
      /\ call'.current = call.current /\ call'.candidates = call.candidates
      /\ call'.last = next.last
      /\ call'.faulted = (call.faulted \/ fault # "none")
    BY RejectedOK
<1>4. ~Accepted(p.phase, Tried(fault).h[call.current], fault)
    BY DEF Rejects
<1>5. CASE call'.faulted
    BY <1>5, <1>3, ProgressStep
<1>6. CASE ~call'.faulted
    <2>1. ~call.faulted /\ fault = "none"
        BY <1>3, <1>6
    <2>2. Plain(handles[call.current]) /\ Results(m, v, p.phase) /\ Visited(m, p, v) /\ NoneBefore(p, call.last, v)
        BY <1>1, <2>1 DEF Searched
    <2>3. LoadedAs(handles[call.current], q, next.lib, next.type) /\ next.lib \in Lib
        BY TriedAs
    <2>4. q.req = v
        BY <2>3 DEF LoadedAs
    <2>5. ~Suits(p.phase, next.lib, v)
        BY <1>2, <1>4, <2>1, <2>3, AcceptedSuits
    <2>6. Plain(q)
        BY <1>2, <2>2, <2>3, <2>5, RejectedIsPlain
    <2>7. Plain(handles'[call'.current]) /\ handles'[call'.current].req = v
        BY <1>3, <2>1, <2>4, <2>6 DEF Plain
    <2>8. NoneBefore(p, next.last, v)
        <3>1. next.lib # None
            BY <2>3, NoneIsNone
        <3> QED
            BY <1>1, <1>2, <2>2, <2>5, <3>1, NoneBeforeNext
    <2>9. Results(m, v, p.phase)'
        <3>1. Candidates' = Candidates
            BY <1>3 DEF Candidates
        <3>2. \A h \in Candidates : handles'[h] = handles[h]
            BY <1>1, <1>3
        <3> QED
            BY <2>2, <3>1, <3>2, ResultsStay
    <2> QED
        BY <1>3, <2>2, <2>7, <2>8, <2>9, ProgressStep
<1> QED
    BY <1>5, <1>6

\* A library that suits is what the search should find.
LEMMA AcceptedProgress ==
    ASSUME IInv, Progress, call.pc = "search", inst' = inst, faults' \in 0..MaxFaults,
           SelectDLLVersion(call.place, call.last).lib \in Lib,
           NEW fault, NEW media, NEW kept, NEW g, NEW req, Accepts(fault, media, kept, g, req)
    PROVE  Progress'
<1> SUFFICES ASSUME NEW m, NEW v, NEW p, NEW next, NEW q, NEW h, NEW place, NEW r,
                    m = call.method, v = handles[call.current].req, p = call.place, h = call.current,
                    next = SelectDLLVersion(call.place, call.last), q = Tried("none").h[call.current],
                    place = First(m, p.phase + 1), r = [q EXCEPT !.owner = "candidate", !.media = media]
             PROVE  Progress'
    OBVIOUS
<1>1. /\ ~call.faulted => Searched(m, v, p, call.last)
      /\ Searching /\ call \in CallType /\ inst \in Installations
      /\ m \in DOMAIN implTypesRange /\ p \in PlaceType /\ call.last \in LastType
      /\ h \in Handle /\ h \notin Candidates /\ Candidates \subseteq Handle
      /\ handles \in [Handle -> Object] /\ v \in Nat
    BY SearchedNow
<1>2. PlaceOK(m, p) /\ p.phase \in 1..3
    BY <1>1 DEF Searching, PlaceOK
<1>3. /\ fault = "none" /\ Accepted(p.phase, q, "none") /\ req = q.req
      /\ media = IF p.phase = 1 /\ Exports(next.lib, V(1, 19)) THEN Runtime[next.lib].media ELSE q.media
    BY DEF Accepts
<1>4. /\ handles'[h] = r
      /\ handles'[g] = New(req) /\ g # h /\ handles[g].owner = "free"
      /\ \A f \in Handle \ {g, h} : handles'[f] = handles[f]
      /\ Candidates' = Candidates \cup {h}
      /\ call'.pc = IF p.phase = 3 THEN "choose" ELSE "search"
      /\ call'.method = m /\ call'.current = g
      /\ call'.place = place /\ call'.last = NoLast
      /\ call'.faulted = call.faulted
    <2>1. AcceptedStep(fault, media, g, req)
        BY AcceptedOK
    <2>2. r = [Tried(fault).h[call.current] EXCEPT !.owner = "candidate", !.media = media]
        BY <1>3
    <2> QED
        BY <2>1, <2>2 DEF AcceptedStep
<1>5. LoadedAs(handles[h], q, next.lib, next.type) /\ next.lib \in Lib
    BY TriedAs
<1>6. q.req = v /\ Suits(p.phase, next.lib, v)
    <2>1. q.req = v
        BY <1>5 DEF LoadedAs
    <2>2. Accepted(p.phase, q, "none") <=> Suits(p.phase, next.lib, handles[h].req)
        BY ONLY <1>2, <1>5, AcceptedSuits
    <2> QED
        BY <1>3, <2>1, <2>2
<1>7. handles'[g].req = v /\ Plain(handles'[g])
    BY <1>3, <1>4, <1>6 DEF New, Plain, VPL, V
<1>8. p.phase + 1 \in 1..4 /\ place.phase = p.phase + 1
    BY <1>1, <1>2, FirstOK
<1>9. call'.pc = "choose" => place.phase = 4
    BY <1>4, <1>8
<1>10. CASE call.faulted
    BY <1>4, <1>7, <1>9, <1>10, ProgressStep
<1>11. CASE ~call.faulted
    <2>1. Plain(handles[h]) /\ Results(m, v, p.phase) /\ Visited(m, p, v) /\ NoneBefore(p, call.last, v)
        BY <1>1, <1>11 DEF Searched
    <2>2. Finds(m, p.phase, v) = {[phase |-> p.phase, lib |-> next.lib, type |-> next.type]}
        <3>1. next.lib # None
            BY <1>5, NoneIsNone
        <3>2. /\ SuitsAt(p, v) # {}
              /\ Offers(p)[Lowest(SuitsAt(p, v))] = [lib |-> next.lib, type |-> next.type]
            BY <1>1, <1>2, <1>6, <2>1, <3>1, NextSuits
        <3>3. Finds(m, p.phase, v) = {[phase |-> p.phase, lib |-> Offers(p)[Lowest(SuitsAt(p, v))].lib,
                                       type |-> Offers(p)[Lowest(SuitsAt(p, v))].type]}
            BY <1>1, <1>2, <2>1, <3>2, FoundAt
        <3> QED
            BY <3>2, <3>3
    <2>3. q \in Object
        BY <1>1, <1>3, TriedOK
    <2>4. r.module = q.module /\ r.type = q.type /\ r.version = q.version /\ r.media = media
        BY <2>3 DEF Object
    <2>5. RankedAs(r, p.phase, v)
        <3>1. handles[h].version \in Nat /\ handles[h].req \in Nat
            <4>1. handles[h].version \in Version
                BY <1>1 DEF Object
            <4> QED
                BY <1>1, <4>1, VersionsOK
        <3>2. v = handles[h].req
            OBVIOUS
        <3>3. /\ p.phase \in 1..3 /\ next.lib \in Lib /\ LoadedAs(handles[h], q, next.lib, next.type)
              /\ Plain(handles[h]) /\ Suits(p.phase, next.lib, handles[h].req)
            BY <1>2, <1>5, <1>6, <2>1, <3>2
        <3>4. /\ r.module = q.module /\ r.version = q.version
              /\ r.media = IF p.phase = 1 /\ Exports(next.lib, V(1, 19)) THEN Runtime[next.lib].media ELSE q.media
            BY <1>3, <2>4
        <3>5. RankedAs(r, p.phase, handles[h].req)
            BY ONLY <3>1, <3>3, <3>4, AcceptedRanks
        <3> QED
            BY <3>2, <3>5
    <2>6. r.module = next.lib /\ r.type = next.type
        BY <1>5, <2>4 DEF LoadedAs
    <2>7. Results(m, v, place.phase)'
        <3>1. \A phase : Finds(m, phase, v)' = Finds(m, phase, v)
            BY FindsStays
        <3>2. ASSUME NEW f \in Candidates, NEW phase, Result(handles[f], phase, m, v)
              PROVE  Result(handles[f], phase, m, v)'
            <4>1. f # g /\ f # h /\ f \in Handle
                BY <1>1, <1>4, <3>2 DEF Searching
            <4>2. handles'[f] = handles[f]
                BY <1>4, <4>1
            <4>3. Finds(m, phase, v)' = Finds(m, phase, v)
                BY <3>1
            <4> QED
                BY ONLY <3>2, <4>2, <4>3 DEF Result, RankedAs
        <3>3. Result(handles[h], p.phase, m, v)'
            <4>1. Finds(m, p.phase, v)' = {[phase |-> p.phase, lib |-> r.module, type |-> r.type]}
                BY <3>1, <2>2, <2>6
            <4> QED
                BY ONLY <4>1, <1>4, <2>5 DEF Result, RankedAs
        <3>4. \A phase : phase \in 1 .. place.phase - 1 <=> phase \in 1 .. p.phase - 1 \/ phase = p.phase
            BY <1>2, <1>8
        <3>5. h \in Candidates' /\ Candidates \subseteq Candidates'
            BY <1>4
        <3>6. ASSUME NEW f \in Candidates'
              PROVE  \E phase \in 1 .. place.phase - 1 : Result(handles[f], phase, m, v)'
            BY <1>4, <2>1, <3>2, <3>3, <3>4, <3>6 DEF Results
        <3>7. ASSUME NEW phase \in 1 .. place.phase - 1
              PROVE  Finds(m, phase, v)' = {} \/ \E f \in Candidates' : Result(handles[f], phase, m, v)'
            BY <2>1, <3>1, <3>2, <3>3, <3>4, <3>5 DEF Results
        <3> QED
            BY <3>6, <3>7 DEF Results
    <2>8. call'.pc = "search" => Visited(m, place, v) /\ NoneBefore(place, NoLast, v)
        <3>1. ASSUME call'.pc = "search"
              PROVE  Visited(m, place, v) /\ NoneBefore(place, NoLast, v)
            <4>1. p.phase + 1 \in 1..3
                BY <1>2, <1>4, <3>1
            <4> QED
                BY <1>1, <4>1, FirstPlace, NoneBeforeFirst
        <3> QED
            BY <3>1
    <2> QED
        BY <1>4, <1>7, <1>9, <2>7, <2>8, ProgressStep
<1> QED
    BY <1>10, <1>11

\* A library that is tried is rejected or accepted.
LEMMA TryLibraryProgress == ASSUME IInv, Progress, TryLibrary PROVE Progress'
<1>1. /\ call.pc = "search" /\ inst' = inst /\ faults' \in 0..MaxFaults
      /\ SelectDLLVersion(call.place, call.last).lib \in Lib
      /\ \/ \E fault, u : Rejects(fault, u)
         \/ \E fault, media, kept, g, v : Accepts(fault, media, kept, g, v)
    BY TryLibraryCases
<1>2. CASE \E fault, u : Rejects(fault, u)
    <2>1. PICK fault, u : Rejects(fault, u)
        BY <1>2
    <2> QED
        BY <1>1, <2>1, RejectedProgress
<1>3. CASE \E fault, media, kept, g, v : Accepts(fault, media, kept, g, v)
    <2>1. PICK fault, media, kept, g, v : Accepts(fault, media, kept, g, v)
        BY <1>3
    <2> QED
        BY <1>1, <2>1, AcceptedProgress
<1> QED
    BY <1>1, <1>2, <1>3

-----------------------------------------------------------------------------
(* The choice                                                              *)

\* The one handle that becomes the application's is one of the best.
LEMMA ChooseChosen ==
    ASSUME IInv, Choose
    PROVE  /\ \E h \in Best : h \in Candidates /\ Chosen = {h}
           /\ call'.pc \in {"idle", "join"}
<1> DEFINE others(h) == {g \in Handle \ {h} : handles[g].owner \in {"candidate", "call"}}
           left(h, o) == [s \in {x \in DOMAIN rt : \A g \in o \cup {h} : handles[g].session # x} |-> rt[s]]
           new(h, o) == FreeSession([rt |-> left(h, o)])
           ends(h, fault) == IF fault = "REINIT" THEN "ERROR"
                             ELSE IF Runtime[handles[h].module].partial THEN "PARTIAL_ACCELERATION" ELSE "NONE"
           session(h, fault, o) == IF ends(h, fault) = "ERROR" THEN None ELSE new(h, o)
<1>1. PICK h \in Best, fault \in {"none", "REINIT"} :
        \E o \in {others(h)} :
          /\ Fault(fault) /\ Counts(fault)
          /\ handles' = [g \in Handle |->
                           IF g \in o THEN Free
                           ELSE IF g = h THEN [handles[g] EXCEPT !.owner = "app", !.status = ends(h, fault),
                                                   !.session = IF ends(h, fault) = "ERROR" THEN None ELSE new(h, o)]
                           ELSE handles[g]]
          /\ refs' = [l \in Lib |-> refs[l] - Cardinality({g \in o : handles[g].module = l})]
          /\ rt' = IF ends(h, fault) = "ERROR" THEN left(h, o) ELSE With(left(h, o), new(h, o), handles[h].module)
          /\ call' = IF call.clones # None /\ ends(h, fault) = "NONE"
                     THEN [Idle EXCEPT !.pc = "join", !.current = h, !.clones = call.clones] ELSE Idle
    BY DEF Choose
<1>2. PICK o \in {others(h)} :
          /\ Fault(fault) /\ Counts(fault)
          /\ handles' = [g \in Handle |->
                           IF g \in o THEN Free
                           ELSE IF g = h THEN [handles[g] EXCEPT !.owner = "app", !.status = ends(h, fault),
                                                   !.session = IF ends(h, fault) = "ERROR" THEN None ELSE new(h, o)]
                           ELSE handles[g]]
          /\ refs' = [l \in Lib |-> refs[l] - Cardinality({g \in o : handles[g].module = l})]
          /\ rt' = IF ends(h, fault) = "ERROR" THEN left(h, o) ELSE With(left(h, o), new(h, o), handles[h].module)
          /\ call' = IF call.clones # None /\ ends(h, fault) = "NONE"
                     THEN [Idle EXCEPT !.pc = "join", !.current = h, !.clones = call.clones] ELSE Idle
    BY <1>1
<1>3. /\ handles' = [g \in Handle |->
                       IF g \in others(h) THEN Free
                       ELSE IF g = h THEN [handles[g] EXCEPT !.owner = "app", !.status = ends(h, fault),
                                               !.session = session(h, fault, others(h))]
                       ELSE handles[g]]
      /\ call'.pc \in {"idle", "join"}
    <2>1. o = others(h)
        OBVIOUS
    <2>2. handles' = [g \in Handle |->
                       IF g \in o THEN Free
                       ELSE IF g = h THEN [handles[g] EXCEPT !.owner = "app", !.status = ends(h, fault),
                                               !.session = session(h, fault, o)]
                       ELSE handles[g]]
        BY <1>2
    <2>3. call' = Idle \/ call' = [Idle EXCEPT !.pc = "join", !.current = h, !.clones = call.clones]
        BY <1>2
    <2>4. call'.pc \in {"idle", "join"}
        <3>1. CASE call' = Idle
            BY <3>1 DEF Idle
        <3>2. CASE call' = [Idle EXCEPT !.pc = "join", !.current = h, !.clones = call.clones]
            <4>1. call' = [pc |-> "join", method |-> "AUTO", place |-> Place(1, 1, 1), last |-> NoLast,
                           current |-> h, candidates |-> <<>>, clones |-> call.clones, faulted |-> FALSE]
                BY <3>2 DEF Idle
            <4> QED
                BY <4>1
        <3> QED
            BY <2>3, <3>1, <3>2
    <2> HIDE DEF ends, session, others
    <2> QED
        BY ONLY <2>1, <2>2, <2>4
<1>4. call.pc = "choose" /\ call.candidates # <<>>
    BY DEF Choose
<1>5. Searching /\ CallOK /\ WorldOK(World) /\ World.h = handles
    BY <1>4 DEF IInv, World
<1>6. call.candidates \in Seq(Handle) /\ handles \in [Handle -> Object]
    BY <1>5 DEF CallOK, CallType, WorldOK, Typed
<1>7. h \in Candidates
    <2>1. 1 \in DOMAIN call.candidates
        BY <1>4, <1>6
    <2> QED
        BY <2>1 DEF Best, Candidates
<1>8. Candidates \subseteq Handle
    BY <1>6 DEF Candidates
<1>9. h \in Handle /\ handles[h].owner = "candidate"
    BY <1>5, <1>7, <1>8 DEF Searching
<1> HIDE DEF ends, session
<1>10. handles'[h].owner = "app"
    <2>1. h \notin others(h) /\ handles[h] \in Object
        BY <1>6, <1>9
    <2> HIDE DEF others
    <2>2. handles'[h] = [handles[h] EXCEPT !.owner = "app", !.status = ends(h, fault),
                                           !.session = session(h, fault, others(h))]
        BY <1>3, <1>9, <2>1
    <2> QED
        BY <2>1, <2>2 DEF Object
<1>11. ASSUME NEW g \in Handle, g # h
       PROVE  ~(handles[g].owner = "candidate" /\ handles'[g].owner = "app")
    <2>1. CASE g \in others(h)
        <3>1. handles'[g] = Free
            BY <1>3, <2>1
        <3> QED
            BY <3>1, FreeObject
    <2>2. CASE g \notin others(h)
        BY <1>11, <2>2
    <2> QED
        BY <2>1, <2>2
<1>12. Chosen = {h}
    BY <1>9, <1>10, <1>11 DEF Chosen
<1> QED
    BY <1>3, <1>7, <1>12

\* With no candidate nothing is returned.
LEMMA NothingChosen ==
    ASSUME IInv, Progress, NothingFound
    PROVE  Candidates = {} /\ Chosen = {}
<1>1. call.pc = "choose" /\ call.candidates = <<>> /\ Becomes(Delete(World, call.current))
    BY DEF NothingFound
<1>2. /\ call.current \in Handle /\ handles \in [Handle -> Object] /\ handles[call.current].owner = "call"
      /\ WorldOK(World) /\ World.h = handles
    BY <1>1, SearchedNow
<1>3. ~Refuses(World, call.current)
    BY <1>2, NotRefused
<1>4. handles' = [handles EXCEPT ![call.current] = Free]
    BY <1>1, <1>2, <1>3, DeleteOK DEF Becomes
<1>5. \A g \in Handle : ~(handles[g].owner = "candidate" /\ handles'[g].owner = "app")
    BY <1>2, <1>4
<1> QED
    BY <1>1, <1>5 DEF Candidates, Chosen

\* No candidate outranks one of the best.
LEMMA BestIsNotOutranked ==
    ASSUME NEW h \in Best, NEW g \in Candidates, h \in Candidates, call.candidates \in Seq(Handle),
           NEW v \in Nat, NEW p, NEW q, RankedAs(handles[h], p, v), RankedAs(handles[g], q, v),
           handles[h].version \in Nat, handles[g].version \in Nat
    PROVE  ~Outranks(Asked(handles[g], q), Asked(handles[h], p), v)
<1> SUFFICES ASSUME Outranks(Asked(handles[g], q), Asked(handles[h], p), v)
             PROVE  FALSE
    OBVIOUS
<1>1. HandleSort(handles[g], handles[h]) = -1 /\ HandleSort(handles[h], handles[g]) = 1
    BY OutranksIsFirst
<1>2. CASE \A f \in Candidates : HandleSort(handles[call.candidates[1]], handles[f]) = 0
    <2>1. h = call.candidates[1]
        BY <1>2 DEF Best
    <2> QED
        BY <1>1, <1>2, <2>1
<1>3. CASE ~ \A f \in Candidates : HandleSort(handles[call.candidates[1]], handles[f]) = 0
    <2>1. HandleSort(handles[h], handles[g]) <= 0
        BY <1>3 DEF Best
    <2> QED
        BY <1>1, <2>1
<1> QED
    BY <1>2, <1>3

LEMMA ChoiceIsBest ==
    ASSUME IInv, Progress, Next, call.pc = "choose", ~call.faulted,
           NEW v, v = handles[call.current].req,
           NEW found, found = UNION {Finds(call.method, phase, v) : phase \in 1..3}
    PROVE  /\ (found = {}) = (Chosen = {})
           /\ \A h \in Chosen : \E f \in found : /\ f.lib = handles[h].module /\ f.type = handles[h].type
                                                 /\ \A g \in found : ~Outranks(g, f, v)
<1> DEFINE m == call.method
<1>1. /\ Searched(m, v, call.place, call.last) /\ call.place.phase = 4
      /\ call \in CallType /\ Candidates \subseteq Handle /\ handles \in [Handle -> Object] /\ v \in Nat
    BY SearchedNow
<1>2. Results(m, v, 4)
    BY <1>1 DEF Searched
<1>3. \A phase : phase \in 1..3 <=> phase \in 1 .. 4 - 1
    OBVIOUS
<1>4. /\ \A h \in Candidates : \E phase \in 1..3 : Result(handles[h], phase, m, v)
      /\ \A phase \in 1..3 : Finds(m, phase, v) = {} \/ \E h \in Candidates : Result(handles[h], phase, m, v)
    BY <1>2, <1>3 DEF Results
<1>5. ASSUME NEW h \in Candidates
      PROVE  \E phase \in 1..3 : Result(handles[h], phase, m, v) /\ Asked(handles[h], phase) \in found
    <2>1. PICK phase \in 1..3 : Result(handles[h], phase, m, v)
        BY <1>4
    <2>2. Asked(handles[h], phase) \in Finds(m, phase, v)
        BY <2>1 DEF Result, Asked
    <2> QED
        BY <2>1, <2>2
<1>6. ASSUME NEW f \in found
      PROVE  \E h \in Candidates, phase \in 1..3 : Result(handles[h], phase, m, v) /\ f = Asked(handles[h], phase)
    <2>1. PICK phase \in 1..3 : f \in Finds(m, phase, v)
        BY <1>6
    <2>2. PICK h \in Candidates : Result(handles[h], phase, m, v)
        BY <1>4, <2>1
    <2>3. f = Asked(handles[h], phase)
        BY <2>1, <2>2 DEF Result, Asked
    <2> QED
        BY <2>2, <2>3
<1>7. call.candidates \in Seq(Handle)
    BY <1>1 DEF CallType
<1>8. \A h \in Candidates : handles[h].version \in Nat
    <2>1. \A h \in Candidates : handles[h].version \in Version
        BY <1>1 DEF Object
    <2> QED
        BY <2>1, VersionsOK
<1>9. CASE Choose
    <2>1. PICK h \in Best : h \in Candidates /\ Chosen = {h}
        BY <1>9, ChooseChosen
    <2>2. PICK p \in 1..3 : Result(handles[h], p, m, v) /\ Asked(handles[h], p) \in found
        BY <1>5, <2>1
    <2>3. ASSUME NEW g \in found
          PROVE  ~Outranks(g, Asked(handles[h], p), v)
        <3>1. PICK k \in Candidates, q \in 1..3 : Result(handles[k], q, m, v) /\ g = Asked(handles[k], q)
            BY <1>6
        <3>2. RankedAs(handles[h], p, v) /\ RankedAs(handles[k], q, v)
            BY <2>2, <3>1 DEF Result
        <3>3. ~Outranks(Asked(handles[k], q), Asked(handles[h], p), v)
            BY <1>1, <1>7, <1>8, <2>1, <3>2, BestIsNotOutranked
        <3> QED
            BY <3>1, <3>3
    <2>4. Asked(handles[h], p).lib = handles[h].module /\ Asked(handles[h], p).type = handles[h].type
        BY DEF Asked
    <2>5. found # {} /\ Chosen # {}
        BY <2>1, <2>2
    <2>6. (found = {}) = (Chosen = {})
        BY ONLY <2>5
    <2> QED
        BY <2>1, <2>2, <2>3, <2>4, <2>6
<1>10. CASE NothingFound
    <2>1. Candidates = {} /\ Chosen = {}
        BY <1>10, NothingChosen
    <2>2. found = {}
        BY <1>6, <2>1
    <2>3. (found = {}) = (Chosen = {})
        BY ONLY <2>1, <2>2
    <2> QED
        BY <2>1, <2>3
<1>11. Choose \/ NothingFound
    BY DEF Next, Continues, TryLibrary, NextPlace, CloneJoin, MFXInitEx, MFXInitEx2, MFXClose, MFXJoinSession,
           MFXDisjoinSession, CloneInit, Clone2
<1> QED
    BY <1>9, <1>10, <1>11

LEMMA InitProgress == ASSUME Init PROVE Progress
BY DEF Init, Idle, Progress

LEMMA StutterProgress == ASSUME Progress, UNCHANGED vars PROVE Progress'
<1>1. UNCHANGED <<inst, handles, call>>
    BY DEF vars
<1>2. ASSUME NEW m, NEW v, NEW p, NEW last, Searched(m, v, p, last)
      PROVE  Searched(m, v, p, last)'
    <2>1. Candidates' = Candidates
        BY <1>1 DEF Candidates
    <2>2. Results(m, v, p.phase)'
        BY <1>1, <1>2, <2>1, ResultsStay DEF Searched
    <2> QED
        BY <1>1, <1>2, <2>2, VisitedStays, NoneBeforeStays DEF Searched, Plain
<1> QED
    BY <1>1, <1>2 DEF Progress

LEMMA NextProgress == ASSUME IInv, Progress, Next PROVE Progress'
<1>1. CASE TryLibrary
    BY <1>1, TryLibraryProgress
<1>2. CASE NextPlace
    BY <1>2, NextPlaceProgress
<1>3. CASE MFXInitEx
    <2>1. PICK m \in Methods, v \in Versions : Begin(m, v, None)
        BY <1>3 DEF MFXInitEx
    <2>2. m \in DOMAIN implTypesRange /\ v \in Req
        BY MethodsAssumption DEF Req
    <2> QED
        BY <1>3, <2>1, <2>2, BeginProgress DEF MFXInitEx
<1>4. CASE CloneInit
    <2>1. PICK h \in App : Major(handles[h].version) = 1 /\ Begin(handles[h].impl, handles[h].version, h)
        BY <1>4 DEF CloneInit
    <2>2. h \in Handle /\ handles[h].impl \in DOMAIN implTypesRange /\ handles[h].version \in Req
        BY <1>4, <2>1, CloneAsks
    <2> QED
        BY <1>4, <2>1, <2>2, BeginProgress DEF CloneInit
<1>5. CASE NothingFound \/ Choose \/ CloneJoin
    <2>1. call'.pc \in {"idle", "join"}
        BY <1>5, ChooseChosen DEF NothingFound, CloneJoin, Idle
    <2> QED
        BY <2>1, RestingProgress
<1>6. CASE MFXInitEx2 \/ MFXClose \/ MFXJoinSession \/ MFXDisjoinSession \/ Clone2
    <2>1. call'.pc = "idle"
        BY <1>6 DEF MFXInitEx2, MFXClose, MFXJoinSession, MFXDisjoinSession, Clone2
    <2> QED
        BY <2>1, RestingProgress
<1> QED
    BY <1>1, <1>2, <1>3, <1>4, <1>5, <1>6 DEF Next, Continues

\* Unless something failed on the way, MFXInitEx of Windows returns a library that
\* none of those its searches should find outranks, and fails only if there is none: no
\* place is left out, visited in the wrong turn, or spoilt by the one before.
THEOREM FindsTheBest == Spec => FindsBest
<1>1. ASSUME IInv, Progress, [Next]_vars
      PROVE  IInv' /\ Progress'
    <2>1. CASE Next
        BY <1>1, <2>1, NextOK, NextProgress
    <2>2. CASE UNCHANGED vars
        BY <1>1, <2>2, NextOK, StutterProgress
    <2> QED
        BY <1>1, <2>1, <2>2
<1>2. ASSUME IInv, Progress, [Next]_vars
      PROVE  [ LET v == handles[call.current].req
                   found == UNION {Finds(call.method, phase, v) : phase \in 1..3}
               IN  call.pc = "choose" /\ ~call.faulted =>
                     /\ (found = {}) = (Chosen = {})
                     /\ \A h \in Chosen : \E f \in found : /\ f.lib = handles[h].module /\ f.type = handles[h].type
                                                           /\ \A g \in found : ~Outranks(g, f, v) ]_vars
    BY <1>2, ChoiceIsBest
<1> QED
    BY <1>1, <1>2, InitOK, InitProgress, PTL DEF Spec, FindsBest

=============================================================================
