----------------------- MODULE SessionClasses_proofs -----------------------
(***************************************************************************)
(* SessionClasses: who owns the sessions and loaders that the C++ classes  *)
(* create, for every program: any number of objects and sessions, any      *)
(* implementations, any order of calls, and any of them failing.           *)
(***************************************************************************)
EXTENDS SessionClasses, Ordered_proofs

-----------------------------------------------------------------------------
(* The inductive invariant                                                 *)

Object == [class : Component \cup {"session"}, session : Nat, loader : Nat,
           on : BOOLEAN, twin : BOOLEAN]
Session == [open : BOOLEAN, impl : DOMAIN Implementation, loader : Nat, parent : Nat,
            lost : {"no", "refused", "replaced"}, components : SUBSET Component]
LoaderState == {"loaded", "failed", "unloaded"}

\* ClassesTypeOK, with the sequences that the variables are.
Types ==
    /\ build \in {"mfxload", "direct"} /\ windows \in BOOLEAN
    /\ early \in BOOLEAN /\ dangling \in BOOLEAN
    /\ stack \in Seq(Object) /\ Len(stack) <= MaxObjects
    /\ sessions \in Seq(Session) /\ loaders \in Seq(LoaderState)
    /\ raw \subseteq DOMAIN sessions
    /\ \A i \in DOMAIN stack : /\ stack[i].session \in 0..Len(sessions)
                               /\ stack[i].loader \in 0..Len(loaders)
    /\ \A h \in DOMAIN sessions : sessions[h].loader \in 0..Len(loaders)

\* The session of a session object is open, and only this object's; a clone that
\* the program holds is open.
Owned ==
    /\ \A h \in raw : sessions[h].open
    /\ \A i \in DOMAIN stack : IsSession(i) /\ stack[i].session # 0 =>
          /\ sessions[stack[i].session].open /\ sessions[stack[i].session].lost = "no"
          /\ stack[i].session \notin raw
    /\ \A i, j \in DOMAIN stack :
          /\ IsSession(i) /\ IsSession(j)
          /\ stack[i].session = stack[j].session /\ stack[i].session # 0
          => i = j

\* An open session is that of an object, or of the program, or is known as lost.
Accounted ==
    \A h \in DOMAIN sessions :
        /\ sessions[h].open =>
              \/ \E i \in DOMAIN stack : IsSession(i) /\ stack[i].session = h
              \/ h \in raw \/ sessions[h].lost # "no"
        /\ build = "mfxload" => sessions[h].lost # "replaced"

\* A component object is made after the session object whose handle it has, so
\* that it is destroyed before it.
MadeAfter ==
    \A i, j \in DOMAIN stack :
        /\ IsSession(i) /\ IsComponent(j)
        /\ stack[i].session = stack[j].session /\ stack[i].session # 0
        => i < j

\* A session that goes before its component objects was closed by the program.
FreedEarly ==
    \A j \in DOMAIN stack :
        IsComponent(j) /\ stack[j].session # 0 /\ ~sessions[stack[j].session].open => early

\* Two objects of a class with the same handle know of each other; a component
\* that is on has a session.
Twins ==
    /\ \A i, j \in DOMAIN stack :
          /\ IsComponent(i) /\ i # j
          /\ stack[i].class = stack[j].class /\ stack[i].session = stack[j].session
          => stack[i].twin
    /\ \A i \in DOMAIN stack : IsComponent(i) /\ stack[i].on => stack[i].session # 0

\* Loaders exist in the build with loaders only, each made for one object.  A
\* session object with a session has the loader it was made with.
LoadersOwned ==
    /\ build = "direct" => loaders = <<>>
    /\ \A i \in DOMAIN stack : IsComponent(i) => stack[i].loader = 0
    /\ \A i, j \in DOMAIN stack :
          stack[i].loader = stack[j].loader /\ stack[i].loader # 0 => i = j
    /\ \A l \in DOMAIN loaders : loaders[l] = "loaded" =>
          \E i \in DOMAIN stack : stack[i].loader = l /\ stack[i].session # 0

ClassesInv ==
    /\ Types /\ Owned /\ Accounted /\ MadeAfter /\ FreedEarly /\ Twins /\ LoadersOwned
    /\ DanglesOnlyIfClosedEarly /\ ComponentsKept

-----------------------------------------------------------------------------
(* The objects and the handles                                             *)

LEMMA ClassesDiffer == "session" \notin Component
BY ClassesAssumption

LEMMA Versions ==
    ASSUME NEW k \in DOMAIN Implementation
    PROVE  Implementation[k].api \in Nat /\ ~(Implementation[k].api < 10)
<1>1. Implementation[k] \in Runtimes
  BY ClassesAssumption
<1>2. Implementation[k].api \in Nat \ (0..9)
  BY <1>1 DEF Runtimes
<1> QED
  BY <1>2

\* A sequence after one of its elements is set.
LEMMA ElementSet ==
    ASSUME NEW T, NEW s \in Seq(T), NEW i \in DOMAIN s, NEW e \in T,
           NEW r, r = [s EXCEPT ![i] = e]
    PROVE  /\ r \in Seq(T) /\ DOMAIN r = DOMAIN s /\ Len(r) = Len(s)
           /\ r[i] = e /\ \A j \in DOMAIN s \ {i} : r[j] = s[j]
BY ExceptSeq

\* A sequence that one element is appended to.
LEMMA Appended ==
    ASSUME NEW T, NEW s \in Seq(T), NEW e \in T, NEW r, r = Append(s, e)
    PROVE  /\ r \in Seq(T) /\ Len(r) = Len(s) + 1
           /\ Len(s) \in Nat /\ DOMAIN s = 1..Len(s) /\ DOMAIN r = 1..(Len(s) + 1)
           /\ r[Len(s) + 1] = e /\ \A j \in DOMAIN s : r[j] = s[j]
OBVIOUS

\* What the types say of an object and of a session.
LEMMA ObjectTypes ==
    ASSUME Types
    PROVE  /\ Len(stack) \in Nat /\ DOMAIN stack = 1..Len(stack)
           /\ Len(sessions) \in Nat /\ DOMAIN sessions = 1..Len(sessions)
           /\ Len(loaders) \in Nat /\ DOMAIN loaders = 1..Len(loaders)
           /\ \A i \in DOMAIN stack :
                 /\ stack[i] \in Object
                 /\ stack[i].session \in Nat /\ stack[i].loader \in Nat
                 /\ stack[i].on \in BOOLEAN /\ stack[i].twin \in BOOLEAN
                 /\ (IsSession(i) \/ IsComponent(i)) /\ ~(IsSession(i) /\ IsComponent(i))
                 /\ stack[i].session # 0 => stack[i].session \in DOMAIN sessions
                 /\ stack[i].loader # 0 => stack[i].loader \in DOMAIN loaders
           /\ \A h \in DOMAIN sessions :
                 /\ sessions[h] \in Session
                 /\ sessions[h].open \in BOOLEAN /\ sessions[h].impl \in DOMAIN Implementation
<1>1. /\ Len(stack) \in Nat /\ DOMAIN stack = 1..Len(stack)
      /\ Len(sessions) \in Nat /\ DOMAIN sessions = 1..Len(sessions)
      /\ Len(loaders) \in Nat /\ DOMAIN loaders = 1..Len(loaders)
  BY DEF Types
<1>2. \A i \in DOMAIN stack : stack[i] \in Object
  BY DEF Types
<1>3. \A h \in DOMAIN sessions : sessions[h] \in Session
  BY DEF Types
<1>4. ASSUME NEW i \in DOMAIN stack
      PROVE  /\ stack[i].session \in Nat /\ stack[i].loader \in Nat
             /\ stack[i].on \in BOOLEAN /\ stack[i].twin \in BOOLEAN
             /\ (IsSession(i) \/ IsComponent(i)) /\ ~(IsSession(i) /\ IsComponent(i))
             /\ stack[i].session # 0 => stack[i].session \in DOMAIN sessions
             /\ stack[i].loader # 0 => stack[i].loader \in DOMAIN loaders
  <2>1. /\ stack[i].session \in Nat /\ stack[i].loader \in Nat
        /\ stack[i].on \in BOOLEAN /\ stack[i].twin \in BOOLEAN
        /\ stack[i].class \in Component \cup {"session"}
    BY <1>2 DEF Object
  <2>2. stack[i].session \in 0..Len(sessions) /\ stack[i].loader \in 0..Len(loaders)
    BY DEF Types
  <2>3. /\ stack[i].session # 0 => stack[i].session \in DOMAIN sessions
        /\ stack[i].loader # 0 => stack[i].loader \in DOMAIN loaders
    BY <1>1, <2>2
  <2>4. (IsSession(i) \/ IsComponent(i)) /\ ~(IsSession(i) /\ IsComponent(i))
    BY <2>1, ClassesDiffer DEF IsSession, IsComponent
  <2> QED BY <2>1, <2>3, <2>4
<1>5. \A h \in DOMAIN sessions : /\ sessions[h].open \in BOOLEAN
                                 /\ sessions[h].impl \in DOMAIN Implementation
  BY <1>3 DEF Session
<1> QED
  BY <1>1, <1>2, <1>3, <1>4, <1>5

\* MFXClose forgets an open session, or reports it as refused; it touches no other.
LEMMA CloseFacts ==
    ASSUME Types, NEW h \in 0..Len(sessions), NEW S, S = MFXClose(h)
    PROVE  /\ S \in Seq(Session) /\ DOMAIN S = DOMAIN sessions /\ Len(S) = Len(sessions)
           /\ \A g \in DOMAIN sessions \ {h} : S[g] = sessions[g]
           /\ \A g \in DOMAIN sessions :
                 /\ S[g].loader = sessions[g].loader
                 /\ S[g].open => sessions[g].open /\ S[g].components = sessions[g].components
                 /\ S[g].lost = "replaced" => sessions[g].lost = "replaced"
                 /\ sessions[g].lost # "no" => S[g].lost # "no"
           /\ h # 0 /\ S[h].open => S[h].lost # "no"
<1>1. CASE h = 0
  <2>1. S = sessions
    BY <1>1 DEF MFXClose, PassThrough
  <2> QED BY <1>1, <2>1, ObjectTypes DEF Types
<1>2. CASE h # 0 /\ ~sessions[h].open
  <2>1. S = sessions
    BY <1>2 DEF MFXClose, PassThrough
  <2> QED BY <1>2, <2>1, ObjectTypes DEF Types
<1>3. CASE h # 0 /\ sessions[h].open
  <2> DEFINE rr == [sessions[h] EXCEPT !.lost = "refused"]
             rc == [sessions[h] EXCEPT !.open = FALSE, !.components = {}]
             refused == [sessions EXCEPT ![h] = rr]
             closed == [sessions EXCEPT ![h] = rc]
  <2>1. h \in DOMAIN sessions
    BY <1>3, ObjectTypes
  <2>2. PassThrough(h, 10) = "runtime"
    BY <1>3, <2>1, ObjectTypes, Versions DEF PassThrough
  <2>3. S = refused \/ S = closed
    BY <2>1, <2>2 DEF MFXClose
  <2>4. sessions \in Seq(Session) /\ sessions[h] \in Session
    BY <2>1 DEF Types
  <2>5. /\ rr \in Session /\ rr.open = sessions[h].open
        /\ rr.components = sessions[h].components
        /\ rr.lost = "refused" /\ rr.loader = sessions[h].loader
    BY <2>4 DEF Session
  <2>6. /\ rc \in Session /\ rc.open = FALSE /\ rc.lost = sessions[h].lost
        /\ rc.loader = sessions[h].loader
    BY <2>4 DEF Session
  <2> HIDE DEF rr, rc
  <2>7. /\ refused \in Seq(Session) /\ DOMAIN refused = DOMAIN sessions
        /\ Len(refused) = Len(sessions)
        /\ refused[h] = rr /\ \A g \in DOMAIN sessions \ {h} : refused[g] = sessions[g]
    BY <2>1, <2>4, <2>5, ElementSet
  <2>8. /\ closed \in Seq(Session) /\ DOMAIN closed = DOMAIN sessions
        /\ Len(closed) = Len(sessions)
        /\ closed[h] = rc /\ \A g \in DOMAIN sessions \ {h} : closed[g] = sessions[g]
    BY <2>1, <2>4, <2>6, ElementSet
  <2> HIDE DEF refused, closed
  <2> QED BY <1>3, <2>1, <2>3, <2>5, <2>6, <2>7, <2>8
<1> QED
  BY <1>1, <1>2, <1>3, ObjectTypes

-----------------------------------------------------------------------------
(* A session object lets go of its session                                 *)

\* T is the stack without object i, or with i changed.
Keeps(T, i) ==
    /\ T \in Seq(Object) /\ Len(T) <= MaxObjects
    /\ DOMAIN T \subseteq DOMAIN stack /\ DOMAIN stack \ {i} \subseteq DOMAIN T
    /\ \A j \in DOMAIN T \ {i} : T[j] = stack[j]

\* In SessionClose the handle is always that of a session that is open.
LEMMA OwnIsOpen ==
    ASSUME ClassesInv, NEW i \in DOMAIN stack, IsSession(i)
    PROVE  PassThrough(stack[i].session, 10) # "freed"
BY DEF ClassesInv, Owned, PassThrough

\* Close and the destructor of a session object: the session is closed or known as
\* lost, and its loader goes with it.
LEMMA LetsGo ==
    ASSUME ClassesInv, NEW i \in DOMAIN stack, IsSession(i), Keeps(stack', i),
           i \in DOMAIN stack' =>
              /\ stack'[i].class = "session" /\ stack'[i].session = 0
              /\ stack'[i].loader = IF stack[i].session # 0 THEN 0 ELSE stack[i].loader,
           sessions' = MFXClose(stack[i].session),
           loaders' = IF build = "mfxload" /\ stack[i].session # 0
                      THEN Unload(stack[i].loader) ELSE loaders,
           early' \in BOOLEAN, early => early',
           \A j \in DOMAIN stack :
               IsComponent(j) /\ stack[j].session = stack[i].session /\ stack[i].session # 0
               => early',
           UNCHANGED <<build, windows, raw, dangling>>
    PROVE  ClassesInv'
<1> DEFINE h == stack[i].session
           l == stack[i].loader
<1>0. Types
  BY DEF ClassesInv
<1>1. h \in 0..Len(sessions) /\ l \in 0..Len(loaders) /\ h \in Nat /\ l \in Nat
  BY <1>0 DEF Types
<1>2. /\ sessions' \in Seq(Session) /\ DOMAIN sessions' = DOMAIN sessions
      /\ Len(sessions') = Len(sessions)
      /\ \A g \in DOMAIN sessions \ {h} : sessions'[g] = sessions[g]
      /\ \A g \in DOMAIN sessions :
            /\ sessions'[g].loader = sessions[g].loader
            /\ sessions'[g].open => /\ sessions[g].open
                                    /\ sessions'[g].components = sessions[g].components
            /\ sessions'[g].lost = "replaced" => sessions[g].lost = "replaced"
            /\ sessions[g].lost # "no" => sessions'[g].lost # "no"
      /\ h # 0 /\ sessions'[h].open => sessions'[h].lost # "no"
  BY <1>0, <1>1, CloseFacts
<1>3. /\ loaders' \in Seq(LoaderState) /\ Len(loaders') = Len(loaders)
      /\ DOMAIN loaders' = DOMAIN loaders
      /\ \A m \in DOMAIN loaders : loaders'[m] = "loaded" =>
            loaders[m] = "loaded" /\ ~(build = "mfxload" /\ h # 0 /\ m = l)
  <2>1. l # 0 => l \in DOMAIN loaders
    BY <1>0, ObjectTypes
  <2>2. "unloaded" \in LoaderState /\ loaders \in Seq(LoaderState)
    BY <1>0 DEF LoaderState, Types
  <2>3. CASE build = "mfxload" /\ h # 0 /\ l # 0
    <3>1. loaders' = [loaders EXCEPT ![l] = "unloaded"]
      BY <2>3 DEF Unload
    <3> QED BY <2>1, <2>2, <2>3, <3>1, ElementSet
  <2>4. CASE ~(build = "mfxload" /\ h # 0 /\ l # 0)
    <3>1. loaders' = loaders
      BY <2>4 DEF Unload
    <3>2. 0 \notin DOMAIN loaders
      BY <1>0, ObjectTypes
    <3> QED BY <2>2, <2>4, <3>1, <3>2
  <2> QED BY <2>3, <2>4
<1>4. \A j \in DOMAIN stack' : /\ j \in DOMAIN stack
                               /\ j # i => stack'[j] = stack[j]
  BY DEF Keeps
<1>5. \A j \in DOMAIN stack' : /\ IsComponent(j)' => j # i /\ IsComponent(j)
                               /\ IsSession(j)' => IsSession(j)
  BY <1>4, ClassesDiffer DEF IsComponent, IsSession
<1>6. \A j \in DOMAIN stack : j # i => j \in DOMAIN stack' /\ stack'[j] = stack[j]
  BY DEF Keeps
<1>7. Types'
  <2>1. \A j \in DOMAIN stack' : /\ stack'[j].session \in 0..Len(sessions)
                                 /\ stack'[j].loader \in 0..Len(loaders)
    BY <1>0, <1>1, <1>4 DEF Types
  <2>2. /\ stack' \in Seq(Object) /\ Len(stack') <= MaxObjects
    BY DEF Keeps
  <2> QED BY <1>0, <1>2, <1>3, <2>1, <2>2 DEF Types
<1>8. Owned'
  <2>1. ASSUME NEW j \in DOMAIN stack', IsSession(j)', stack'[j].session # 0
        PROVE  /\ j # i /\ IsSession(j) /\ stack'[j] = stack[j]
               /\ stack[j].session # h /\ stack[j].session \in DOMAIN sessions
    <3>1. j # i /\ j \in DOMAIN stack /\ stack'[j] = stack[j] /\ IsSession(j)
      BY <1>4, <1>5, <2>1 DEF IsSession
    <3>2. stack[j].session # h
      BY <2>1, <3>1 DEF ClassesInv, Owned
    <3> QED BY <1>0, <2>1, <3>1, <3>2, ObjectTypes
  <2>2. ASSUME NEW j \in DOMAIN stack', IsSession(j)', stack'[j].session # 0
        PROVE  /\ sessions'[stack'[j].session].open /\ sessions'[stack'[j].session].lost = "no"
               /\ stack'[j].session \notin raw'
    BY <1>2, <1>4, <2>1, <2>2 DEF ClassesInv, Owned
  <2>3. ASSUME NEW j \in DOMAIN stack', NEW k \in DOMAIN stack', IsSession(j)', IsSession(k)',
               stack'[j].session = stack'[k].session, stack'[j].session # 0
        PROVE  j = k
    BY <1>4, <2>1, <2>3 DEF ClassesInv, Owned
  <2>4. \A g \in raw : g # h /\ sessions'[g].open
    <3>1. h # 0 => h \notin raw
      BY DEF ClassesInv, Owned
    <3>2. 0 \notin raw /\ raw \subseteq DOMAIN sessions
      BY <1>0, ObjectTypes DEF Types
    <3> QED BY <1>2, <3>1, <3>2 DEF ClassesInv, Owned
  <2> QED BY <2>2, <2>3, <2>4 DEF Owned
<1>9. Accounted'
  <2> SUFFICES ASSUME NEW g \in DOMAIN sessions
               PROVE  /\ sessions'[g].open =>
                            \/ \E j \in DOMAIN stack' : IsSession(j)' /\ stack'[j].session = g
                            \/ g \in raw \/ sessions'[g].lost # "no"
                      /\ build = "mfxload" => sessions'[g].lost # "replaced"
    BY <1>2 DEF Accounted
  <2>1. build = "mfxload" => sessions'[g].lost # "replaced"
    BY <1>2 DEF ClassesInv, Accounted
  <2>2. ASSUME sessions'[g].open, g \notin raw, sessions'[g].lost = "no"
        PROVE  \E j \in DOMAIN stack' : IsSession(j)' /\ stack'[j].session = g
    <3>1. g # h
      BY <1>0, <1>2, <2>2, ObjectTypes
    <3>2. PICK j \in DOMAIN stack : IsSession(j) /\ stack[j].session = g
      BY <1>2, <2>2 DEF ClassesInv, Accounted
    <3>3. j # i
      BY <3>1, <3>2
    <3> QED BY <1>6, <3>2, <3>3 DEF IsSession
  <2> QED BY <2>1, <2>2
<1>10. MadeAfter'
  <2> SUFFICES ASSUME NEW j \in DOMAIN stack', NEW k \in DOMAIN stack', IsSession(j)',
                      IsComponent(k)', stack'[j].session = stack'[k].session,
                      stack'[j].session # 0
               PROVE  j < k
    BY DEF MadeAfter
  <2>1. j # i
    BY DEF IsSession
  <2> QED BY <1>4, <1>5, <2>1 DEF ClassesInv, MadeAfter
<1>11. FreedEarly'
  <2> SUFFICES ASSUME NEW j \in DOMAIN stack', IsComponent(j)', stack'[j].session # 0,
                      ~sessions'[stack'[j].session].open
               PROVE  early'
    BY DEF FreedEarly
  <2>1. j # i /\ j \in DOMAIN stack /\ IsComponent(j) /\ stack'[j] = stack[j]
    BY <1>4, <1>5
  <2>2. CASE stack[j].session = h
    BY <2>1, <2>2
  <2>3. CASE stack[j].session # h
    <3>1. stack[j].session \in DOMAIN sessions
      BY <1>0, <2>1, ObjectTypes
    <3> QED BY <1>2, <2>1, <2>3, <3>1 DEF ClassesInv, FreedEarly
  <2> QED BY <2>2, <2>3
<1>12. Twins'
  <2>1. ASSUME NEW j \in DOMAIN stack', NEW k \in DOMAIN stack', IsComponent(j)', j # k,
               stack'[j].class = stack'[k].class, stack'[j].session = stack'[k].session
        PROVE  stack'[j].twin
    <3>1. IsComponent(k)'
      BY <2>1 DEF IsComponent
    <3> QED BY <1>4, <1>5, <2>1, <3>1 DEF ClassesInv, Twins
  <2>2. \A j \in DOMAIN stack' : IsComponent(j)' /\ stack'[j].on => stack'[j].session # 0
    BY <1>4, <1>5 DEF ClassesInv, Twins
  <2> QED BY <2>1, <2>2 DEF Twins
<1>13. LoadersOwned'
  <2>1. build = "direct" => loaders' = <<>>
    BY <1>3 DEF ClassesInv, LoadersOwned
  <2>2. \A j \in DOMAIN stack' : IsComponent(j)' => stack'[j].loader = 0
    BY <1>4, <1>5 DEF ClassesInv, LoadersOwned
  <2>3. \A j \in DOMAIN stack' : stack'[j].loader # 0 => stack'[j].loader = stack[j].loader
    BY <1>4
  <2>4. \A j, k \in DOMAIN stack' :
           stack'[j].loader = stack'[k].loader /\ stack'[j].loader # 0 => j = k
    BY <1>4, <2>3 DEF ClassesInv, LoadersOwned
  <2>5. ASSUME NEW m \in DOMAIN loaders', loaders'[m] = "loaded"
        PROVE  \E j \in DOMAIN stack' : stack'[j].loader = m /\ stack'[j].session # 0
    <3>1. m \in DOMAIN loaders /\ loaders[m] = "loaded"
      BY <1>3, <2>5
    <3>2. build = "mfxload"
      BY <1>0, <3>1 DEF ClassesInv, LoadersOwned, Types
    <3>3. PICK j \in DOMAIN stack : stack[j].loader = m /\ stack[j].session # 0
      BY <3>1 DEF ClassesInv, LoadersOwned
    <3>4. j # i
      BY <1>3, <2>5, <3>1, <3>2, <3>3
    <3> QED BY <1>6, <3>3, <3>4
  <2> QED BY <2>1, <2>2, <2>4, <2>5 DEF LoadersOwned
<1>14. DanglesOnlyIfClosedEarly'
  BY DEF ClassesInv, DanglesOnlyIfClosedEarly
<1>15. ComponentsKept'
  <2> SUFFICES ASSUME NEW j \in DOMAIN stack', IsComponent(j)', stack'[j].on, ~stack'[j].twin,
                      sessions'[stack'[j].session].open
               PROVE  stack'[j].class \in sessions'[stack'[j].session].components
    BY DEF ComponentsKept
  <2>1. j \in DOMAIN stack /\ IsComponent(j) /\ stack'[j] = stack[j]
    BY <1>4, <1>5
  <2>2. stack[j].session \in DOMAIN sessions
    BY <1>0, <2>1, ObjectTypes DEF ClassesInv, Twins
  <2> QED BY <1>2, <2>1, <2>2 DEF ClassesInv, ComponentsKept
<1> QED
  BY <1>7, <1>8, <1>9, <1>10, <1>11, <1>12, <1>13, <1>14, <1>15 DEF ClassesInv

-----------------------------------------------------------------------------
(* Closing a component                                                     *)

\* What a component object calls is freed only if the program closed it early.
LEMMA FreedIsEarly ==
    ASSUME ClassesInv, NEW i \in DOMAIN stack, NEW since,
           PassThrough(stack[i].session, since) = "freed"
    PROVE  early
<1>1. Types /\ Owned /\ FreedEarly
  BY DEF ClassesInv
<1>2. stack[i].session # 0 /\ ~sessions[stack[i].session].open
  BY DEF PassThrough
<1>3. IsSession(i) \/ IsComponent(i)
  BY <1>1, ObjectTypes
<1> QED
  BY <1>1, <1>2, <1>3 DEF Owned, FreedEarly

\* Close and the destructor of a component object: it takes its component off, and
\* no other object's but one that was told of the other.
LEMMA TakesOff ==
    ASSUME ClassesInv, NEW i \in DOMAIN stack, IsComponent(i), Keeps(stack', i),
           i \in DOMAIN stack' =>
              /\ stack'[i].class = stack[i].class /\ stack'[i].session = stack[i].session
              /\ stack'[i].loader = stack[i].loader /\ stack'[i].twin = stack[i].twin
              /\ ~stack'[i].on,
           ComponentClose(stack[i]),
           UNCHANGED <<build, windows, loaders, raw, early>>
    PROVE  ClassesInv'
<1> DEFINE h == stack[i].session
           c == stack[i].class
           p == PassThrough(h, Since(c))
           less == [sessions[h] EXCEPT !.components = @ \ {c}]
<1>0. Types
  BY DEF ClassesInv
<1>1. /\ sessions' = IF p = "runtime" THEN Closes(stack[i], c) ELSE sessions
      /\ dangling' = (dangling \/ p = "freed")
  BY DEF ComponentClose
<1>2. /\ sessions' \in Seq(Session) /\ DOMAIN sessions' = DOMAIN sessions
      /\ Len(sessions') = Len(sessions)
      /\ \A g \in DOMAIN sessions :
            /\ sessions'[g].loader = sessions[g].loader /\ sessions'[g].open = sessions[g].open
            /\ sessions'[g].lost = sessions[g].lost
            /\ g # h => sessions'[g] = sessions[g]
            /\ sessions[g].components \ {c} \subseteq sessions'[g].components
  <2>1. CASE p = "runtime"
    <3>1. h # 0
      BY <2>1 DEF PassThrough
    <3>2. h \in DOMAIN sessions /\ sessions[h] \in Session /\ sessions \in Seq(Session)
      BY <1>0, <3>1, ObjectTypes DEF Types
    <3>3. /\ less \in Session /\ less.loader = sessions[h].loader
          /\ less.open = sessions[h].open /\ less.lost = sessions[h].lost
          /\ less.components = sessions[h].components \ {c}
      BY <3>2 DEF Session
    <3>4. sessions' = [sessions EXCEPT ![h] = less]
      BY <1>1, <2>1, <3>2 DEF Closes
    <3> HIDE DEF less, h, c
    <3>5. /\ sessions' \in Seq(Session) /\ DOMAIN sessions' = DOMAIN sessions
          /\ Len(sessions') = Len(sessions)
          /\ sessions'[h] = less /\ \A g \in DOMAIN sessions \ {h} : sessions'[g] = sessions[g]
      BY <3>2, <3>3, <3>4, ElementSet
    <3> QED BY <3>3, <3>5
  <2>2. CASE p # "runtime"
    <3>1. sessions' = sessions
      BY <1>1, <2>2
    <3> HIDE DEF h, c
    <3> QED BY <1>0, <3>1 DEF Types
  <2> QED BY <2>1, <2>2
<1>3. p = "freed" => early
  BY FreedIsEarly
<1> HIDE DEF p
<1>4. \A j \in DOMAIN stack' :
         /\ j \in DOMAIN stack
         /\ stack'[j].class = stack[j].class /\ stack'[j].session = stack[j].session
         /\ stack'[j].loader = stack[j].loader /\ stack'[j].twin = stack[j].twin
         /\ stack'[j].on => stack[j].on /\ j # i
  BY DEF Keeps
<1>5. \A j \in DOMAIN stack' : /\ IsComponent(j)' <=> IsComponent(j)
                               /\ IsSession(j)' <=> IsSession(j)
  BY <1>4 DEF IsComponent, IsSession
<1>6. \A j \in DOMAIN stack : /\ IsSession(j) => j \in DOMAIN stack'
                              /\ IsSession(j) => j # i
  BY ClassesDiffer DEF Keeps, IsComponent, IsSession
<1>7. Types'
  <2>1. \A j \in DOMAIN stack' : /\ stack'[j].session \in 0..Len(sessions)
                                 /\ stack'[j].loader \in 0..Len(loaders)
    BY <1>0, <1>4 DEF Types
  <2>2. stack' \in Seq(Object) /\ Len(stack') <= MaxObjects
    BY DEF Keeps
  <2>3. dangling' \in BOOLEAN
    BY <1>1
  <2> QED BY <1>0, <1>2, <2>1, <2>2, <2>3 DEF Types
<1>8. Owned'
  <2>1. \A j \in DOMAIN stack' : IsSession(j) /\ stack[j].session # 0 =>
            stack[j].session \in DOMAIN sessions
    BY <1>0, <1>4, ObjectTypes
  <2>2. \A g \in raw : sessions'[g].open
    BY <1>0, <1>2 DEF ClassesInv, Owned, Types
  <2> QED BY <1>2, <1>4, <1>5, <2>1, <2>2 DEF ClassesInv, Owned
<1>9. Accounted'
  BY <1>2, <1>4, <1>5, <1>6 DEF ClassesInv, Accounted
<1>10. MadeAfter'
  BY <1>4, <1>5 DEF ClassesInv, MadeAfter
<1>11. FreedEarly'
  <2>1. \A j \in DOMAIN stack' : IsComponent(j) /\ stack[j].session # 0 =>
            stack[j].session \in DOMAIN sessions
    BY <1>0, <1>4, ObjectTypes
  <2> QED BY <1>2, <1>4, <1>5, <2>1 DEF ClassesInv, FreedEarly
<1>12. Twins'
  BY <1>4, <1>5 DEF ClassesInv, Twins
<1>13. LoadersOwned'
  <2>1. \A j \in DOMAIN stack : stack[j].loader # 0 => IsSession(j)
    BY <1>0, ObjectTypes DEF ClassesInv, LoadersOwned
  <2>2. ASSUME NEW m \in DOMAIN loaders, loaders[m] = "loaded"
        PROVE  \E j \in DOMAIN stack' : stack'[j].loader = m /\ stack'[j].session # 0
    <3>1. PICK j \in DOMAIN stack : stack[j].loader = m /\ stack[j].session # 0
      BY <2>2 DEF ClassesInv, LoadersOwned
    <3>2. m # 0
      BY <1>0, <2>2, ObjectTypes
    <3> QED BY <1>4, <1>6, <2>1, <3>1, <3>2
  <2>3. \A j, k \in DOMAIN stack' :
           stack'[j].loader = stack'[k].loader /\ stack'[j].loader # 0 => j = k
    BY <1>4 DEF ClassesInv, LoadersOwned
  <2>4. \A j \in DOMAIN stack' : IsComponent(j)' => stack'[j].loader = 0
    BY <1>4, <1>5 DEF ClassesInv, LoadersOwned
  <2> QED BY <2>2, <2>3, <2>4 DEF ClassesInv, LoadersOwned
<1>14. DanglesOnlyIfClosedEarly'
  BY <1>1, <1>3 DEF ClassesInv, DanglesOnlyIfClosedEarly
<1>15. ComponentsKept'
  <2> SUFFICES ASSUME NEW j \in DOMAIN stack', IsComponent(j)', stack'[j].on, ~stack'[j].twin,
                      sessions'[stack'[j].session].open
               PROVE  stack'[j].class \in sessions'[stack'[j].session].components
    BY DEF ComponentsKept
  <2>1. /\ j \in DOMAIN stack /\ IsComponent(j) /\ stack[j].on /\ ~stack[j].twin /\ j # i
        /\ stack'[j].class = stack[j].class /\ stack'[j].session = stack[j].session
    BY <1>4, <1>5
  <2>2. stack[j].session \in DOMAIN sessions
    BY <1>0, <2>1, ObjectTypes DEF ClassesInv, Twins
  <2>3. stack[j].class \in sessions[stack[j].session].components
    BY <1>2, <2>1, <2>2 DEF ClassesInv, ComponentsKept
  <2>4. stack[j].session # h \/ stack[j].class # c
    BY <2>1 DEF ClassesInv, Twins
  <2> QED BY <1>2, <2>1, <2>2, <2>3, <2>4
<1> QED
  BY <1>7, <1>8, <1>9, <1>10, <1>11, <1>12, <1>13, <1>14, <1>15 DEF ClassesInv

-----------------------------------------------------------------------------
(* Constructors                                                            *)

\* A new object holds nothing, and a component object of an open session is not
\* alone with its handle unseen.
LEMMA Grows ==
    ASSUME ClassesInv, NEW o \in Object, stack' \in Seq(Object),
           Len(stack') = Len(stack) + 1, Len(stack') <= MaxObjects,
           \A j \in DOMAIN stack :
              /\ stack'[j].class = stack[j].class /\ stack'[j].session = stack[j].session
              /\ stack'[j].loader = stack[j].loader /\ stack'[j].on = stack[j].on
              /\ stack[j].twin => stack'[j].twin,
           stack'[Len(stack) + 1] = o, o.loader = 0, ~o.on, o.session \in 0..Len(sessions),
           o.class = "session" => o.session = 0,
           o.session # 0 => sessions[o.session].open,
           \A j \in DOMAIN stack :
              stack[j].class = o.class /\ stack[j].session = o.session /\ o.class # "session"
              => stack'[j].twin /\ o.twin,
           UNCHANGED <<build, windows, sessions, loaders, raw, early, dangling>>
    PROVE  ClassesInv'
<1>a. Types /\ Len(stack) \in Nat
  BY ObjectTypes DEF ClassesInv
<1>b. PICK n \in Nat : n = Len(stack) + 1
  BY <1>a
<1>0. Types /\ n \in Nat /\ Len(stack) \in Nat /\ Len(stack) < n
  BY <1>a, <1>b
<1>1. /\ DOMAIN stack = 1..Len(stack) /\ DOMAIN stack' = 1..n
      /\ DOMAIN stack' = DOMAIN stack \cup {n} /\ n \notin DOMAIN stack
      /\ \A j \in DOMAIN stack : j < n
  BY <1>0, <1>b, ObjectTypes
<1>2. stack'[n] = o
  BY <1>b
<1>3. /\ \A j \in DOMAIN stack : /\ IsComponent(j)' <=> IsComponent(j)
                                 /\ IsSession(j)' <=> IsSession(j)
      /\ IsSession(n)' => stack'[n].session = 0
      /\ IsComponent(n)' => stack'[n].class # "session"
  <2>1. ASSUME NEW j \in DOMAIN stack
        PROVE  /\ IsComponent(j)' <=> IsComponent(j)
               /\ IsSession(j)' <=> IsSession(j)
    <3>1. j \in DOMAIN stack' /\ stack'[j].class = stack[j].class
      BY <1>1
    <3> QED BY <3>1 DEF IsComponent, IsSession
  <2>2. IsSession(n)' => stack'[n].session = 0
    BY <1>2 DEF IsSession
  <2>3. IsComponent(n)' => stack'[n].class # "session"
    BY <1>2, ClassesDiffer DEF IsComponent
  <2> QED BY <2>1, <2>2, <2>3
<1>4. Types'
  BY <1>0, <1>1, <1>2, SMTT(30) DEF Types
<1>5. Owned'
  <2>1. ASSUME NEW j \in DOMAIN stack', IsSession(j)', stack'[j].session # 0
        PROVE  j \in DOMAIN stack /\ IsSession(j) /\ stack'[j].session = stack[j].session
    <3>1. j # n
      BY <1>3, <2>1
    <3>2. j \in DOMAIN stack
      BY <1>1, <3>1
    <3> QED BY <1>3, <2>1, <3>2
  <2>2. ASSUME NEW j \in DOMAIN stack', IsSession(j)', stack'[j].session # 0
        PROVE  /\ sessions[stack'[j].session].open /\ sessions[stack'[j].session].lost = "no"
               /\ stack'[j].session \notin raw
    BY <2>1, <2>2 DEF ClassesInv, Owned
  <2>3. ASSUME NEW j \in DOMAIN stack', NEW k \in DOMAIN stack', IsSession(j)', IsSession(k)',
               stack'[j].session = stack'[k].session, stack'[j].session # 0
        PROVE  j = k
    BY <2>1, <2>3 DEF ClassesInv, Owned
  <2> QED BY <2>2, <2>3 DEF ClassesInv, Owned
<1>6. Accounted'
  <2> SUFFICES ASSUME NEW g \in DOMAIN sessions
               PROVE  /\ sessions[g].open =>
                            \/ \E j \in DOMAIN stack' : IsSession(j)' /\ stack'[j].session = g
                            \/ g \in raw \/ sessions[g].lost # "no"
                      /\ build = "mfxload" => sessions[g].lost # "replaced"
    BY DEF Accounted
  <2>1. ASSUME NEW j \in DOMAIN stack, IsSession(j), stack[j].session = g
        PROVE  j \in DOMAIN stack' /\ IsSession(j)' /\ stack'[j].session = g
    BY <1>1, <1>3, <2>1
  <2> QED BY <2>1 DEF ClassesInv, Accounted
<1>7. MadeAfter'
  <2> SUFFICES ASSUME NEW j \in DOMAIN stack', NEW k \in DOMAIN stack', IsSession(j)',
                      IsComponent(k)', stack'[j].session = stack'[k].session,
                      stack'[j].session # 0
               PROVE  j < k
    BY DEF MadeAfter
  <2>0. j # n
    BY <1>3
  <2>1. j # n /\ j \in DOMAIN stack /\ IsSession(j)
    BY <1>1, <1>3, <2>0
  <2>2. CASE k = n
    BY <1>1, <2>1, <2>2
  <2>3. CASE k # n
    BY <1>1, <1>3, <2>1, <2>3 DEF ClassesInv, MadeAfter
  <2> QED BY <2>2, <2>3
<1>8. FreedEarly'
  BY <1>1, <1>2, <1>3 DEF ClassesInv, FreedEarly
<1>9. Twins'
  <2>1. ASSUME NEW j \in DOMAIN stack', NEW k \in DOMAIN stack', IsComponent(j)', j # k,
               stack'[j].class = stack'[k].class, stack'[j].session = stack'[k].session
        PROVE  stack'[j].twin
    <3>1. CASE j = n
      <4>1. o.class # "session" /\ k \in DOMAIN stack
        BY <1>1, <1>2, <1>3, <2>1, <3>1
      <4>2. stack[k].class = o.class /\ stack[k].session = o.session
        BY <1>2, <2>1, <3>1, <4>1
      <4> QED BY <1>2, <3>1, <4>1, <4>2
    <3>2. CASE k = n
      <4>1. o.class # "session"
        BY <1>2, <2>1, <3>2, ClassesDiffer DEF IsComponent
      <4> QED BY <1>1, <1>2, <2>1, <3>2, <4>1
    <3>3. CASE j # n /\ k # n
      BY <1>1, <1>3, <2>1, <3>3 DEF ClassesInv, Twins
    <3> QED BY <3>1, <3>2, <3>3
  <2>2. \A j \in DOMAIN stack' : IsComponent(j)' /\ stack'[j].on => stack'[j].session # 0
    BY <1>1, <1>2, <1>3 DEF ClassesInv, Twins
  <2> QED BY <2>1, <2>2 DEF Twins
<1>10. LoadersOwned'
  <2>1. \A j \in DOMAIN stack' : IsComponent(j)' => stack'[j].loader = 0
    BY <1>1, <1>2, <1>3 DEF ClassesInv, LoadersOwned
  <2>2. \A j, k \in DOMAIN stack' :
           stack'[j].loader = stack'[k].loader /\ stack'[j].loader # 0 => j = k
    <3>1. \A j \in DOMAIN stack' : stack'[j].loader # 0 =>
             j \in DOMAIN stack /\ stack'[j].loader = stack[j].loader
      BY <1>1, <1>2
    <3> QED BY <3>1 DEF ClassesInv, LoadersOwned
  <2>3. \A m \in DOMAIN loaders : loaders[m] = "loaded" =>
           \E j \in DOMAIN stack' : stack'[j].loader = m /\ stack'[j].session # 0
    BY <1>1 DEF ClassesInv, LoadersOwned
  <2> QED BY <2>1, <2>2, <2>3 DEF ClassesInv, LoadersOwned
<1>11. DanglesOnlyIfClosedEarly'
  BY DEF ClassesInv, DanglesOnlyIfClosedEarly
<1>12. ComponentsKept'
  <2> SUFFICES ASSUME NEW j \in DOMAIN stack', IsComponent(j)', stack'[j].on, ~stack'[j].twin,
                      sessions[stack'[j].session].open
               PROVE  stack'[j].class \in sessions[stack'[j].session].components
    BY DEF ComponentsKept
  <2>1. j \in DOMAIN stack
    BY <1>1, <1>2
  <2> QED BY <1>3, <2>1 DEF ClassesInv, ComponentsKept
<1> QED
  BY <1>4, <1>5, <1>6, <1>7, <1>8, <1>9, <1>10, <1>11, <1>12 DEF ClassesInv

LEMMA ConstructSessionKeeps ==
    ASSUME ClassesInv, ConstructSession
    PROVE  ClassesInv'
<1>1. /\ Len(stack) < MaxObjects /\ stack' = Append(stack, SessionObject)
      /\ UNCHANGED <<build, windows, sessions, loaders, raw, early, dangling>>
  BY DEF ConstructSession
<1>2. /\ SessionObject \in Object /\ SessionObject.session = 0 /\ SessionObject.loader = 0
      /\ SessionObject.class = "session" /\ ~SessionObject.on
  BY DEF SessionObject, Object
<1> HIDE DEF SessionObject
<1>3. /\ stack \in Seq(Object) /\ Len(sessions) \in Nat /\ MaxObjects \in Nat
  BY ClassesAssumption, ObjectTypes DEF ClassesInv, Types
<1>4. /\ stack' \in Seq(Object) /\ Len(stack') = Len(stack) + 1 /\ Len(stack) \in Nat
      /\ stack'[Len(stack) + 1] = SessionObject
      /\ \A j \in DOMAIN stack : stack'[j] = stack[j]
  BY <1>1, <1>2, <1>3, Appended
<1>5. Len(stack') <= MaxObjects
  BY <1>1, <1>3, <1>4
<1> QED
  BY <1>1, <1>2, <1>3, <1>4, <1>5, Grows

LEMMA ConstructComponentKeeps ==
    ASSUME ClassesInv, NEW c \in Component, NEW h, ConstructComponent(c, h)
    PROVE  ClassesInv'
<1> DEFINE twins == {i \in DOMAIN stack : stack[i].class = c /\ stack[i].session = h}
           told == [i \in DOMAIN stack |-> [stack[i] EXCEPT !.twin = @ \/ i \in twins]]
           o == ComponentObject(c, h, twins # {})
<1>0. Types
  BY DEF ClassesInv
<1>1. /\ Len(stack) < MaxObjects /\ stack' = Append(told, o)
      /\ h \in raw \cup {stack[i].session : i \in {j \in DOMAIN stack : IsSession(j)}}
      /\ UNCHANGED <<build, windows, sessions, loaders, raw, early, dangling>>
  BY DEF ConstructComponent
<1>2. h \in 0..Len(sessions) /\ (h # 0 => sessions[h].open)
  <2>1. CASE h \in raw
    BY <1>0, <2>1, ObjectTypes DEF ClassesInv, Owned, Types
  <2>2. CASE h \notin raw
    <3>1. PICK i \in DOMAIN stack : IsSession(i) /\ h = stack[i].session
      BY <1>1, <2>2
    <3> QED BY <1>0, <3>1 DEF ClassesInv, Owned, Types
  <2> QED BY <2>1, <2>2
<1>3. /\ o \in Object /\ o.session = h /\ o.loader = 0 /\ o.class = c /\ ~o.on
      /\ o.twin = (twins # {})
  <2>1. h \in Nat
    BY <1>0, <1>2, ObjectTypes
  <2> HIDE DEF twins
  <2> QED BY <2>1 DEF ComponentObject, Object
<1> HIDE DEF o
<1>4. ASSUME NEW j \in DOMAIN stack
      PROVE  /\ told[j] \in Object
             /\ told[j].class = stack[j].class /\ told[j].session = stack[j].session
             /\ told[j].loader = stack[j].loader /\ told[j].on = stack[j].on
             /\ told[j].twin = (stack[j].twin \/ j \in twins)
  <2>1. told[j] = [stack[j] EXCEPT !.twin = @ \/ j \in twins]
    OBVIOUS
  <2>2. stack[j] \in Object
    BY <1>0, ObjectTypes
  <2> HIDE DEF told, twins
  <2> QED BY <2>1, <2>2 DEF Object
<1>5. told \in Seq(Object) /\ Len(told) = Len(stack) /\ DOMAIN told = DOMAIN stack
  <2>1. DOMAIN stack = 1..Len(stack) /\ Len(stack) \in Nat
    BY <1>0, ObjectTypes
  <2>2. told \in [1..Len(stack) -> Object]
    BY <1>4, <2>1
  <2> HIDE DEF told
  <2> QED BY <2>1, <2>2
<1> HIDE DEF told
<1>6. /\ stack' \in Seq(Object) /\ Len(stack') = Len(stack) + 1 /\ Len(stack) \in Nat
      /\ stack'[Len(stack) + 1] = o
      /\ \A j \in DOMAIN stack : stack'[j] = told[j]
  BY <1>1, <1>3, <1>5, Appended
<1>7. Len(stack') <= MaxObjects
  BY <1>1, <1>6, ClassesAssumption
<1>8. \A j \in DOMAIN stack : stack[j].class = o.class /\ stack[j].session = o.session =>
          stack'[j].twin /\ o.twin
  BY <1>3, <1>4, <1>6
<1>9. \A j \in DOMAIN stack :
         /\ stack'[j].class = stack[j].class /\ stack'[j].session = stack[j].session
         /\ stack'[j].loader = stack[j].loader /\ stack'[j].on = stack[j].on
         /\ stack[j].twin => stack'[j].twin
  BY <1>4, <1>6
<1>10. o.class # "session"
  BY <1>3, ClassesDiffer
<1> HIDE DEF twins
<1> QED
  BY <1>1, <1>2, <1>3, <1>6, <1>7, <1>8, <1>9, <1>10, Grows

-----------------------------------------------------------------------------
(* Init                                                                    *)

\* Object i is given a new session or none; the one it had, in the build without
\* loader, is lost; in the other build it had none and gets a new loader.
LEMMA NewHandle ==
    ASSUME ClassesInv, NEW i \in DOMAIN stack, IsSession(i), NEW o \in Object,
           stack' = [stack EXCEPT ![i] = o], o.class = "session",
           sessions' \in Seq(Session),
           \/ Len(sessions') = Len(sessions) /\ o.session = 0
           \/ /\ Len(sessions') = Len(sessions) + 1 /\ o.session = Len(sessions')
              /\ sessions'[Len(sessions')].open /\ sessions'[Len(sessions')].lost = "no"
              /\ sessions'[Len(sessions')].loader \in 0..Len(loaders'),
           \A g \in DOMAIN sessions :
              /\ sessions'[g].open = sessions[g].open
              /\ sessions'[g].components = sessions[g].components
              /\ sessions'[g].loader = sessions[g].loader
              /\ g # stack[i].session => sessions'[g].lost = sessions[g].lost
              /\ g = stack[i].session => sessions'[g].lost = "replaced" /\ build = "direct",
           \/ build = "direct" /\ loaders' = loaders /\ o.loader = stack[i].loader
           \/ /\ build = "mfxload" /\ stack[i].session = 0
              /\ loaders' \in Seq(LoaderState) /\ Len(loaders') = Len(loaders) + 1
              /\ \A l \in DOMAIN loaders : loaders'[l] = loaders[l]
              /\ o.loader = Len(loaders')
              /\ loaders'[Len(loaders')] = "loaded" => o.session # 0,
           UNCHANGED <<build, windows, raw, early, dangling>>
    PROVE  ClassesInv'
<1>0. /\ Types /\ stack \in Seq(Object) /\ Len(sessions) \in Nat /\ Len(loaders) \in Nat
      /\ DOMAIN sessions = 1..Len(sessions) /\ DOMAIN loaders = 1..Len(loaders)
  BY ObjectTypes DEF ClassesInv, Types
<1>1. /\ stack' \in Seq(Object) /\ DOMAIN stack' = DOMAIN stack /\ Len(stack') = Len(stack)
      /\ stack'[i] = o /\ \A j \in DOMAIN stack : j # i => stack'[j] = stack[j]
  BY <1>0, ElementSet
<1>2. /\ DOMAIN sessions \subseteq DOMAIN sessions'
      /\ \A g \in DOMAIN sessions' : g \in DOMAIN sessions \/ (g = o.session /\ g # 0)
      /\ o.session # 0 => o.session \in DOMAIN sessions' \ DOMAIN sessions
      /\ o.session # 0 => sessions'[o.session].open /\ sessions'[o.session].lost = "no"
      /\ o.session \in 0..Len(sessions') /\ Len(sessions) <= Len(sessions')
      /\ Len(sessions') \in Nat
  BY <1>0
<1>3. /\ Len(loaders') \in Nat /\ Len(loaders) <= Len(loaders')
      /\ loaders' \in Seq(LoaderState) /\ o.loader \in 0..Len(loaders')
  <2>1. CASE build = "direct" /\ loaders' = loaders /\ o.loader = stack[i].loader
    BY <1>0, <2>1 DEF Types
  <2>2. CASE build = "mfxload" /\ Len(loaders') = Len(loaders) + 1 /\ o.loader = Len(loaders')
             /\ loaders' \in Seq(LoaderState)
    BY <1>0, <2>2
  <2> QED BY <2>1, <2>2
<1>4. /\ \A j \in DOMAIN stack' : /\ IsComponent(j)' => j # i /\ IsComponent(j)
                                  /\ IsSession(j)' => IsSession(j)
      /\ IsSession(i)'
      /\ \A j \in DOMAIN stack : IsSession(j) => IsSession(j)'
  BY <1>1, ClassesDiffer DEF IsComponent, IsSession
<1>5. \A j \in DOMAIN stack : /\ stack[j].session # 0 => stack[j].session \in DOMAIN sessions
                              /\ stack[j].session # o.session \/ o.session = 0
  BY <1>0, <1>2, ObjectTypes
<1>6. Types'
  <2>1. ASSUME NEW j \in DOMAIN stack'
        PROVE  stack'[j].session \in 0..Len(sessions') /\ stack'[j].loader \in 0..Len(loaders')
    <3>1. CASE j = i
      BY <1>1, <1>2, <1>3, <3>1
    <3>2. CASE j # i
      <4>1. stack[j].session \in 0..Len(sessions) /\ stack[j].loader \in 0..Len(loaders)
        BY <1>0, <1>1 DEF Types
      <4> QED BY <1>0, <1>1, <1>2, <1>3, <3>2, <4>1
    <3> QED BY <3>1, <3>2
  <2>2. ASSUME NEW g \in DOMAIN sessions'
        PROVE  sessions'[g].loader \in 0..Len(loaders')
    <3>1. CASE g \in DOMAIN sessions
      <4>1. sessions[g].loader \in 0..Len(loaders)
        BY <1>0, <3>1 DEF Types
      <4>2. sessions'[g].loader = sessions[g].loader
        BY <3>1
      <4> QED BY <1>0, <1>3, <4>1, <4>2
    <3>2. CASE g \notin DOMAIN sessions
      BY <1>0, <1>2, <3>2
    <3> QED BY <3>1, <3>2
  <2>3. raw' \subseteq DOMAIN sessions'
    BY <1>0, <1>2 DEF Types
  <2> QED BY <1>0, <1>1, <1>3, <2>1, <2>2, <2>3 DEF Types
<1>7. Owned'
  <2>1. ASSUME NEW j \in DOMAIN stack', j # i, IsSession(j)', stack'[j].session # 0
        PROVE  /\ IsSession(j) /\ stack'[j] = stack[j] /\ stack[j].session \in DOMAIN sessions
               /\ stack[j].session # stack[i].session
    BY <1>1, <1>4, <1>5, <2>1 DEF ClassesInv, Owned
  <2>2. ASSUME NEW j \in DOMAIN stack', IsSession(j)', stack'[j].session # 0
        PROVE  /\ sessions'[stack'[j].session].open /\ sessions'[stack'[j].session].lost = "no"
               /\ stack'[j].session \notin raw
    <3>1. CASE j = i
      BY <1>0, <1>1, <1>2, <2>2, <3>1 DEF Types
    <3>2. CASE j # i
      <4>1. /\ IsSession(j) /\ stack'[j] = stack[j] /\ stack[j].session # 0
            /\ stack[j].session \in DOMAIN sessions /\ stack[j].session # stack[i].session
        BY <2>1, <2>2, <3>2
      <4> QED BY <1>1, <2>2, <3>2, <4>1 DEF ClassesInv, Owned
    <3> QED BY <3>1, <3>2
  <2>3. ASSUME NEW j \in DOMAIN stack', NEW k \in DOMAIN stack', IsSession(j)', IsSession(k)',
               stack'[j].session = stack'[k].session, stack'[j].session # 0
        PROVE  j = k
    <3>1. CASE j = i \/ k = i
      BY <1>1, <1>5, <2>3, <3>1
    <3>2. CASE j # i /\ k # i
      BY <1>1, <2>1, <2>3, <3>2 DEF ClassesInv, Owned
    <3> QED BY <3>1, <3>2
  <2>4. \A g \in raw : sessions'[g].open
    BY <1>0 DEF ClassesInv, Owned, Types
  <2> QED BY <2>2, <2>3, <2>4 DEF Owned
<1>8. Accounted'
  <2> SUFFICES ASSUME NEW g \in DOMAIN sessions'
               PROVE  /\ sessions'[g].open =>
                            \/ \E j \in DOMAIN stack' : IsSession(j)' /\ stack'[j].session = g
                            \/ g \in raw \/ sessions'[g].lost # "no"
                      /\ build = "mfxload" => sessions'[g].lost # "replaced"
    BY DEF Accounted
  <2>1. CASE g \notin DOMAIN sessions
    BY <1>1, <1>2, <1>4, <2>1
  <2>2. CASE g = stack[i].session /\ g \in DOMAIN sessions
    BY <2>2
  <2>3. CASE g \in DOMAIN sessions /\ g # stack[i].session
    <3>1. sessions'[g].open = sessions[g].open /\ sessions'[g].lost = sessions[g].lost
      BY <2>3
    <3>2. ASSUME NEW j \in DOMAIN stack, IsSession(j), stack[j].session = g
          PROVE  j \in DOMAIN stack' /\ IsSession(j)' /\ stack'[j].session = g
      BY <1>1, <1>4, <2>3, <3>2
    <3> QED BY <2>3, <3>1, <3>2 DEF ClassesInv, Accounted
  <2> QED BY <2>1, <2>2, <2>3
<1>9. MadeAfter'
  <2> SUFFICES ASSUME NEW j \in DOMAIN stack', NEW k \in DOMAIN stack', IsSession(j)',
                      IsComponent(k)', stack'[j].session = stack'[k].session,
                      stack'[j].session # 0
               PROVE  j < k
    BY DEF MadeAfter
  <2>1. k # i /\ stack'[k] = stack[k] /\ IsComponent(k)
    BY <1>1, <1>4
  <2>2. j # i
    BY <1>1, <1>5, <2>1
  <2> QED BY <1>1, <1>4, <2>1, <2>2 DEF ClassesInv, MadeAfter
<1>10. FreedEarly'
  BY <1>1, <1>4, <1>5 DEF ClassesInv, FreedEarly
<1>11. Twins'
  <2>1. ASSUME NEW j \in DOMAIN stack', NEW k \in DOMAIN stack', IsComponent(j)', j # k,
               stack'[j].class = stack'[k].class, stack'[j].session = stack'[k].session
        PROVE  stack'[j].twin
    <3>1. IsComponent(k)'
      BY <2>1 DEF IsComponent
    <3> QED BY <1>1, <1>4, <2>1, <3>1 DEF ClassesInv, Twins
  <2>2. \A j \in DOMAIN stack' : IsComponent(j)' /\ stack'[j].on => stack'[j].session # 0
    BY <1>1, <1>4 DEF ClassesInv, Twins
  <2> QED BY <2>1, <2>2 DEF Twins
<1>12. LoadersOwned'
  <2>1. \A j \in DOMAIN stack' : IsComponent(j)' => stack'[j].loader = 0
    BY <1>1, <1>4 DEF ClassesInv, LoadersOwned
  <2>2. CASE build = "direct"
    <3>1. loaders = <<>> /\ loaders' = <<>>
      BY <2>2 DEF ClassesInv, LoadersOwned
    <3>2. \A j \in DOMAIN stack' : stack'[j].loader = 0
      BY <1>1, <1>3, <3>1, <1>0, ObjectTypes
    <3> QED BY <2>1, <3>1, <3>2 DEF LoadersOwned
  <2>3. CASE build = "mfxload"
    <3>1. /\ stack[i].session = 0
          /\ Len(loaders') = Len(loaders) + 1 /\ o.loader = Len(loaders')
          /\ \A l \in DOMAIN loaders : loaders'[l] = loaders[l]
          /\ loaders'[Len(loaders')] = "loaded" => o.session # 0
      BY <2>3
    <3>2. \A j \in DOMAIN stack : j # i => stack'[j].loader # o.loader
      <4>1. \A j \in DOMAIN stack : stack[j].loader \in 0..Len(loaders)
        BY <1>0 DEF Types
      <4> QED BY <1>0, <1>1, <3>1, <4>1
    <3>3. \A j, k \in DOMAIN stack' :
             stack'[j].loader = stack'[k].loader /\ stack'[j].loader # 0 => j = k
      BY <1>1, <3>2 DEF ClassesInv, LoadersOwned
    <3>4. ASSUME NEW l \in DOMAIN loaders', loaders'[l] = "loaded"
          PROVE  \E j \in DOMAIN stack' : stack'[j].loader = l /\ stack'[j].session # 0
      <4>1. CASE l \in DOMAIN loaders
        <5>1. PICK j \in DOMAIN stack : stack[j].loader = l /\ stack[j].session # 0
          BY <3>1, <3>4, <4>1 DEF ClassesInv, LoadersOwned
        <5> QED BY <1>1, <3>1, <5>1
      <4>2. CASE l \notin DOMAIN loaders
        <5>1. l = Len(loaders')
          BY <1>0, <1>3, <3>1, <4>2
        <5> QED BY <1>1, <3>1, <3>4, <5>1
      <4> QED BY <4>1, <4>2
    <3> QED BY <2>1, <2>3, <3>3, <3>4 DEF LoadersOwned
  <2> QED BY <1>0, <2>2, <2>3 DEF Types
<1>13. DanglesOnlyIfClosedEarly'
  BY DEF ClassesInv, DanglesOnlyIfClosedEarly
<1>14. ComponentsKept'
  <2> SUFFICES ASSUME NEW j \in DOMAIN stack', IsComponent(j)', stack'[j].on, ~stack'[j].twin,
                      sessions'[stack'[j].session].open
               PROVE  stack'[j].class \in sessions'[stack'[j].session].components
    BY DEF ComponentsKept
  <2>1. j \in DOMAIN stack /\ IsComponent(j) /\ stack'[j] = stack[j]
    BY <1>1, <1>4
  <2>2. stack[j].session \in DOMAIN sessions
    BY <1>5, <2>1 DEF ClassesInv, Twins
  <2> QED BY <2>1, <2>2 DEF ClassesInv, ComponentsKept
<1> QED
  BY <1>6, <1>7, <1>8, <1>9, <1>10, <1>11, <1>12, <1>13, <1>14 DEF ClassesInv

LEMMA StandsStill ==
    ASSUME ClassesInv, UNCHANGED vars
    PROVE  ClassesInv'
<1> USE DEF vars
<1>1. Types' /\ Owned'
  BY DEF ClassesInv, Types, Owned, IsSession
<1>2. Accounted' /\ FreedEarly'
  BY DEF ClassesInv, Accounted, FreedEarly, IsSession, IsComponent
<1>3. MadeAfter' /\ Twins'
  BY DEF ClassesInv, MadeAfter, Twins, IsSession, IsComponent
<1>4. LoadersOwned'
  BY DEF ClassesInv, LoadersOwned, IsComponent
<1>5. DanglesOnlyIfClosedEarly' /\ ComponentsKept'
  BY DEF ClassesInv, DanglesOnlyIfClosedEarly, ComponentsKept, IsComponent
<1> QED
  BY <1>1, <1>2, <1>3, <1>4, <1>5 DEF ClassesInv

LEMMA NewSessionFields ==
    ASSUME NEW k \in DOMAIN Implementation, NEW l \in Nat, NEW p \in Nat
    PROVE  LET s == NewSession(k, l, p)
           IN  /\ s \in Session /\ s.open /\ s.lost = "no" /\ s.loader = l /\ s.components = {}
BY DEF NewSession, Session

\* An implementation that meets the filters is chosen among the implementations.
LEMMA LeastImplementation ==
    ASSUME NEW ks, ks \subseteq DOMAIN Implementation, ks # {}
    PROVE  Min(ks) \in DOMAIN Implementation
<1>1. DOMAIN Implementation = 1..Len(Implementation) /\ Len(Implementation) \in Nat
  BY ClassesAssumption
<1>2. IsFiniteSet(1..Len(Implementation)) /\ ks \subseteq Int
  BY <1>1, FS_Interval
<1>3. IsFiniteSet(ks)
  BY <1>1, <1>2, FS_Subset
<1>4. \E x \in ks : \A y \in ks : x <= y
  BY <1>2, <1>3, Extremes
<1> QED
  BY <1>4 DEF Min

\* InitSession: an object without session has a new loader, and a session of it if
\* all went well.
LEMMA InitSessionKeeps ==
    ASSUME ClassesInv, NEW i \in DOMAIN stack, NEW r, NEW works, InitSession(i, r, works)
    PROVE  ClassesInv'
<1> DEFINE ks == Filters(r)
           made == works /\ ~Unsupported(r) /\ ks # {}
           l == Len(loaders) + 1
           n == Len(sessions) + 1
           new == NewSession(Min(ks), l, 0)
           o == [stack[i] EXCEPT !.loader = l, !.session = IF made THEN n ELSE 0]
<1>0. /\ Types /\ stack[i] \in Object /\ stack \in Seq(Object)
      /\ Len(sessions) \in Nat /\ Len(loaders) \in Nat
      /\ DOMAIN sessions = 1..Len(sessions)
      /\ sessions \in Seq(Session) /\ loaders \in Seq(LoaderState)
  BY ObjectTypes DEF ClassesInv, Types
<1>1. /\ build = "mfxload" /\ IsSession(i) /\ stack[i].session = 0
      /\ loaders' = Append(loaders, IF made THEN "loaded" ELSE "failed")
      /\ sessions' = IF made THEN Append(sessions, new) ELSE sessions
      /\ stack' = [stack EXCEPT ![i].loader = l, ![i].session = IF made THEN n ELSE @]
      /\ UNCHANGED <<build, windows, raw, early, dangling>>
  BY DEF InitSession, CreateSession
<1>2. made => Min(ks) \in DOMAIN Implementation
  BY LeastImplementation DEF Filters
<1>3. made => new \in Session /\ new.open /\ new.lost = "no" /\ new.loader = l
  <2>1. l \in Nat
    BY <1>0
  <2> HIDE DEF l, ks, made
  <2> QED BY <1>2, <2>1, NewSessionFields
<1> HIDE DEF made, new, ks
<1>4. /\ o \in Object /\ o.class = "session" /\ o.loader = l
      /\ o.session = IF made THEN n ELSE 0
  <2>1. l \in Nat /\ n \in Nat /\ stack[i].class = "session"
    BY <1>0, <1>1 DEF IsSession
  <2> HIDE DEF l, n
  <2> QED BY <1>0, <2>1 DEF Object
<1>5. stack' = [stack EXCEPT ![i] = o]
  <2> HIDE DEF l, n
  <2> QED BY <1>0, <1>1
<1> HIDE DEF o
<1>6. /\ loaders' \in Seq(LoaderState) /\ Len(loaders') = l
      /\ \A m \in DOMAIN loaders : loaders'[m] = loaders[m]
      /\ loaders'[l] = "loaded" => made
  <2> DEFINE e == IF made THEN "loaded" ELSE "failed"
  <2>1. e \in LoaderState /\ loaders' = Append(loaders, e)
    BY <1>1 DEF LoaderState
  <2>2. e = "loaded" => made
    OBVIOUS
  <2> HIDE DEF e
  <2> QED BY <1>0, <2>1, <2>2, Appended
<1>7. /\ sessions' \in Seq(Session)
      /\ \A g \in DOMAIN sessions : sessions'[g] = sessions[g]
      /\ IF made THEN /\ Len(sessions') = n /\ sessions'[n] = new
         ELSE Len(sessions') = Len(sessions)
  <2>1. CASE made
    BY <1>0, <1>1, <1>3, <2>1, Appended
  <2>2. CASE ~made
    BY <1>0, <1>1, <2>2
  <2> QED BY <2>1, <2>2
<1>8. n # 0 /\ l \in 0..l /\ l \in Nat
  BY <1>0
<1>9. 0 \notin DOMAIN sessions
  BY <1>0
<1>10. \/ Len(sessions') = Len(sessions) /\ o.session = 0
       \/ /\ Len(sessions') = Len(sessions) + 1 /\ o.session = Len(sessions')
          /\ sessions'[Len(sessions')].open /\ sessions'[Len(sessions')].lost = "no"
          /\ sessions'[Len(sessions')].loader \in 0..Len(loaders')
  <2>1. CASE made
    BY <1>3, <1>4, <1>6, <1>7, <1>8, <2>1
  <2>2. CASE ~made
    BY <1>4, <1>7, <2>2
  <2> QED BY <2>1, <2>2
<1>11. loaders'[Len(loaders')] = "loaded" => o.session # 0
  BY <1>4, <1>6, <1>8
<1>12. o.loader = Len(loaders') /\ Len(loaders') = Len(loaders) + 1
  BY <1>4, <1>6
<1>13. \A g \in DOMAIN sessions :
          /\ sessions'[g].open = sessions[g].open
          /\ sessions'[g].components = sessions[g].components
          /\ sessions'[g].loader = sessions[g].loader
          /\ g # stack[i].session => sessions'[g].lost = sessions[g].lost
          /\ g = stack[i].session => sessions'[g].lost = "replaced" /\ build = "direct"
  BY <1>1, <1>7, <1>9
<1> HIDE DEF l, n
<1>14. /\ build = "mfxload" /\ stack[i].session = 0
       /\ loaders' \in Seq(LoaderState) /\ Len(loaders') = Len(loaders) + 1
       /\ \A m \in DOMAIN loaders : loaders'[m] = loaders[m]
       /\ o.loader = Len(loaders')
       /\ loaders'[Len(loaders')] = "loaded" => o.session # 0
  BY <1>1, <1>6, <1>11, <1>12
<1>15. IsSession(i) /\ o \in Object /\ o.class = "session" /\ sessions' \in Seq(Session)
  BY <1>1, <1>4, <1>7
<1>16. UNCHANGED <<build, windows, raw, early, dangling>>
  BY <1>1
<1> QED
  BY <1>5, <1>10, <1>13, <1>14, <1>15, <1>16, NewHandle

\* Init and InitEx of the build without loader
LEMMA DirectInitKeeps ==
    ASSUME ClassesInv, NEW i \in DOMAIN stack, NEW k \in 0..Len(Implementation), NEW valid,
           DirectInit(i, k, valid)
    PROVE  ClassesInv'
<1> DEFINE old == stack[i].session
           reset == k # 0 \/ (windows /\ valid)
           gone == [sessions[old] EXCEPT !.lost = "replaced"]
           S == IF reset /\ old # 0 THEN [sessions EXCEPT ![old].lost = "replaced"] ELSE sessions
           new == NewSession(k, 0, 0)
           x == IF k # 0 THEN Len(S) + 1 ELSE 0
           o == [stack[i] EXCEPT !.session = x]
<1>0. /\ Types /\ stack[i] \in Object /\ stack \in Seq(Object)
      /\ Len(sessions) \in Nat /\ DOMAIN sessions = 1..Len(sessions)
      /\ sessions \in Seq(Session)
      /\ old # 0 => old \in DOMAIN sessions /\ sessions[old] \in Session
  BY ObjectTypes DEF ClassesInv, Types
<1>1. /\ build = "direct" /\ IsSession(i)
      /\ sessions' = IF k # 0 THEN Append(S, new) ELSE S
      /\ stack' = [stack EXCEPT ![i].session = IF k # 0 THEN Len(S) + 1
                                               ELSE IF reset THEN 0 ELSE @]
      /\ UNCHANGED <<build, windows, loaders, raw, early, dangling>>
  BY DEF DirectInit
<1>2. CASE ~reset
  <2>1. k = 0 /\ S = sessions
    BY <1>2
  <2> HIDE DEF S, new, reset
  <2>2. sessions' = sessions /\ stack' = [stack EXCEPT ![i].session = stack[i].session]
    BY <1>1, <1>2, <2>1
  <2>3. stack' = stack
    BY <1>0, <2>2 DEF Object
  <2>4. UNCHANGED vars
    BY <1>1, <2>2, <2>3 DEF vars
  <2> QED BY <2>4, StandsStill
<1>3. CASE reset
  <2>1. old # 0 => /\ gone \in Session /\ gone.open = sessions[old].open
                   /\ gone.components = sessions[old].components
                   /\ gone.loader = sessions[old].loader /\ gone.lost = "replaced"
    BY <1>0 DEF Session
  <2>2. S = IF old # 0 THEN [sessions EXCEPT ![old] = gone] ELSE sessions
    BY <1>0, <1>3
  <2> HIDE DEF S, gone
  <2>3. /\ S \in Seq(Session) /\ DOMAIN S = DOMAIN sessions /\ Len(S) = Len(sessions)
        /\ \A g \in DOMAIN sessions : g # old => S[g] = sessions[g]
        /\ old # 0 => S[old] = gone
    <3>1. CASE old # 0
      BY <1>0, <2>1, <2>2, <3>1, ElementSet
    <3>2. CASE old = 0
      BY <1>0, <2>2, <3>2
    <3> QED BY <3>1, <3>2
  <2>4. k # 0 => new \in Session /\ new.open /\ new.lost = "no" /\ new.loader = 0
    <3>1. k # 0 => k \in DOMAIN Implementation
      BY ClassesAssumption
    <3> QED BY <3>1, NewSessionFields
  <2> HIDE DEF new
  <2>5. x \in Nat
    BY <1>0, <2>3
  <2>6. /\ stack[i].class = "session" /\ o \in Object /\ o.class = "session"
        /\ o.session = x /\ o.loader = stack[i].loader
    <3> HIDE DEF x
    <3> QED BY <1>0, <1>1, <2>5 DEF Object, IsSession
  <2>7. stack' = [stack EXCEPT ![i] = o]
    <3>1. stack' = [stack EXCEPT ![i].session = x]
      <4> HIDE DEF reset
      <4> QED BY <1>1, <1>3
    <3> HIDE DEF x
    <3> QED BY <1>0, <3>1
  <2> HIDE DEF o
  <2>8. /\ sessions' \in Seq(Session)
        /\ \A g \in DOMAIN sessions : sessions'[g] = S[g]
        /\ IF k # 0 THEN Len(sessions') = Len(sessions) + 1 /\ sessions'[Len(sessions')] = new
           ELSE Len(sessions') = Len(sessions)
    <3>1. CASE k # 0
      BY <1>1, <2>3, <2>4, <3>1, Appended
    <3>2. CASE k = 0
      BY <1>1, <2>3, <3>2
    <3> QED BY <3>1, <3>2
  <2>9. \/ Len(sessions') = Len(sessions) /\ o.session = 0
        \/ /\ Len(sessions') = Len(sessions) + 1 /\ o.session = Len(sessions')
           /\ sessions'[Len(sessions')].open /\ sessions'[Len(sessions')].lost = "no"
           /\ sessions'[Len(sessions')].loader \in 0..Len(loaders')
    <3>1. 0 \in 0..Len(loaders')
      BY <1>0, <1>1, ObjectTypes
    <3>2. CASE k # 0
      <4>1. o.session = Len(sessions')
        BY <2>3, <2>6, <2>8, <3>2
      <4> HIDE DEF x
      <4> QED BY <2>4, <2>8, <3>1, <3>2, <4>1
    <3>3. CASE k = 0
      BY <2>6, <2>8, <3>3
    <3> QED BY <3>2, <3>3
  <2>10. \A g \in DOMAIN sessions :
            /\ sessions'[g].open = sessions[g].open
            /\ sessions'[g].components = sessions[g].components
            /\ sessions'[g].loader = sessions[g].loader
            /\ g # stack[i].session => sessions'[g].lost = sessions[g].lost
            /\ g = stack[i].session => sessions'[g].lost = "replaced" /\ build = "direct"
    <3>1. 0 \notin DOMAIN sessions
      BY <1>0
    <3> QED BY <1>1, <2>1, <2>3, <2>8, <3>1
  <2>11. /\ build = "direct" /\ loaders' = loaders /\ o.loader = stack[i].loader
         /\ IsSession(i) /\ o \in Object /\ o.class = "session"
         /\ sessions' \in Seq(Session)
    BY <1>1, <2>6, <2>8
  <2>12. UNCHANGED <<build, windows, raw, early, dangling>>
    BY <1>1
  <2> HIDE DEF x, old, reset
  <2> QED
    BY <2>7, <2>9, <2>10, <2>11, <2>12, NewHandle
<1> QED
  BY <1>2, <1>3

-----------------------------------------------------------------------------
(* Close and the destructors                                               *)

LEMMA CloseSessionKeeps ==
    ASSUME ClassesInv, NEW i \in DOMAIN stack, CloseSession(i)
    PROVE  ClassesInv'
<1> DEFINE o == [stack[i] EXCEPT !.session = 0,
                                 !.loader = IF stack[i].session # 0 THEN 0 ELSE @]
<1>0. /\ Types /\ stack[i] \in Object /\ stack \in Seq(Object) /\ Len(stack) <= MaxObjects
      /\ stack[i].loader \in Nat
  BY ObjectTypes DEF ClassesInv, Types
<1>1. /\ IsSession(i) /\ SessionClose(stack[i])
      /\ stack' = [stack EXCEPT ![i].session = 0,
                                ![i].loader = IF stack[i].session # 0 THEN 0 ELSE @]
      /\ early' = (early \/ \E j \in DOMAIN stack : /\ IsComponent(j) /\ stack[i].session # 0
                                                    /\ stack[j].session = stack[i].session)
      /\ UNCHANGED <<build, windows, raw>>
  BY DEF CloseSession
<1>2. /\ o \in Object /\ o.class = "session" /\ o.session = 0
      /\ o.loader = IF stack[i].session # 0 THEN 0 ELSE stack[i].loader
  BY <1>0, <1>1 DEF Object, IsSession
<1>3. stack' = [stack EXCEPT ![i] = o]
  BY <1>0, <1>1
<1> HIDE DEF o
<1>4. /\ stack' \in Seq(Object) /\ DOMAIN stack' = DOMAIN stack /\ Len(stack') = Len(stack)
      /\ stack'[i] = o /\ \A j \in DOMAIN stack \ {i} : stack'[j] = stack[j]
  BY <1>0, <1>2, <1>3, ElementSet
<1>5. Keeps(stack', i)
  BY <1>0, <1>4 DEF Keeps
<1>6. PassThrough(stack[i].session, 10) # "freed"
  BY <1>1, OwnIsOpen
<1>7. /\ sessions' = MFXClose(stack[i].session)
      /\ loaders' = IF build = "mfxload" /\ stack[i].session # 0
                    THEN Unload(stack[i].loader) ELSE loaders
      /\ dangling' = (dangling \/ PassThrough(stack[i].session, 10) = "freed")
  BY <1>1 DEF SessionClose
<1>8. UNCHANGED <<build, windows, raw, dangling>>
  BY <1>0, <1>1, <1>6, <1>7 DEF Types
<1>9. /\ early' \in BOOLEAN /\ early => early'
      /\ \A j \in DOMAIN stack :
            IsComponent(j) /\ stack[j].session = stack[i].session /\ stack[i].session # 0
            => early'
  BY <1>0, <1>1 DEF Types
<1> QED
  BY <1>1, <1>2, <1>4, <1>5, <1>7, <1>8, <1>9, LetsGo

LEMMA CloseComponentKeeps ==
    ASSUME ClassesInv, NEW i \in DOMAIN stack, CloseComponent(i)
    PROVE  ClassesInv'
<1> DEFINE o == [stack[i] EXCEPT !.on = FALSE]
<1>0. /\ Types /\ stack[i] \in Object /\ stack \in Seq(Object) /\ Len(stack) <= MaxObjects
  BY ObjectTypes DEF ClassesInv, Types
<1>1. /\ IsComponent(i) /\ ComponentClose(stack[i])
      /\ stack' = [stack EXCEPT ![i].on = FALSE]
      /\ UNCHANGED <<build, windows, loaders, raw, early>>
  BY DEF CloseComponent
<1>2. /\ o \in Object /\ o.class = stack[i].class /\ o.session = stack[i].session
      /\ o.loader = stack[i].loader /\ o.twin = stack[i].twin /\ ~o.on
  BY <1>0 DEF Object
<1>3. stack' = [stack EXCEPT ![i] = o]
  BY <1>0, <1>1
<1> HIDE DEF o
<1>4. /\ stack' \in Seq(Object) /\ DOMAIN stack' = DOMAIN stack /\ Len(stack') = Len(stack)
      /\ stack'[i] = o /\ \A j \in DOMAIN stack \ {i} : stack'[j] = stack[j]
  BY <1>0, <1>2, <1>3, ElementSet
<1>5. Keeps(stack', i)
  BY <1>0, <1>4 DEF Keeps
<1> QED
  BY <1>1, <1>2, <1>4, <1>5, TakesOff

\* The stack without its last object.
LEMMA LastGone ==
    ASSUME NEW T, NEW s \in Seq(T), s # <<>>, NEW r, r = SubSeq(s, 1, Len(s) - 1)
    PROVE  /\ r \in Seq(T) /\ Len(s) \in DOMAIN s /\ Len(r) <= Len(s)
           /\ DOMAIN r = DOMAIN s \ {Len(s)}
           /\ \A j \in DOMAIN r : r[j] = s[j]
<1>1. Len(s) \in Nat \ {0} /\ DOMAIN s = 1..Len(s)
  OBVIOUS
<1>a. Len(s) - 1 \in Nat
  BY <1>1
<1>2. PICK n \in Nat : n = Len(s) - 1
  BY <1>a
<1>3. r \in Seq(T) /\ Len(r) = n /\ DOMAIN r = 1..n /\ \A j \in 1..n : r[j] = s[j]
  BY <1>1, <1>2
<1>4. 1..n = 1..Len(s) \ {Len(s)}
  BY <1>1, <1>2
<1> QED
  BY <1>1, <1>2, <1>3, <1>4

\* The destructor: of the last object, so that no component object that is made
\* from the same handle remains.
LEMMA DestroyLastKeeps ==
    ASSUME ClassesInv, DestroyLast
    PROVE  ClassesInv'
<1>1. /\ stack # <<>> /\ stack' = SubSeq(stack, 1, Len(stack) - 1)
      /\ UNCHANGED <<build, windows, raw, early>>
  BY DEF DestroyLast
<1>a. Len(stack) \in DOMAIN stack
  BY <1>1, LastGone DEF ClassesInv, Types
<1>2. PICK i \in DOMAIN stack : i = Len(stack)
  BY <1>a
<1>3. IF stack[i].class = "session" THEN SessionClose(stack[i])
      ELSE ComponentClose(stack[i]) /\ UNCHANGED loaders
  BY <1>2 DEF DestroyLast
<1>4. /\ Types /\ stack \in Seq(Object) /\ Len(stack) <= MaxObjects /\ Len(stack) \in Nat
      /\ MaxObjects \in Nat /\ early \in BOOLEAN /\ dangling \in BOOLEAN
      /\ DOMAIN stack = 1..Len(stack)
  BY ObjectTypes, ClassesAssumption DEF ClassesInv, Types
<1>5. /\ stack' \in Seq(Object) /\ i \in DOMAIN stack /\ Len(stack') <= Len(stack)
      /\ DOMAIN stack' = DOMAIN stack \ {i}
      /\ \A j \in DOMAIN stack' : stack'[j] = stack[j]
  BY <1>1, <1>2, <1>4, LastGone
<1>6. Keeps(stack', i) /\ i \notin DOMAIN stack'
  <2>1. Len(stack') \in Nat
    BY <1>5
  <2> QED BY <1>4, <1>5, <2>1 DEF Keeps
<1>7. CASE stack[i].class = "session"
  <2>1. IsSession(i)
    BY <1>5, <1>7 DEF IsSession
  <2>2. /\ sessions' = MFXClose(stack[i].session)
        /\ loaders' = IF build = "mfxload" /\ stack[i].session # 0
                      THEN Unload(stack[i].loader) ELSE loaders
        /\ dangling' = (dangling \/ PassThrough(stack[i].session, 10) = "freed")
    BY <1>3, <1>7 DEF SessionClose
  <2>3. UNCHANGED <<build, windows, raw, dangling>>
    BY <1>1, <1>4, <1>5, <2>1, <2>2, OwnIsOpen
  <2>4. ASSUME NEW j \in DOMAIN stack, IsComponent(j), stack[j].session = stack[i].session,
               stack[i].session # 0
        PROVE  early'
    <3>1. i < j
      BY <1>5, <2>1, <2>4 DEF ClassesInv, MadeAfter
    <3> QED BY <1>2, <1>4, <3>1
  <2>5. early' \in BOOLEAN /\ (early => early')
    BY <1>1, <1>4
  <2>6. i \notin DOMAIN stack'
    BY <1>6
  <2>7. \A j \in DOMAIN stack :
           IsComponent(j) /\ stack[j].session = stack[i].session /\ stack[i].session # 0
           => early'
    BY <2>4
  <2>8. Keeps(stack', i) /\ i \in DOMAIN stack
    BY <1>5, <1>6
  <2>9. /\ sessions' = MFXClose(stack[i].session)
        /\ loaders' = IF build = "mfxload" /\ stack[i].session # 0
                      THEN Unload(stack[i].loader) ELSE loaders
    BY <2>2
  <2> QED BY <2>1, <2>3, <2>5, <2>6, <2>7, <2>8, <2>9, LetsGo
<1>8. CASE stack[i].class # "session"
  <2>1. IsComponent(i)
    BY <1>4, <1>5, <1>8, ObjectTypes DEF IsSession
  <2> QED BY <1>1, <1>3, <1>5, <1>6, <1>8, <2>1, TakesOff
<1> QED
  BY <1>7, <1>8

-----------------------------------------------------------------------------
(* The calls that close nothing                                            *)

\* The objects keep their handles, and the sessions theirs; sessions may be added
\* for the program, components may be initialised.
LEMMA HandlesStand ==
    ASSUME ClassesInv, stack' \in Seq(Object), Len(stack') = Len(stack),
           \A j \in DOMAIN stack :
              /\ stack'[j].class = stack[j].class /\ stack'[j].session = stack[j].session
              /\ stack'[j].loader = stack[j].loader /\ stack'[j].twin = stack[j].twin
              /\ stack'[j].on =>
                    \/ stack[j].on
                    \/ /\ stack[j].session # 0
                       /\ stack[j].class \in sessions'[stack[j].session].components,
           sessions' \in Seq(Session), Len(sessions) <= Len(sessions'),
           \A g \in DOMAIN sessions :
              /\ sessions'[g].open = sessions[g].open /\ sessions'[g].lost = sessions[g].lost
              /\ sessions'[g].loader = sessions[g].loader
              /\ sessions[g].components \subseteq sessions'[g].components,
           \A g \in DOMAIN sessions' \ DOMAIN sessions :
              /\ g \in raw' /\ sessions'[g].open /\ sessions'[g].lost = "no"
              /\ sessions'[g].loader \in 0..Len(loaders),
           raw \subseteq raw', raw' \subseteq raw \cup (DOMAIN sessions' \ DOMAIN sessions),
           dangling' \in BOOLEAN, dangling' => dangling \/ early,
           UNCHANGED <<build, windows, loaders, early>>
    PROVE  ClassesInv'
<1>0. /\ Types /\ Len(sessions) \in Nat /\ Len(loaders) \in Nat
      /\ DOMAIN sessions = 1..Len(sessions)
  BY ObjectTypes DEF ClassesInv
<1>1. /\ DOMAIN stack' = DOMAIN stack /\ DOMAIN sessions \subseteq DOMAIN sessions'
      /\ Len(sessions') \in Nat /\ raw' \subseteq DOMAIN sessions'
  BY <1>0 DEF Types
<1>2. \A j \in DOMAIN stack : /\ IsComponent(j)' <=> IsComponent(j)
                              /\ IsSession(j)' <=> IsSession(j)
                              /\ stack[j].session # 0 => stack[j].session \in DOMAIN sessions
                              /\ stack'[j].session = stack[j].session
                              /\ stack'[j].loader = stack[j].loader
  BY <1>0, <1>1, ObjectTypes DEF IsComponent, IsSession
<1>3. Types'
  <2>1. \A j \in DOMAIN stack' : /\ stack'[j].session \in 0..Len(sessions')
                                 /\ stack'[j].loader \in 0..Len(loaders)
    BY <1>0, <1>1, <1>2 DEF Types
  <2>2. \A g \in DOMAIN sessions' : sessions'[g].loader \in 0..Len(loaders)
    BY <1>0 DEF Types
  <2> QED BY <1>0, <1>1, <2>1, <2>2 DEF Types
<1>4. Owned'
  <2>1. \A g \in raw' : sessions'[g].open
    BY <1>0 DEF ClassesInv, Owned, Types
  <2>2. ASSUME NEW j \in DOMAIN stack', IsSession(j)', stack'[j].session # 0
        PROVE  /\ sessions'[stack'[j].session].open /\ sessions'[stack'[j].session].lost = "no"
               /\ stack'[j].session \notin raw'
    <3>1. /\ j \in DOMAIN stack /\ IsSession(j) /\ stack'[j].session = stack[j].session
          /\ stack[j].session \in DOMAIN sessions
      BY <1>1, <1>2, <2>2
    <3> QED BY <2>2, <3>1 DEF ClassesInv, Owned
  <2>3. \A j, k \in DOMAIN stack' :
            /\ IsSession(j)' /\ IsSession(k)'
            /\ stack'[j].session = stack'[k].session /\ stack'[j].session # 0
            => j = k
    BY <1>1, <1>2 DEF ClassesInv, Owned
  <2> QED BY <2>1, <2>2, <2>3 DEF Owned
<1>5. Accounted'
  <2> SUFFICES ASSUME NEW g \in DOMAIN sessions'
               PROVE  /\ sessions'[g].open =>
                            \/ \E j \in DOMAIN stack' : IsSession(j)' /\ stack'[j].session = g
                            \/ g \in raw' \/ sessions'[g].lost # "no"
                      /\ build = "mfxload" => sessions'[g].lost # "replaced"
    BY DEF Accounted
  <2>1. CASE g \in DOMAIN sessions
    <3>1. ASSUME NEW j \in DOMAIN stack, IsSession(j), stack[j].session = g
          PROVE  j \in DOMAIN stack' /\ IsSession(j)' /\ stack'[j].session = g
      BY <1>1, <1>2, <3>1
    <3> QED BY <2>1, <3>1 DEF ClassesInv, Accounted
  <2>2. CASE g \notin DOMAIN sessions
    BY <2>2
  <2> QED BY <2>1, <2>2
<1>6. MadeAfter'
  BY <1>1, <1>2 DEF ClassesInv, MadeAfter
<1>7. FreedEarly'
  BY <1>1, <1>2 DEF ClassesInv, FreedEarly
<1>8. Twins'
  BY <1>1, <1>2 DEF ClassesInv, Twins
<1>9. LoadersOwned'
  <2>1. \A j, k \in DOMAIN stack' :
            stack'[j].loader = stack'[k].loader /\ stack'[j].loader # 0 => j = k
    BY <1>1, <1>2 DEF ClassesInv, LoadersOwned
  <2>2. \A l \in DOMAIN loaders : loaders[l] = "loaded" =>
            \E j \in DOMAIN stack' : stack'[j].loader = l /\ stack'[j].session # 0
    BY <1>1, <1>2 DEF ClassesInv, LoadersOwned
  <2>3. \A j \in DOMAIN stack' : IsComponent(j)' => stack'[j].loader = 0
    BY <1>1, <1>2 DEF ClassesInv, LoadersOwned
  <2> QED BY <2>1, <2>2, <2>3 DEF ClassesInv, LoadersOwned
<1>10. DanglesOnlyIfClosedEarly'
  BY DEF ClassesInv, DanglesOnlyIfClosedEarly
<1>11. ComponentsKept'
  <2> SUFFICES ASSUME NEW j \in DOMAIN stack', IsComponent(j)', stack'[j].on, ~stack'[j].twin,
                      sessions'[stack'[j].session].open
               PROVE  stack'[j].class \in sessions'[stack'[j].session].components
    BY DEF ComponentsKept
  <2>1. /\ j \in DOMAIN stack /\ IsComponent(j) /\ ~stack[j].twin
        /\ stack'[j].session = stack[j].session /\ stack'[j].class = stack[j].class
    BY <1>1, <1>2
  <2>2. CASE stack[j].on
    <3>1. stack[j].session \in DOMAIN sessions
      BY <1>2, <2>1, <2>2 DEF ClassesInv, Twins
    <3> QED BY <2>1, <2>2, <3>1 DEF ClassesInv, ComponentsKept
  <2>3. CASE ~stack[j].on
    BY <2>1, <2>3
  <2> QED BY <2>2, <2>3
<1> QED
  BY <1>3, <1>4, <1>5, <1>6, <1>7, <1>8, <1>9, <1>10, <1>11 DEF ClassesInv

LEMMA CallKeeps ==
    ASSUME ClassesInv, NEW i \in DOMAIN stack, Call(i)
    PROVE  ClassesInv'
<1>1. /\ stack \in Seq(Object) /\ sessions \in Seq(Session) /\ dangling \in BOOLEAN
      /\ Len(sessions) \in Nat
  BY ObjectTypes DEF ClassesInv, Types
<1>2. /\ dangling' = (dangling \/ PassThrough(stack[i].session, Since(stack[i].class)) = "freed")
      /\ UNCHANGED <<build, windows, stack, sessions, loaders, raw, early>>
  BY DEF Call
<1>3. dangling' \in BOOLEAN /\ (dangling' => dangling \/ early)
  BY <1>1, <1>2, FreedIsEarly
<1> QED
  BY <1>1, <1>2, <1>3, HandlesStand

\* One session is changed otherwise than by closing it.
LEMMA SessionSet ==
    ASSUME Types, NEW h \in DOMAIN sessions, NEW s \in Session,
           s.open = sessions[h].open, s.lost = sessions[h].lost,
           s.loader = sessions[h].loader, sessions[h].components \subseteq s.components,
           sessions' = [sessions EXCEPT ![h] = s]
    PROVE  /\ sessions' \in Seq(Session) /\ DOMAIN sessions' = DOMAIN sessions
           /\ Len(sessions') = Len(sessions) /\ Len(sessions) <= Len(sessions')
           /\ sessions'[h] = s
           /\ \A g \in DOMAIN sessions :
                 /\ sessions'[g].open = sessions[g].open
                 /\ sessions'[g].lost = sessions[g].lost
                 /\ sessions'[g].loader = sessions[g].loader
                 /\ sessions[g].components \subseteq sessions'[g].components
<1>1. sessions \in Seq(Session) /\ Len(sessions) \in Nat
  BY ObjectTypes DEF Types
<1>2. /\ sessions' \in Seq(Session) /\ DOMAIN sessions' = DOMAIN sessions
      /\ Len(sessions') = Len(sessions) /\ sessions'[h] = s
      /\ \A g \in DOMAIN sessions \ {h} : sessions'[g] = sessions[g]
  BY <1>1, ElementSet
<1> QED
  BY <1>1, <1>2

\* One session is joined to another, or no longer.
LEMMA ParentKeeps ==
    ASSUME ClassesInv, NEW h \in DOMAIN sessions, NEW p \in Nat,
           sessions' = [sessions EXCEPT ![h].parent = p],
           UNCHANGED <<build, windows, stack, loaders, raw, early, dangling>>
    PROVE  ClassesInv'
<1> DEFINE s == [sessions[h] EXCEPT !.parent = p]
<1>1. /\ Types /\ stack \in Seq(Object) /\ sessions \in Seq(Session) /\ dangling \in BOOLEAN
      /\ sessions[h] \in Session
  BY ObjectTypes DEF ClassesInv, Types
<1>2. /\ s \in Session /\ s.open = sessions[h].open /\ s.lost = sessions[h].lost
      /\ s.loader = sessions[h].loader /\ sessions[h].components \subseteq s.components
  BY <1>1 DEF Session
<1>3. sessions' = [sessions EXCEPT ![h] = s]
  BY <1>1
<1> HIDE DEF s
<1>4. /\ sessions' \in Seq(Session) /\ DOMAIN sessions' = DOMAIN sessions
      /\ Len(sessions) <= Len(sessions')
      /\ \A g \in DOMAIN sessions :
            /\ sessions'[g].open = sessions[g].open
            /\ sessions'[g].lost = sessions[g].lost
            /\ sessions'[g].loader = sessions[g].loader
            /\ sessions[g].components \subseteq sessions'[g].components
  BY <1>1, <1>2, <1>3, SessionSet
<1> QED
  BY <1>1, <1>4, HandlesStand

LEMMA JoinKeeps ==
    ASSUME ClassesInv, NEW i \in DOMAIN stack, NEW c \in DOMAIN sessions, JoinSession(i, c)
    PROVE  ClassesInv'
<1>1. /\ sessions' = [sessions EXCEPT ![c].parent = stack[i].session]
      /\ UNCHANGED <<build, windows, stack, loaders, raw, early, dangling>>
  BY DEF JoinSession
<1>2. stack[i].session \in Nat
  BY ObjectTypes DEF ClassesInv
<1> QED
  BY <1>1, <1>2, ParentKeeps

LEMMA DisjoinKeeps ==
    ASSUME ClassesInv, NEW i \in DOMAIN stack, DisjoinSession(i)
    PROVE  ClassesInv'
<1>1. /\ sessions' = [sessions EXCEPT ![stack[i].session].parent = 0]
      /\ UNCHANGED <<build, windows, stack, loaders, raw, early, dangling>>
      /\ stack[i].session # 0
  BY DEF DisjoinSession, PassThrough
<1>2. stack[i].session \in DOMAIN sessions
  BY <1>1, ObjectTypes DEF ClassesInv
<1> QED
  BY <1>1, <1>2, ParentKeeps

LEMMA CloneKeeps ==
    ASSUME ClassesInv, NEW i \in DOMAIN stack, CloneSession(i)
    PROVE  ClassesInv'
<1> DEFINE h == stack[i].session
           k == sessions[h].impl
           p == IF Implementation[k].api < 20 THEN h ELSE 0
           new == NewSession(k, 0, p)
<1>1. /\ Types /\ stack \in Seq(Object) /\ sessions \in Seq(Session) /\ dangling \in BOOLEAN
      /\ Len(sessions) \in Nat /\ Len(loaders) \in Nat /\ DOMAIN sessions = 1..Len(sessions)
      /\ h \in Nat
  BY ObjectTypes DEF ClassesInv, Types
<1>2. /\ h # 0 /\ sessions' = Append(sessions, new) /\ raw' = raw \cup {Len(sessions) + 1}
      /\ UNCHANGED <<build, windows, stack, loaders, early, dangling>>
  BY DEF CloneSession, PassThrough
<1>3. k \in DOMAIN Implementation
  BY <1>1, <1>2, ObjectTypes
<1>4. p \in Nat
  BY <1>1
<1> HIDE DEF p, h, k
<1>5. new \in Session /\ new.open /\ new.lost = "no" /\ new.loader = 0
  BY <1>3, <1>4, NewSessionFields
<1> HIDE DEF new
<1>6. /\ sessions' \in Seq(Session) /\ Len(sessions') = Len(sessions) + 1
      /\ DOMAIN sessions' = 1..(Len(sessions) + 1) /\ sessions'[Len(sessions) + 1] = new
      /\ \A g \in DOMAIN sessions : sessions'[g] = sessions[g]
  BY <1>1, <1>2, <1>5, Appended
<1>7. DOMAIN sessions' \ DOMAIN sessions = {Len(sessions) + 1} /\ Len(sessions) <= Len(sessions')
  BY <1>1, <1>6
<1>8. \A g \in DOMAIN sessions' \ DOMAIN sessions :
         /\ g \in raw' /\ sessions'[g].open /\ sessions'[g].lost = "no"
         /\ sessions'[g].loader \in 0..Len(loaders)
  BY <1>1, <1>2, <1>5, <1>6, <1>7
<1>9. raw \subseteq raw' /\ raw' \subseteq raw \cup (DOMAIN sessions' \ DOMAIN sessions)
  BY <1>2, <1>7
<1>10. \A g \in DOMAIN sessions :
          /\ sessions'[g].open = sessions[g].open /\ sessions'[g].lost = sessions[g].lost
          /\ sessions'[g].loader = sessions[g].loader
          /\ sessions[g].components \subseteq sessions'[g].components
  BY <1>6
<1> QED
  BY <1>1, <1>2, <1>6, <1>7, <1>8, <1>9, <1>10, HandlesStand

LEMMA InitComponentKeeps ==
    ASSUME ClassesInv, NEW i \in DOMAIN stack, InitComponent(i)
    PROVE  ClassesInv'
<1> DEFINE h == stack[i].session
           c == stack[i].class
           p == PassThrough(h, Since(c))
           fresh == p = "runtime" /\ c \notin sessions[h].components
           s == [sessions[h] EXCEPT !.components = @ \cup {c}]
           o == [stack[i] EXCEPT !.on = @ \/ fresh]
<1>1. /\ Types /\ stack \in Seq(Object) /\ sessions \in Seq(Session) /\ dangling \in BOOLEAN
      /\ stack[i] \in Object
  BY ObjectTypes DEF ClassesInv, Types
<1>2. /\ IsComponent(i) /\ stack' = [stack EXCEPT ![i].on = @ \/ fresh]
      /\ sessions' = IF fresh THEN [sessions EXCEPT ![h].components = @ \cup {c}]
                     ELSE sessions
      /\ dangling' = (dangling \/ p = "freed")
      /\ UNCHANGED <<build, windows, loaders, raw, early>>
  BY DEF InitComponent
<1>3. dangling' \in BOOLEAN /\ (dangling' => dangling \/ early)
  BY <1>1, <1>2, FreedIsEarly
<1>4. fresh => h # 0 /\ h \in DOMAIN sessions /\ sessions[h] \in Session /\ c \in Component
  <2>1. p = "runtime" => h # 0
    BY DEF PassThrough
  <2> HIDE DEF p
  <2> QED BY <1>1, <1>2, <2>1, ObjectTypes DEF IsComponent
<1> HIDE DEF p
<1>5. /\ o \in Object /\ o.class = c /\ o.session = h /\ o.loader = stack[i].loader
      /\ o.twin = stack[i].twin /\ o.on = (stack[i].on \/ fresh)
  <2> HIDE DEF fresh
  <2> QED BY <1>1 DEF Object
<1>6. stack' = [stack EXCEPT ![i] = o]
  <2> HIDE DEF fresh
  <2> QED BY <1>1, <1>2
<1> HIDE DEF o
<1>7. /\ stack' \in Seq(Object) /\ DOMAIN stack' = DOMAIN stack /\ Len(stack') = Len(stack)
      /\ stack'[i] = o /\ \A j \in DOMAIN stack \ {i} : stack'[j] = stack[j]
  BY <1>1, <1>5, <1>6, ElementSet
<1>8. /\ sessions' \in Seq(Session) /\ DOMAIN sessions' = DOMAIN sessions
      /\ Len(sessions) <= Len(sessions')
      /\ \A g \in DOMAIN sessions :
            /\ sessions'[g].open = sessions[g].open /\ sessions'[g].lost = sessions[g].lost
            /\ sessions'[g].loader = sessions[g].loader
            /\ sessions[g].components \subseteq sessions'[g].components
      /\ fresh => c \in sessions'[h].components
  <2>1. CASE fresh
    <3>1. /\ s \in Session /\ s.open = sessions[h].open /\ s.lost = sessions[h].lost
          /\ s.loader = sessions[h].loader /\ sessions[h].components \subseteq s.components
          /\ c \in s.components
      <4> HIDE DEF h, c, fresh
      <4> QED BY <1>4, <2>1 DEF Session
    <3>2. sessions' = [sessions EXCEPT ![h] = s]
      BY <1>1, <1>2, <1>4, <2>1
    <3> HIDE DEF s, fresh, h, c
    <3> QED BY <1>1, <1>4, <2>1, <3>1, <3>2, SessionSet
  <2>2. CASE ~fresh
    <3> HIDE DEF fresh
    <3> QED BY <1>1, <1>2, <2>2, ObjectTypes
  <2> QED BY <2>1, <2>2
<1>9. \A j \in DOMAIN stack :
         /\ stack'[j].class = stack[j].class /\ stack'[j].session = stack[j].session
         /\ stack'[j].loader = stack[j].loader /\ stack'[j].twin = stack[j].twin
         /\ stack'[j].on =>
               \/ stack[j].on
               \/ /\ stack[j].session # 0
                  /\ stack[j].class \in sessions'[stack[j].session].components
  <2> HIDE DEF fresh
  <2> QED BY <1>4, <1>5, <1>7, <1>8
<1> QED
  BY <1>1, <1>2, <1>3, <1>7, <1>8, <1>9, HandlesStand

\* The program closes a clone of its own.
LEMMA CloseRawKeeps ==
    ASSUME ClassesInv, NEW h \in raw, CloseRaw(h)
    PROVE  ClassesInv'
<1>1. /\ sessions' = MFXClose(h) /\ raw' = raw \ {h}
      /\ early' = (early \/ \E j \in DOMAIN stack : IsComponent(j) /\ stack[j].session = h)
      /\ UNCHANGED <<build, windows, stack, loaders, dangling>>
  BY DEF CloseRaw
<1>2. /\ Types /\ Len(sessions) \in Nat /\ DOMAIN sessions = 1..Len(sessions)
      /\ h \in DOMAIN sessions /\ h \in 0..Len(sessions) /\ h # 0
      /\ early' \in BOOLEAN /\ (early => early')
  BY <1>1, ObjectTypes DEF ClassesInv, Types
<1>3. /\ sessions' \in Seq(Session) /\ DOMAIN sessions' = DOMAIN sessions
      /\ Len(sessions') = Len(sessions)
      /\ \A g \in DOMAIN sessions \ {h} : sessions'[g] = sessions[g]
      /\ \A g \in DOMAIN sessions :
            /\ sessions'[g].loader = sessions[g].loader
            /\ sessions'[g].open => /\ sessions[g].open
                                    /\ sessions'[g].components = sessions[g].components
            /\ sessions'[g].lost = "replaced" => sessions[g].lost = "replaced"
            /\ sessions[g].lost # "no" => sessions'[g].lost # "no"
      /\ sessions'[h].open => sessions'[h].lost # "no"
  BY <1>1, <1>2, CloseFacts
<1>4. \A j \in DOMAIN stack : /\ IsComponent(j)' <=> IsComponent(j)
                              /\ IsSession(j)' <=> IsSession(j)
                              /\ stack[j].session # 0 => stack[j].session \in DOMAIN sessions
                              /\ IsSession(j) => stack[j].session # h
  BY <1>1, <1>2, ObjectTypes DEF ClassesInv, Owned, IsComponent, IsSession
<1>5. Types'
  BY <1>1, <1>2, <1>3 DEF Types
<1>6. Owned'
  <2>1. \A g \in raw' : sessions'[g].open
    BY <1>1, <1>2, <1>3 DEF ClassesInv, Owned, Types
  <2>2. ASSUME NEW j \in DOMAIN stack, IsSession(j), stack[j].session # 0
        PROVE  /\ sessions'[stack[j].session].open /\ sessions'[stack[j].session].lost = "no"
               /\ stack[j].session \notin raw'
    <3>1. stack[j].session \in DOMAIN sessions \ {h}
      BY <1>4, <2>2
    <3> QED BY <1>1, <1>3, <2>2, <3>1 DEF ClassesInv, Owned
  <2> QED BY <1>1, <1>4, <2>1, <2>2 DEF ClassesInv, Owned
<1>7. Accounted'
  <2> SUFFICES ASSUME NEW g \in DOMAIN sessions
               PROVE  /\ sessions'[g].open =>
                            \/ \E j \in DOMAIN stack : IsSession(j) /\ stack[j].session = g
                            \/ g \in raw' \/ sessions'[g].lost # "no"
                      /\ build = "mfxload" => sessions'[g].lost # "replaced"
    BY <1>1, <1>3, <1>4 DEF Accounted
  <2>1. CASE g = h
    BY <1>2, <1>3, <2>1 DEF ClassesInv, Accounted
  <2>2. CASE g # h
    BY <1>1, <1>3, <2>2 DEF ClassesInv, Accounted
  <2> QED BY <2>1, <2>2
<1>8. MadeAfter' /\ Twins'
  BY <1>1, <1>4 DEF ClassesInv, MadeAfter, Twins
<1>9. FreedEarly'
  <2> SUFFICES ASSUME NEW j \in DOMAIN stack, IsComponent(j), stack[j].session # 0,
                      ~sessions'[stack[j].session].open
               PROVE  early'
    BY <1>1, <1>4 DEF FreedEarly
  <2>1. CASE stack[j].session = h
    BY <1>1, <2>1
  <2>2. CASE stack[j].session # h
    BY <1>2, <1>3, <1>4, <2>2 DEF ClassesInv, FreedEarly
  <2> QED BY <2>1, <2>2
<1>10. LoadersOwned'
  BY <1>1, <1>4 DEF ClassesInv, LoadersOwned
<1>11. DanglesOnlyIfClosedEarly'
  BY <1>1, <1>2 DEF ClassesInv, DanglesOnlyIfClosedEarly
<1>12. ComponentsKept'
  <2> SUFFICES ASSUME NEW j \in DOMAIN stack, IsComponent(j), stack[j].on, ~stack[j].twin,
                      sessions'[stack[j].session].open
               PROVE  stack[j].class \in sessions'[stack[j].session].components
    BY <1>1, <1>4 DEF ComponentsKept
  <2>1. stack[j].session \in DOMAIN sessions
    BY <1>4 DEF ClassesInv, Twins
  <2> QED BY <1>3, <2>1 DEF ClassesInv, ComponentsKept
<1> QED
  BY <1>5, <1>6, <1>7, <1>8, <1>9, <1>10, <1>11, <1>12 DEF ClassesInv

-----------------------------------------------------------------------------
(* Invariance                                                              *)

LEMMA InvAtInit == Init => ClassesInv
<1> SUFFICES ASSUME Init
             PROVE  ClassesInv
  OBVIOUS
<1>1. /\ stack = <<>> /\ sessions = <<>> /\ loaders = <<>> /\ raw = {}
      /\ early = FALSE /\ dangling = FALSE
      /\ build \in {"mfxload", "direct"} /\ windows \in BOOLEAN
  BY DEF Init
<1>2. /\ DOMAIN stack = {} /\ DOMAIN sessions = {} /\ DOMAIN loaders = {}
      /\ Len(stack) = 0 /\ MaxObjects \in Nat
  BY <1>1, ClassesAssumption
<1>3. Types
  <2>1. stack \in Seq(Object) /\ sessions \in Seq(Session) /\ loaders \in Seq(LoaderState)
    BY <1>1
  <2>2. Len(stack) <= MaxObjects
    BY <1>2
  <2>5. early \in BOOLEAN /\ dangling \in BOOLEAN
    BY <1>1
  <2>3. /\ raw \subseteq DOMAIN sessions
        /\ \A i \in DOMAIN stack : /\ stack[i].session \in 0..Len(sessions)
                                   /\ stack[i].loader \in 0..Len(loaders)
        /\ \A h \in DOMAIN sessions : sessions[h].loader \in 0..Len(loaders)
    <3>1. raw = {}
      BY <1>1
    <3> QED BY <1>2, <3>1
  <2>4. build \in {"mfxload", "direct"} /\ windows \in BOOLEAN
    BY <1>1
  <2> QED BY <2>1, <2>2, <2>3, <2>4, <2>5 DEF Types
<1>4. Owned /\ Accounted /\ MadeAfter /\ FreedEarly /\ Twins
  BY <1>1, <1>2 DEF Owned, Accounted, MadeAfter, FreedEarly, Twins
<1>5. LoadersOwned /\ DanglesOnlyIfClosedEarly /\ ComponentsKept
  BY <1>1, <1>2 DEF LoadersOwned, DanglesOnlyIfClosedEarly, ComponentsKept
<1> QED
  BY <1>3, <1>4, <1>5 DEF ClassesInv

LEMMA InvAtStep == ClassesInv /\ [Next]_vars => ClassesInv'
<1> SUFFICES ASSUME ClassesInv, [Next]_vars
             PROVE  ClassesInv'
  OBVIOUS
<1>1. ASSUME ConstructSession PROVE ClassesInv'
  BY <1>1, ConstructSessionKeeps
<1>2. ASSUME DestroyLast PROVE ClassesInv'
  BY <1>2, DestroyLastKeeps
<1>3. ASSUME NEW c \in Component, NEW h \in 0..Len(sessions), ConstructComponent(c, h)
      PROVE  ClassesInv'
  BY <1>3, ConstructComponentKeeps
<1>4. ASSUME NEW i \in DOMAIN stack, NEW r \in Request, NEW w \in BOOLEAN,
             InitSession(i, r, w)
      PROVE  ClassesInv'
  BY <1>4, InitSessionKeeps
<1>5. ASSUME NEW i \in DOMAIN stack, NEW k \in 0..Len(Implementation), NEW v \in BOOLEAN,
             DirectInit(i, k, v)
      PROVE  ClassesInv'
  BY <1>5, DirectInitKeeps
<1>6. ASSUME NEW i \in DOMAIN stack, NEW c \in DOMAIN sessions, JoinSession(i, c)
      PROVE  ClassesInv'
  BY <1>6, JoinKeeps
<1>7. ASSUME NEW i \in DOMAIN stack, CloseSession(i) PROVE ClassesInv'
  BY <1>7, CloseSessionKeeps
<1>8. ASSUME NEW i \in DOMAIN stack, InitComponent(i) PROVE ClassesInv'
  BY <1>8, InitComponentKeeps
<1>9. ASSUME NEW i \in DOMAIN stack, CloseComponent(i) PROVE ClassesInv'
  BY <1>9, CloseComponentKeeps
<1>10. ASSUME NEW i \in DOMAIN stack, Call(i) PROVE ClassesInv'
  BY <1>10, CallKeeps
<1>11. ASSUME NEW i \in DOMAIN stack, DisjoinSession(i) PROVE ClassesInv'
  BY <1>11, DisjoinKeeps
<1>12. ASSUME NEW i \in DOMAIN stack, CloneSession(i) PROVE ClassesInv'
  BY <1>12, CloneKeeps
<1>13. ASSUME NEW h \in raw, CloseRaw(h) PROVE ClassesInv'
  BY <1>13, CloseRawKeeps
<1>14. CASE UNCHANGED vars
  BY <1>14, StandsStill
<1> QED
  BY <1>1, <1>2, <1>3, <1>4, <1>5, <1>6, <1>7, <1>8, <1>9, <1>10, <1>11, <1>12, <1>13, <1>14
     DEF Next

\* ClassesInv is an invariant of the programs: no constructor, Init, Close, clone,
\* join or destructor breaks it.
THEOREM ClassesInvariance == Spec => []ClassesInv
<1> QED
  BY InvAtInit, InvAtStep, PTL DEF Spec

\* The open sessions have one holder each.
LEMMA EachHeld == ClassesInv => SessionsHeld
<1> SUFFICES ASSUME ClassesInv
             PROVE  SessionsHeld
  OBVIOUS
<1>1. ClassesTypeOK
  <2>1. Types
    BY DEF ClassesInv
  <2>2. \A i \in DOMAIN stack : stack[i].class \in Component \cup {"session"}
    BY <2>1, ObjectTypes DEF Object
  <2>3. \A h \in DOMAIN sessions : /\ sessions[h].impl \in DOMAIN Implementation
                                   /\ sessions[h].components \subseteq Component
    BY <2>1, ObjectTypes DEF Session
  <2> QED BY <2>1, <2>2, <2>3 DEF ClassesTypeOK, Types
<1>2. ASSUME NEW h \in DOMAIN sessions, sessions[h].open,
             NEW holders, holders = {i \in DOMAIN stack : IsSession(i) /\ stack[i].session = h}
      PROVE  /\ \/ Cardinality(holders) = 1 /\ h \notin raw /\ sessions[h].lost = "no"
                \/ holders = {} /\ (h \in raw \/ sessions[h].lost # "no")
             /\ build = "mfxload" => sessions[h].lost # "replaced"
  <2>1. build = "mfxload" => sessions[h].lost # "replaced"
    BY DEF ClassesInv, Accounted
  <2>2. CASE holders = {}
    <3>1. h \in raw \/ sessions[h].lost # "no"
      BY <1>2, <2>2 DEF ClassesInv, Accounted
    <3> QED BY <2>1, <2>2, <3>1
  <2>3. CASE holders # {}
    <3>1. PICK i \in DOMAIN stack : IsSession(i) /\ stack[i].session = h
      BY <1>2, <2>3
    <3>2. h # 0
      BY <1>2, ObjectTypes DEF ClassesInv
    <3>3. holders = {i}
      BY <1>2, <3>1, <3>2 DEF ClassesInv, Owned
    <3>4. Cardinality(holders) = 1
      BY <3>3, FS_Singleton
    <3>5. h \notin raw /\ sessions[h].lost = "no"
      BY <3>1, <3>2 DEF ClassesInv, Owned
    <3> QED BY <2>1, <3>4, <3>5
  <2> QED BY <2>2, <2>3
<1> QED
  BY <1>1, <1>2 DEF SessionsHeld

\* A loader that is loaded is the one of one object.
LEMMA EachLoaderHeld == ClassesInv => LoadersHeld
<1> SUFFICES ASSUME ClassesInv, NEW l \in DOMAIN loaders, loaders[l] = "loaded"
             PROVE  Cardinality({i \in DOMAIN stack :
                                    stack[i].loader = l /\ stack[i].session # 0}) = 1
  BY DEF LoadersHeld
<1>1. PICK i \in DOMAIN stack : stack[i].loader = l /\ stack[i].session # 0
  BY DEF ClassesInv, LoadersOwned
<1>2. l # 0
  BY ObjectTypes DEF ClassesInv
<1>3. {j \in DOMAIN stack : stack[j].loader = l /\ stack[j].session # 0} = {i}
  BY <1>1, <1>2 DEF ClassesInv, LoadersOwned
<1> QED
  BY <1>3, FS_Singleton

\* No session is lost without a trace: every open session is held by exactly one
\* session object, or by the program (a clone), or its MFXClose was refused, or, in
\* the build without loader, Init was called on the object that had it.
THEOREM EverySessionHeld == Spec => []SessionsHeld
<1> QED
  BY ClassesInvariance, EachHeld, PTL

\* With MFXVIDEO_CPP_ENABLE_MFXLOAD a loader that led to a session is that of exactly
\* one session object, which unloads it in its Close or its destructor.
THEOREM EveryLoaderHeld == Spec => []LoadersHeld
<1> QED
  BY ClassesInvariance, EachLoaderHeld, PTL

\* A handle that was freed is given to the dispatcher only if the program closed a
\* session before the component objects made from it: the order of construction,
\* which the destructors reverse, is enough otherwise.
THEOREM NoDanglingDestructor == Spec => []DanglesOnlyIfClosedEarly
<1>1. ClassesInv => DanglesOnlyIfClosedEarly
  BY DEF ClassesInv
<1> QED
  BY <1>1, ClassesInvariance, PTL

\* The destructor of an object that is the only one of its class with a handle is the
\* only one that takes the component of that session off.
THEOREM ComponentsStayOn == Spec => []ComponentsKept
<1>1. ClassesInv => ComponentsKept
  BY DEF ClassesInv
<1> QED
  BY <1>1, ClassesInvariance, PTL
=============================================================================
