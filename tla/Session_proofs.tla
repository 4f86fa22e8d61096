--------------------------- MODULE Session_proofs ---------------------------
(***************************************************************************)
(* Session: no call of the Linux dispatcher loses or shares a session of a *)
(* runtime, mixes the libraries it tries, or leaves anything behind when   *)
(* it fails; for every installation, any number of handles and sessions,   *)
(* and whatever the runtimes refuse.                                       *)
(***************************************************************************)
EXTENDS Session, FiniteSetTheorems, TLAPS

-----------------------------------------------------------------------------
(* The inductive invariant                                                 *)

RtSession == [file : File, parent : Nat]

\* What the application holds and what the runtimes hold are functions.
Tables ==
    /\ ctx \in [DOMAIN ctx -> Ctx]
    /\ rts \in [DOMAIN rts -> RtSession]

\* A session is joined to one that is still open: MFXClose is refused else.
\* Without it, closing a session that a failed call just opened could be refused.
ParentsOpen ==
    \A s \in DOMAIN rts : rts[s].parent = NoSession \/ rts[s].parent \in DOMAIN rts

\* A context has functions exactly as long as it has a session, and no version
\* without one; the path of a context is that of its library.
ContextsWhole ==
    \A h \in DOMAIN ctx :
        /\ ctx[h].rt = NoSession <=> ctx[h].table = NoFile
        /\ ctx[h].rt = NoSession => ctx[h].ver = 0
        /\ ctx[h].path \in {NoFile, ctx[h].lib}

\* SessionsOwned without sets of owners.
Held ==
    /\ \A s \in DOMAIN rts \ refused : \E h \in DOMAIN ctx : ctx[h].rt = s
    /\ \A g, h \in DOMAIN ctx : ctx[g].rt = ctx[h].rt /\ ctx[g].rt # NoSession => g = h
    /\ \A h \in DOMAIN ctx : ctx[h].rt # NoSession => ctx[h].rt \in DOMAIN rts \ refused

SessionInv == TypeOK /\ Tables /\ ParentsOpen /\ ContextsWhole /\ Held /\ OneLibrary

-----------------------------------------------------------------------------
(* The runtimes' sessions                                                  *)

\* A new session has a handle that no other session has.
LEMMA NewSessionIsNew ==
    ASSUME NEW R, IsFiniteSet(DOMAIN R)
    PROVE  NewSession(R) \in Nat \ {0} /\ NewSession(R) \notin DOMAIN R
<1> DEFINE n == Cardinality(DOMAIN R)
<1>1. n \in Nat
  BY FS_CardinalityType
<1> HIDE DEF n
<1>2. ~ (1..(n + 1) \subseteq DOMAIN R)
  <2> SUFFICES ASSUME 1..(n + 1) \subseteq DOMAIN R
               PROVE  FALSE
    OBVIOUS
  <2>1. Cardinality(1..(n + 1)) = n + 1
    BY <1>1, FS_Interval
  <2>2. Cardinality(1..(n + 1)) <= n
    BY FS_Subset DEF n
  <2> QED
    BY <1>1, <2>1, <2>2
<1>3. \E s \in 1..(n + 1) : s \notin DOMAIN R
  BY <1>2
<1>4. NewSession(R) = CHOOSE s \in 1..(n + 1) : s \notin DOMAIN R
  BY DEF NewSession, n
<1>5. NewSession(R) \in 1..(n + 1) /\ NewSession(R) \notin DOMAIN R
  BY <1>3, <1>4
<1> QED
  BY <1>1, <1>5

\* What a session that is opened does to the others: nothing.
LEMMA OpenedSessions ==
    ASSUME NEW R, NEW s, NEW file, NEW parent
    PROVE  /\ DOMAIN Opened(R, s, file, parent) = DOMAIN R \cup {s}
           /\ Opened(R, s, file, parent)[s] = [file |-> file, parent |-> parent]
           /\ \A t \in DOMAIN R : t # s => Opened(R, s, file, parent)[t] = R[t]
           /\ Opened(R, s, file, parent) =
                [t \in DOMAIN R \cup {s} |->
                    IF t = s THEN [file |-> file, parent |-> parent] ELSE R[t]]
BY DEF Opened, With

\* Closing what was just opened, wherever it was joined, restores the sessions:
\* no other session can be joined to it.
LEMMA OpenThenClose ==
    ASSUME NEW D, NEW R \in [D -> RtSession], NEW s, s \notin D, NEW file, NEW parent, parent # s,
           \A t \in D : R[t].parent # s
    PROVE  RtClose(Opened(R, s, file, parent), s) = R
<1> DEFINE O == Opened(R, s, file, parent)
<1>1. /\ DOMAIN O = D \cup {s}
      /\ O[s].parent = parent
      /\ \A t \in D : O[t] = R[t]
  BY DEF Opened, With
<1> HIDE DEF O
<1>2. Children(O, s) = {}
  BY <1>1 DEF Children
<1>3. {u \in DOMAIN O : u # s \/ Children(O, s) # {}} = D
  BY <1>1, <1>2
<1>4. RtClose(O, s) = [t \in D |-> R[t]]
  BY <1>1, <1>3 DEF RtClose
<1> QED
  BY <1>4 DEF O

\* Closing the null session, as Close does for an attempt that opened none.
LEMMA CloseNone ==
    ASSUME NEW D, NEW R \in [D -> RtSession], NoSession \notin D
    PROVE  RtClose(R, NoSession) = R
<1>1. {u \in D : u # NoSession \/ Children(R, NoSession) # {}} = D
  OBVIOUS
<1> QED
  BY <1>1 DEF RtClose

-----------------------------------------------------------------------------
(* LoaderCtx::Init                                                         *)

\* The states of a search: the context so far, the runtimes' sessions, success.
Sessions == UNION {[D -> RtSession] : D \in SUBSET Nat}
Attempt == [c : Ctx, rts : Sessions, ok : BOOLEAN]

\* The requests of MFXInitEx, MFXInitEx2 and of cloning a 1.x session.
Requests == [ver : Nat, clone : {FALSE}, accept : SUBSET File, answer : SUBSET File]

\* Table2 of the libraries tried so far: for a version below 2 it is never set.
\* OneLibrary needs it: the functions of version 2 are not reset by Close.
Table2Left(t, r) == Modern(r.ver) \/ t = NoFile

\* The search so far opened nothing, and left nothing but the functions of
\* version 2 of the last library it tried.
Searching(w, path, r) ==
    /\ w \in Attempt /\ ~w.ok /\ w.rts = rts
    /\ w.c.lib = NoFile /\ w.c.rt = NoSession /\ w.c.ver = 0 /\ w.c.table = NoFile
    /\ w.c.path = path /\ Table2Left(w.c.table2, r)

\* The search ended with a file.
Found(w, path, file, r) ==
    /\ w \in Attempt /\ w.ok
    /\ w.rts = Opened(rts, NewSession(rts), file, NoSession)
    /\ w.c.lib = file /\ w.c.rt = NewSession(rts) /\ w.c.ver = Reports(file, r.ver)
    /\ w.c.table = file /\ w.c.table2 \in {NoFile, file} /\ w.c.path = path

\* What a library must do to be taken.
Suits(file, r) ==
    /\ file \in r.accept \cap r.answer
    /\ MissingFrom[file] > r.ver
    /\ Reports(file, r.ver) >= r.ver

\* A request has a version and names runtimes, and is not that of a clone.
LEMMA RequestFields ==
    ASSUME NEW r \in Requests
    PROVE  /\ r.ver \in Nat /\ r.clone = FALSE
           /\ r.accept \subseteq File /\ r.answer \subseteq File
BY DEF Requests

\* Constants of a file, for the leaves that need their types.
LEMMA FileTypes ==
    ASSUME NEW file \in File
    PROVE  /\ file # NoFile
           /\ MissingFrom[file] \in Nat \ {0}
           /\ ImplOf[file] \in Nat
           /\ ApiVer[file] \in Nat /\ LegacyVer[file] \in Nat
           /\ \A v : Reports(file, v) \in Nat
<1>1. file # NoFile /\ MissingFrom[file] \in Nat \ {0} /\ ImplOf[file] \in Nat
  BY SessionAssumption
<1>2. ApiVer[file] \in Nat /\ LegacyVer[file] \in 1000..1999
  BY SessionAssumption
<1>3. LegacyVer[file] \in Nat
  <2>1. \A a, b \in Nat : \A v \in a..b : v \in Nat
    OBVIOUS
  <2> QED
    BY <1>2, <2>1, SMTT(30)
<1>4. \A v : Reports(file, v) = ApiVer[file] \/ Reports(file, v) = LegacyVer[file]
  BY DEF Reports
<1> QED
  BY <1>1, <1>2, <1>3, <1>4

\* What a new session meets: the invariant's facts about the runtimes.
LEMMA FreshSession ==
    ASSUME SessionInv
    PROVE  /\ NewSession(rts) \in Nat \ {0} /\ NewSession(rts) \notin DOMAIN rts
           /\ rts \in Sessions /\ rts \in [DOMAIN rts -> RtSession]
           /\ NoSession \notin DOMAIN rts
           /\ \A u \in DOMAIN rts : rts[u].parent # NewSession(rts)
<1>1. /\ NewSession(rts) \in Nat \ {0} /\ NewSession(rts) \notin DOMAIN rts
      /\ DOMAIN rts \in SUBSET Nat /\ rts \in [DOMAIN rts -> RtSession]
  BY NewSessionIsNew DEF SessionInv, TypeOK, Tables
<1>2. NoSession \notin DOMAIN rts
  BY DEF SessionInv, TypeOK, NoSession
<1>3. rts \in Sessions
  BY <1>1 DEF Sessions
<1>4. \A u \in DOMAIN rts : rts[u].parent # NewSession(rts)
  BY <1>1 DEF SessionInv, ParentsOpen, NoSession
<1> QED
  BY <1>1, <1>2, <1>3, <1>4

\* A new session is a session, whatever it is joined to.
LEMMA OpenedType ==
    ASSUME NEW R \in Sessions, NEW s \in Nat, NEW file \in File, NEW parent \in Nat
    PROVE  Opened(R, s, file, parent) \in Sessions
<1>1. PICK D \in SUBSET Nat : R \in [D -> RtSession]
  BY DEF Sessions
<1>2. [file |-> file, parent |-> parent] \in RtSession
  BY DEF RtSession
<1>3. Opened(R, s, file, parent) \in [D \cup {s} -> RtSession]
  BY <1>1, <1>2 DEF Opened, With
<1>4. D \cup {s} \in SUBSET Nat
  BY <1>1
<1> QED
  BY <1>3, <1>4 DEF Sessions

\* Close resets a context but for its library, the functions of version 2 and
\* the path.
LEMMA CloseFields ==
    ASSUME NEW w \in Attempt, w.c.table = NoFile \/ RtClose(w.rts, w.c.rt) \in Sessions
    PROVE  /\ Close(w) \in Attempt
           /\ Close(w).ok = w.ok
           /\ Close(w).rts = IF w.c.table = NoFile THEN w.rts ELSE RtClose(w.rts, w.c.rt)
           /\ Close(w).c.rt = NoSession /\ Close(w).c.ver = 0 /\ Close(w).c.table = NoFile
           /\ Close(w).c.lib = w.c.lib /\ Close(w).c.table2 = w.c.table2
           /\ Close(w).c.path = w.c.path
BY DEF Close, Attempt, Ctx, NoSession

\* The functions of a library, looked up when it is tried.
LEMMA LoadTableFields ==
    ASSUME NEW w \in Attempt, NEW file \in File, NEW r
    PROVE  LET n == LoadTable(w, file, r)
           IN  /\ n \in Attempt /\ n.ok = w.ok /\ n.rts = w.rts
               /\ n.c.lib = w.c.lib /\ n.c.rt = w.c.rt /\ n.c.ver = w.c.ver
               /\ n.c.path = w.c.path /\ n.c.table = file
               /\ n.c.table2 = IF Modern(r.ver) THEN file ELSE w.c.table2
BY DEF LoadTable, Attempt, Ctx

\* The session of a library, with what it reports.
LEMMA StartSessionFields ==
    ASSUME NEW w \in Attempt, NEW file \in File, NEW r,
           NewSession(w.rts) \in Nat, Opened(w.rts, NewSession(w.rts), file, NoSession) \in Sessions
    PROVE  LET n == StartSession(w, file, r)
           IN  /\ n \in Attempt /\ n.ok = w.ok
               /\ n.rts = Opened(w.rts, NewSession(w.rts), file, NoSession)
               /\ n.c.lib = w.c.lib /\ n.c.rt = NewSession(w.rts)
               /\ n.c.ver = Reports(file, r.ver)
               /\ n.c.path = w.c.path /\ n.c.table = w.c.table /\ n.c.table2 = w.c.table2
<1>1. Reports(file, r.ver) \in Nat /\ ImplOf[file] \in Nat
  BY FileTypes
<1> QED
  BY <1>1 DEF StartSession, Attempt, Ctx

\* The library handle that is kept.
LEMMA TakenFields ==
    ASSUME NEW w \in Attempt, NEW file \in File
    PROVE  LET n == Taken(w, file)
           IN  /\ n \in Attempt /\ n.ok /\ n.rts = w.rts
               /\ n.c.lib = file /\ n.c.rt = w.c.rt /\ n.c.ver = w.c.ver
               /\ n.c.path = w.c.path /\ n.c.table = w.c.table /\ n.c.table2 = w.c.table2
BY DEF Taken, Attempt, Ctx

\* A round of the search opens a session with a library that suits and goes on
\* with one that does not, however that attempt failed.
LEMMA TryOutcome ==
    ASSUME SessionInv, NEW r \in Requests, NEW path, NEW file \in File, NEW w,
           Searching(w, path, r)
    PROVE  IF Suits(file, r) THEN Found(Try(w, file, r), path, file, r)
           ELSE Searching(Try(w, file, r), path, r)
<1> DEFINE s == NewSession(rts)
           R == Opened(rts, s, file, NoSession)
           tables == LoadTable(w, file, r)
           started == StartSession(tables, file, r)
           taken == Taken(started, file)
<1>1. r.ver \in Nat /\ r.clone = FALSE
  BY RequestFields
<1>2. /\ s \in Nat \ {0} /\ s \notin DOMAIN rts /\ NoSession \notin DOMAIN rts
      /\ rts \in Sessions /\ rts \in [DOMAIN rts -> RtSession]
      /\ \A u \in DOMAIN rts : rts[u].parent # s
  BY FreshSession
<1>3. file # NoFile /\ MissingFrom[file] \in Nat
  BY FileTypes
<1>4. R \in Sessions
  BY <1>2, OpenedType DEF NoSession
<1>5. RtClose(R, s) = rts
  BY <1>2, OpenThenClose DEF NoSession
<1>6. RtClose(rts, NoSession) = rts
  BY <1>2, CloseNone
<1>7. w \in Attempt /\ ~w.ok /\ w.rts = rts
  BY DEF Searching
<1> HIDE DEF s, R, tables, started, taken
<1>8. /\ tables \in Attempt /\ ~tables.ok /\ tables.rts = rts
      /\ tables.c.lib = NoFile /\ tables.c.rt = NoSession /\ tables.c.table = file
      /\ tables.c.path = path /\ tables.c.table2 \in {NoFile, file}
      /\ Table2Left(tables.c.table2, r)
  BY <1>7, LoadTableFields DEF tables, Searching, Table2Left
<1>9. /\ started \in Attempt /\ ~started.ok /\ started.rts = R
      /\ started.c.lib = NoFile /\ started.c.rt = s /\ started.c.table = file
      /\ started.c.ver = Reports(file, r.ver)
      /\ started.c.path = path /\ started.c.table2 = tables.c.table2
  BY <1>2, <1>4, <1>8, StartSessionFields DEF started, s, R
<1>10. Found(taken, path, file, r)
  BY <1>8, <1>9, TakenFields DEF taken, Found, s, R
<1>11. Searching(Close(tables), path, r)
  BY <1>2, <1>3, <1>6, <1>8, CloseFields DEF Searching
<1>12. Searching(Close(started), path, r)
  BY <1>2, <1>3, <1>5, <1>8, <1>9, CloseFields DEF Searching
<1>13. Attempted(w, file, r) = IF StartsSession(file, r) THEN started ELSE tables
  BY DEF Attempted, tables, started
<1>14. Try(w, file, r) = IF Succeeds(file, r) THEN Taken(Attempted(w, file, r), file)
                         ELSE Close(Attempted(w, file, r))
  BY <1>3, <1>7 DEF Try
<1>15. Succeeds(file, r) <=> Suits(file, r)
  BY <1>1 DEF Succeeds, Suits
<1>16. Suits(file, r) => StartsSession(file, r)
  BY <1>1 DEF StartsSession, Suits
<1>17. CASE Suits(file, r)
  BY <1>10, <1>13, <1>14, <1>15, <1>16, <1>17 DEF taken
<1>18. CASE ~Suits(file, r)
  BY <1>11, <1>12, <1>13, <1>14, <1>15, <1>18
<1> QED
  BY <1>17, <1>18

\* The places searched, in their order.
LEMMA Places ==
    ASSUME NEW type
    PROVE  /\ DOMAIN SearchOrder = 1..6
           /\ \A place : Candidate(type, place) = NoFile \/ Wanted(type, place)
           /\ \A k \in 1..6 : /\ SearchOrder[k] \in Place
                              /\ Candidate(type, SearchOrder[k]) \in File \cup {NoFile}
<1>1. DOMAIN SearchOrder = 1..6
  BY DEF SearchOrder
<1>2. \A k \in 1..6 : SearchOrder[k] \in Place
  BY DEF SearchOrder, Place
<1>3. \A place \in Place : Installed[place] \in File \cup {NoFile}
  BY SessionAssumption
<1> QED
  BY <1>1, <1>2, <1>3 DEF Candidate

\* After k rounds: the first place that takes the request is where the search
\* ended, or there was none among them.
SearchedTo(k, w, type, r) ==
    \/ /\ \A i \in 1..k : ~Takes(type, r, SearchOrder[i])
       /\ Searching(w, NoFile, r)
    \/ \E j \in 1..k :
          /\ Takes(type, r, SearchOrder[j])
          /\ \A i \in 1..(j - 1) : ~Takes(type, r, SearchOrder[i])
          /\ Found(w, NoFile, Candidate(type, SearchOrder[j]), r)

\* One more round of the search.
LEMMA NextPlace ==
    ASSUME SessionInv, NEW r \in Requests, NEW type, NEW k \in 1..6, NEW w,
           SearchedTo(k - 1, w, type, r)
    PROVE  SearchedTo(k, Try(w, Candidate(type, SearchOrder[k]), r), type, r)
<1> DEFINE file == Candidate(type, SearchOrder[k])
<1>1. file \in File \cup {NoFile}
  BY Places
<1>2. Takes(type, r, SearchOrder[k]) <=> file # NoFile /\ Suits(file, r)
  BY DEF Takes, Suits
<1> HIDE DEF file
<1>3. CASE \E j \in 1..(k - 1) :
             /\ Takes(type, r, SearchOrder[j])
             /\ \A i \in 1..(j - 1) : ~Takes(type, r, SearchOrder[i])
             /\ Found(w, NoFile, Candidate(type, SearchOrder[j]), r)
  <2>1. w.ok
    BY <1>3 DEF Found
  <2>2. Try(w, file, r) = w
    BY <2>1 DEF Try
  <2> QED
    BY <1>3, <2>2 DEF SearchedTo, file
<1>4. CASE /\ \A i \in 1..(k - 1) : ~Takes(type, r, SearchOrder[i])
           /\ Searching(w, NoFile, r)
  <2>1. CASE Takes(type, r, SearchOrder[k])
    <3>1. Found(Try(w, file, r), NoFile, file, r)
      BY <1>1, <1>2, <1>4, <2>1, TryOutcome
    <3> QED
      BY <1>4, <2>1, <3>1 DEF SearchedTo, file
  <2>2. CASE ~Takes(type, r, SearchOrder[k])
    <3>1. \A i \in 1..k : ~Takes(type, r, SearchOrder[i])
      BY <1>4, <2>2
    <3>2. CASE file = NoFile
      <4>1. Try(w, file, r) = w
        BY <3>2 DEF Try
      <4> QED
        BY <1>4, <3>1, <4>1 DEF SearchedTo, file
    <3>3. CASE file # NoFile
      <4>1. Searching(Try(w, file, r), NoFile, r)
        BY <1>1, <1>2, <1>4, <2>2, <3>3, TryOutcome
      <4> QED
        BY <3>1, <4>1 DEF SearchedTo, file
    <3> QED
      BY <3>2, <3>3
  <2> QED
    BY <2>1, <2>2
<1> QED
  BY <1>3, <1>4 DEF SearchedTo

\* A search begins with nothing.
LEMMA BlankSearches ==
    ASSUME SessionInv, NEW r \in Requests, NEW path \in File \cup {NoFile}
    PROVE  Searching(Blank(path), path, r)
<1>1. [EmptyCtx EXCEPT !.path = path] \in Ctx
  BY DEF EmptyCtx, Ctx, NoSession
<1>2. /\ [EmptyCtx EXCEPT !.path = path].lib = NoFile
      /\ [EmptyCtx EXCEPT !.path = path].rt = NoSession
      /\ [EmptyCtx EXCEPT !.path = path].ver = 0
      /\ [EmptyCtx EXCEPT !.path = path].table = NoFile
      /\ [EmptyCtx EXCEPT !.path = path].table2 = NoFile
      /\ [EmptyCtx EXCEPT !.path = path].path = path
  BY DEF EmptyCtx
<1>3. Blank(path) \in Attempt
  BY <1>1, FreshSession DEF Blank, Attempt
<1> QED
  BY <1>2, <1>3 DEF Blank, Searching, Table2Left

\* LoaderCtx::Init ends with the first library of the search order that takes the
\* request, or with none if no library does.
LEMMA SearchOutcome ==
    ASSUME SessionInv, NEW r \in Requests, NEW type
    PROVE  LET file == FirstTaking(type, r)
               w == SearchLibs(type, r)
           IN  \/ file = NoFile /\ Searching(w, NoFile, r)
               \/ file \in File /\ Suits(file, r) /\ Found(w, NoFile, file, r)
<1> DEFINE file(k) == Candidate(type, SearchOrder[k])
           w1 == Try(Blank(NoFile), file(1), r)
           w2 == Try(w1, file(2), r)
           w3 == Try(w2, file(3), r)
           w4 == Try(w3, file(4), r)
           w5 == Try(w4, file(5), r)
           w6 == Try(w5, file(6), r)
           places == {k \in DOMAIN SearchOrder : Takes(type, r, SearchOrder[k])}
           first == CHOOSE k \in places : \A j \in places : k <= j
<1> HIDE DEF w1, w2, w3, w4, w5, w6
<1>1. SearchedTo(0, Blank(NoFile), type, r)
  BY BlankSearches DEF SearchedTo
<1>2. SearchedTo(1, w1, type, r)
  BY <1>1, NextPlace DEF w1
<1>3. SearchedTo(2, w2, type, r)
  BY <1>2, NextPlace DEF w2
<1>4. SearchedTo(3, w3, type, r)
  BY <1>3, NextPlace DEF w3
<1>5. SearchedTo(4, w4, type, r)
  BY <1>4, NextPlace DEF w4
<1>6. SearchedTo(5, w5, type, r)
  BY <1>5, NextPlace DEF w5
<1>7. SearchedTo(6, w6, type, r)
  BY <1>6, NextPlace DEF w6
<1>8. SearchLibs(type, r) = w6
  BY DEF SearchLibs, SearchOrder, w1, w2, w3, w4, w5, w6
<1>9. FirstTaking(type, r) = IF places = {} THEN NoFile ELSE file(first)
  BY DEF FirstTaking
<1>10. places = {k \in 1..6 : Takes(type, r, SearchOrder[k])}
  BY Places
<1>11. CASE /\ \A i \in 1..6 : ~Takes(type, r, SearchOrder[i])
            /\ Searching(w6, NoFile, r)
  BY <1>8, <1>9, <1>10, <1>11
<1>12. CASE \E j \in 1..6 :
              /\ Takes(type, r, SearchOrder[j])
              /\ \A i \in 1..(j - 1) : ~Takes(type, r, SearchOrder[i])
              /\ Found(w6, NoFile, file(j), r)
  <2>1. PICK j \in 1..6 : /\ Takes(type, r, SearchOrder[j])
                          /\ \A i \in 1..(j - 1) : ~Takes(type, r, SearchOrder[i])
                          /\ Found(w6, NoFile, file(j), r)
    BY <1>12
  <2>2. j \in places /\ \A i \in places : j <= i
    BY <1>10, <2>1
  <2>3. first = j
    <3>1. first \in places /\ \A i \in places : first <= i
      BY <2>2
    <3> QED
      BY <1>10, <2>2, <3>1
  <2>4. file(j) \in File /\ Suits(file(j), r)
    BY <2>1, Places DEF Takes, Suits
  <2> QED
    BY <1>8, <1>9, <2>1, <2>2, <2>3, <2>4
<1> QED
  BY <1>7, <1>11, <1>12 DEF SearchedTo

-----------------------------------------------------------------------------
(* What the calls do to the invariant                                      *)

Statuses == {"NONE", "ERROR", "UNDEFINED_BEHAVIOR"}

\* A call that changes no table.
LEMMA TablesStay ==
    ASSUME SessionInv, ctx' = ctx, rts' = rts, refused' = refused,
           fault' \in BOOLEAN, ret' \in Statuses
    PROVE  SessionInv'
BY DEF SessionInv, TypeOK, Tables, ParentsOpen, ContextsWhole, Held, OneLibrary, Statuses

\* A handle is released to the application with a new session, joined to one
\* that is open or to none.
LEMMA SessionAdded ==
    ASSUME SessionInv, NEW h \in Handle \ DOMAIN ctx, NEW c \in Ctx, NEW file \in File,
           NEW parent \in {NoSession} \cup DOMAIN rts,
           c.lib = file, c.table = file, c.table2 \in {NoFile, file}, c.path \in {NoFile, file},
           c.rt = NewSession(rts),
           ctx' = With(ctx, h, c), rts' = Opened(rts, NewSession(rts), file, parent),
           refused' = refused, fault' \in BOOLEAN, ret' \in Statuses
    PROVE  SessionInv'
<1> DEFINE s == NewSession(rts)
<1>1. /\ s \in Nat \ {0} /\ s \notin DOMAIN rts /\ NoSession \notin DOMAIN rts
      /\ \A u \in DOMAIN rts : rts[u].parent # s
  BY FreshSession
<1>2. /\ DOMAIN ctx \subseteq Handle /\ ctx \in [DOMAIN ctx -> Ctx]
      /\ DOMAIN rts \subseteq Nat \ {0} /\ rts \in [DOMAIN rts -> RtSession]
      /\ IsFiniteSet(DOMAIN rts) /\ refused \subseteq DOMAIN rts
  BY DEF SessionInv, TypeOK, Tables
<1>3. /\ DOMAIN ctx' = DOMAIN ctx \cup {h} /\ ctx'[h] = c
      /\ \A g \in DOMAIN ctx : ctx'[g] = ctx[g]
      /\ ctx' \in [DOMAIN ctx \cup {h} -> Ctx]
  BY <1>2 DEF With
<1>4. parent \in Nat /\ [file |-> file, parent |-> parent] \in RtSession
  BY <1>2 DEF RtSession, NoSession
<1>5. /\ DOMAIN rts' = DOMAIN rts \cup {s} /\ rts'[s] = [file |-> file, parent |-> parent]
      /\ \A t \in DOMAIN rts : rts'[t] = rts[t]
      /\ rts' \in [DOMAIN rts \cup {s} -> RtSession]
  BY <1>1, <1>2, <1>4 DEF Opened, With
<1>6. IsFiniteSet(DOMAIN rts')
  BY <1>2, <1>5, FS_AddElement
<1> HIDE DEF s
<1>7. TypeOK'
  BY <1>1, <1>2, <1>3, <1>5, <1>6 DEF TypeOK, Statuses, RtSession
<1>8. Tables'
  BY <1>3, <1>5 DEF Tables
<1>9. ParentsOpen'
  BY <1>5 DEF SessionInv, ParentsOpen
<1>10. file # NoFile
  BY FileTypes
<1>11. ContextsWhole'
  BY <1>1, <1>3, <1>10 DEF SessionInv, ContextsWhole, s, NoSession
<1>12. \A g \in DOMAIN ctx : ctx[g].rt # s
  BY <1>1 DEF SessionInv, Held, NoSession
<1>13. Held'
  BY <1>1, <1>2, <1>3, <1>5, <1>12 DEF SessionInv, Held, s
<1>14. OneLibrary'
  BY <1>1, <1>3, <1>5 DEF SessionInv, Held, OneLibrary, s
<1> QED
  BY <1>7, <1>8, <1>9, <1>11, <1>13, <1>14 DEF SessionInv

\* A runtime joins two open sessions, or separates one.
LEMMA ParentSet ==
    ASSUME SessionInv, NEW p \in {NoSession} \cup DOMAIN rts, NEW s,
           rts' = Joined(rts, p, s), ctx' = ctx, refused' = refused,
           fault' \in BOOLEAN, ret' \in Statuses
    PROVE  SessionInv'
<1>1. /\ DOMAIN rts \subseteq Nat \ {0} /\ rts \in [DOMAIN rts -> RtSession] /\ p \in Nat
  BY DEF SessionInv, TypeOK, Tables, NoSession
<1>2. /\ DOMAIN rts' = DOMAIN rts
      /\ \A t \in DOMAIN rts : /\ rts'[t].file = rts[t].file
                               /\ rts'[t].parent \in {rts[t].parent, p}
      /\ rts' \in [DOMAIN rts -> RtSession]
  BY <1>1 DEF Joined, RtSession
<1>3. TypeOK' /\ Tables'
  BY <1>1, <1>2 DEF SessionInv, TypeOK, Tables, Statuses, RtSession
<1>4. ParentsOpen'
  BY <1>2 DEF SessionInv, ParentsOpen
<1>5. ContextsWhole' /\ Held' /\ OneLibrary'
  BY <1>2 DEF SessionInv, ContextsWhole, Held, OneLibrary
<1> QED
  BY <1>3, <1>4, <1>5 DEF SessionInv

\* What a call must leave: the invariant, and nothing behind a failure.
NothingLeft == ret' = "ERROR" => ctx' = ctx /\ rts' = rts

\* A search that failed, or was taken back, changes no table.
LEMMA ReturnFailed ==
    ASSUME SessionInv, NEW h, NEW w, ~w.ok, w.rts = rts, Return(h, w),
           refused' = refused, fault' = fault
    PROVE  SessionInv' /\ NothingLeft
<1>1. ctx' = ctx /\ rts' = rts /\ ret' = "ERROR"
  BY DEF Return
<1>2. fault' \in BOOLEAN
  BY DEF SessionInv, TypeOK
<1> QED
  BY <1>1, <1>2, TablesStay DEF Statuses, NothingLeft

\* A search that succeeded hands out its session.
LEMMA ReturnOpened ==
    ASSUME SessionInv, NEW h, FreeHandle(h), NEW w \in Attempt, NEW file \in File,
           NEW parent \in {NoSession} \cup DOMAIN rts,
           w.ok, w.rts = Opened(rts, NewSession(rts), file, parent),
           w.c.rt = NewSession(rts), w.c.lib = file, w.c.table = file,
           w.c.table2 \in {NoFile, file}, w.c.path \in {NoFile, file},
           Return(h, w), refused' = refused, fault' = fault
    PROVE  SessionInv' /\ NothingLeft
<1>1. ctx' = With(ctx, h, w.c) /\ rts' = w.rts /\ ret' = "NONE"
  BY DEF Return
<1>2. fault' \in BOOLEAN
  BY DEF SessionInv, TypeOK
<1>3. h \in Handle \ DOMAIN ctx
  BY DEF FreeHandle
<1>4. w.c \in Ctx
  BY DEF Attempt
<1>5. SessionInv'
  BY <1>1, <1>2, <1>3, <1>4, SessionAdded DEF Statuses
<1> QED
  BY <1>1, <1>5 DEF NothingLeft

\* The same for a search by MFXInitEx and MFXInitEx2, whose session is joined to none.
LEMMA ReturnFound ==
    ASSUME SessionInv, NEW h, FreeHandle(h), NEW w, NEW r, NEW file \in File,
           NEW path \in {NoFile, file}, Found(w, path, file, r),
           Return(h, w), refused' = refused, fault' = fault
    PROVE  SessionInv' /\ NothingLeft
BY ReturnOpened DEF Found

\* MFXInitEx: every outcome of the search keeps the invariant.
LEMMA MFXInitExGood ==
    ASSUME SessionInv, NEW h \in Handle, NEW t, NEW v \in Nat,
           NEW accept \in SUBSET File, NEW answer \in SUBSET File,
           MFXInitEx(h, t, v, accept, answer)
    PROVE  SessionInv' /\ NothingLeft
<1> DEFINE r == Request(v, FALSE, accept, answer)
           w == SearchLibs(t, r)
<1>1. r \in Requests
  BY DEF Requests, Request
<1>2. FreeHandle(h) /\ Return(h, w) /\ refused' = refused /\ fault' = fault
  BY DEF MFXInitEx
<1> HIDE DEF r, w
<1>3. \/ Searching(w, NoFile, r)
      \/ FirstTaking(t, r) \in File /\ Found(w, NoFile, FirstTaking(t, r), r)
  BY <1>1, SearchOutcome DEF w
<1>4. CASE Searching(w, NoFile, r)
  BY <1>2, <1>4, ReturnFailed DEF Searching
<1>5. CASE FirstTaking(t, r) \in File /\ Found(w, NoFile, FirstTaking(t, r), r)
  BY <1>2, <1>5, ReturnFound
<1> QED
  BY <1>3, <1>4, <1>5

\* MFXInitEx2: so does the one library it tries.
LEMMA MFXInitEx2Good ==
    ASSUME SessionInv, NEW h \in Handle, NEW file \in File, NEW v \in Nat,
           NEW accept \in SUBSET File, NEW answer \in SUBSET File,
           MFXInitEx2(h, file, v, accept, answer)
    PROVE  SessionInv' /\ NothingLeft
<1> DEFINE r == Request(v, FALSE, accept, answer)
           w == Try(Blank(file), file, r)
<1>1. r \in Requests
  BY DEF Requests, Request
<1>2. FreeHandle(h) /\ Return(h, w) /\ refused' = refused /\ fault' = fault
  BY DEF MFXInitEx2, LoadLib
<1> HIDE DEF r, w
<1>3. Searching(w, file, r) \/ Found(w, file, file, r)
  BY <1>1, BlankSearches, TryOutcome DEF w
<1>4. CASE Searching(w, file, r)
  BY <1>2, <1>4, ReturnFailed DEF Searching
<1>5. CASE Found(w, file, file, r)
  BY <1>2, <1>5, ReturnFound
<1> QED
  BY <1>3, <1>4, <1>5

-----------------------------------------------------------------------------
(* MFXClose                                                                *)

\* A runtime closes the session, or keeps everything as it is.
LEMMA RtCloseOutcome ==
    ASSUME NEW D \in SUBSET Nat, NEW R \in [D -> RtSession], NEW s
    PROVE  /\ Children(R, s) # {} => RtClose(R, s) = R
           /\ Children(R, s) = {} =>
                /\ DOMAIN RtClose(R, s) = D \ {s}
                /\ \A t \in D \ {s} : RtClose(R, s)[t] = R[t]
                /\ RtClose(R, s) \in [D \ {s} -> RtSession]
           /\ RtClose(R, s) \in Sessions
<1>1. CASE Children(R, s) # {}
  <2>1. {u \in D : u # s \/ Children(R, s) # {}} = D
    BY <1>1
  <2>2. RtClose(R, s) = R
    BY <2>1 DEF RtClose
  <2> QED
    BY <1>1, <2>2 DEF Sessions
<1>2. CASE Children(R, s) = {}
  <2>1. {u \in D : u # s \/ Children(R, s) # {}} = D \ {s}
    BY <1>2
  <2>2. RtClose(R, s) = [t \in D \ {s} |-> R[t]]
    BY <2>1 DEF RtClose
  <2>3. D \ {s} \in SUBSET Nat /\ RtClose(R, s) \in [D \ {s} -> RtSession]
    BY <2>2
  <2> QED
    BY <1>2, <2>2, <2>3 DEF Sessions
<1> QED
  BY <1>1, <1>2

\* MFXClose: the handle goes, or stays without session if the runtime refuses.
LEMMA MFXCloseGood ==
    ASSUME SessionInv, NEW h, MFXClose(h)
    PROVE  SessionInv' /\ NothingLeft
<1> DEFINE w == Context(h)
           n == Close(w)
           s == ctx[h].rt
<1>1. /\ DOMAIN ctx \subseteq Handle /\ ctx \in [DOMAIN ctx -> Ctx] /\ h \in DOMAIN ctx
      /\ DOMAIN rts \in SUBSET Nat /\ rts \in [DOMAIN rts -> RtSession]
      /\ NoSession \notin DOMAIN rts /\ rts \in Sessions
      /\ IsFiniteSet(DOMAIN rts) /\ refused \subseteq DOMAIN rts
  BY FreshSession DEF MFXClose, SessionInv, TypeOK, Tables
<1>2. w \in Attempt /\ w.c = ctx[h] /\ w.rts = rts
  BY <1>1 DEF Context, Attempt
<1>3. RtClose(rts, s) \in Sessions
  BY <1>1, RtCloseOutcome
<1> HIDE DEF w
<1>4. /\ n \in Attempt
      /\ n.rts = IF ctx[h].table = NoFile THEN rts ELSE RtClose(rts, s)
      /\ n.c.rt = NoSession /\ n.c.ver = 0 /\ n.c.table = NoFile
      /\ n.c.lib = ctx[h].lib /\ n.c.table2 = ctx[h].table2 /\ n.c.path = ctx[h].path
  BY <1>2, <1>3, CloseFields
<1>5. n.c \in Ctx
  BY <1>4 DEF Attempt
<1>6. CloseRefused(w) <=> ctx[h].table # NoFile /\ Children(rts, s) # {} /\ s # NoSession
  BY <1>2 DEF CloseRefused
<1>7. /\ rts' = n.rts /\ fault' = fault
      /\ IF CloseRefused(w)
         THEN /\ ctx' = [ctx EXCEPT ![h] = n.c]
              /\ refused' = refused \cup {s} /\ ret' = "UNDEFINED_BEHAVIOR"
         ELSE ctx' = Without(h) /\ ret' = "NONE" /\ refused' = refused
  BY DEF MFXClose, w, n, s
<1> HIDE DEF n, s
<1>8. NothingLeft
  BY <1>7 DEF NothingLeft
<1>9. fault' \in BOOLEAN /\ ret' \in Statuses
  BY <1>7 DEF SessionInv, TypeOK, Statuses
<1>10. ctx[h].table = NoFile <=> s = NoSession
  BY <1>1 DEF SessionInv, ContextsWhole, s
<1>11. s # NoSession => s \in DOMAIN rts \ refused
  BY <1>1 DEF SessionInv, Held, s
<1>12. CASE CloseRefused(w)
  <2>1. rts' = rts
    BY <1>1, <1>4, <1>6, <1>7, <1>12, RtCloseOutcome
  <2>2. /\ DOMAIN ctx' = DOMAIN ctx /\ ctx'[h] = n.c
        /\ \A g \in DOMAIN ctx : g # h => ctx'[g] = ctx[g]
        /\ ctx' \in [DOMAIN ctx -> Ctx]
    BY <1>1, <1>5, <1>7, <1>12
  <2>3. s \in DOMAIN rts \ refused /\ s # NoSession /\ refused' = refused \cup {s}
    BY <1>6, <1>7, <1>11, <1>12
  <2>4. TypeOK'
    BY <1>1, <1>9, <2>1, <2>2, <2>3 DEF SessionInv, TypeOK, Statuses
  <2>5. Tables' /\ ParentsOpen'
    BY <2>1, <2>2 DEF SessionInv, Tables, ParentsOpen
  <2>6. ContextsWhole'
    BY <1>1, <1>4, <2>2 DEF SessionInv, ContextsWhole
  <2>7. Held'
    BY <1>1, <1>4, <2>1, <2>2, <2>3 DEF SessionInv, Held, s
  <2>8. OneLibrary'
    BY <1>1, <1>4, <2>1, <2>2 DEF SessionInv, OneLibrary
  <2> QED
    BY <1>8, <2>4, <2>5, <2>6, <2>7, <2>8 DEF SessionInv
<1>13. CASE ~CloseRefused(w)
  <2>1. /\ DOMAIN ctx' = DOMAIN ctx \ {h}
        /\ \A g \in DOMAIN ctx \ {h} : ctx'[g] = ctx[g]
        /\ ctx' \in [DOMAIN ctx \ {h} -> Ctx]
    BY <1>1, <1>7, <1>13 DEF Without
  <2>2. refused' = refused
    BY <1>7, <1>13
  <2>3. /\ DOMAIN rts' = DOMAIN rts \ {s}
        /\ \A t \in DOMAIN rts \ {s} : rts'[t] = rts[t]
        /\ rts' \in [DOMAIN rts \ {s} -> RtSession]
    <3>1. CASE s = NoSession
      BY <1>1, <1>4, <1>7, <1>10, <3>1
    <3>2. CASE s # NoSession
      <4>1. rts' = RtClose(rts, s) /\ Children(rts, s) = {}
        BY <1>4, <1>6, <1>7, <1>10, <1>13, <3>2
      <4>2. /\ DOMAIN RtClose(rts, s) = DOMAIN rts \ {s}
            /\ \A t \in DOMAIN rts \ {s} : RtClose(rts, s)[t] = rts[t]
            /\ RtClose(rts, s) \in [DOMAIN rts \ {s} -> RtSession]
        BY <1>1, <4>1, RtCloseOutcome
      <4> QED
        BY <4>1, <4>2
    <3> QED
      BY <3>1, <3>2
  <2>4. \A t \in DOMAIN rts \ {s} : rts[t].parent = NoSession \/ rts[t].parent # s
    BY <1>1, <1>6, <1>10, <1>13 DEF Children
  <2>5. IsFiniteSet(DOMAIN rts')
    BY <1>1, <2>3, FS_Subset
  <2>6. refused \subseteq DOMAIN rts'
    BY <1>1, <1>11, <2>3
  <2>7. TypeOK'
    <3>1. /\ DOMAIN rts' \subseteq Nat \ {0} /\ \A t \in DOMAIN rts' : rts'[t] \in RtSession
      BY <1>1, <2>3 DEF NoSession
    <3> QED
      BY <1>1, <1>9, <2>1, <2>2, <2>5, <2>6, <3>1 DEF TypeOK, Statuses, RtSession
  <2>8. Tables' /\ ParentsOpen'
    BY <2>1, <2>3, <2>4 DEF SessionInv, Tables, ParentsOpen
  <2>9. ContextsWhole'
    BY <2>1 DEF SessionInv, ContextsWhole
  <2>10. Held'
    <3>1. \A g \in DOMAIN ctx \ {h} : ctx[g].rt # NoSession => ctx[g].rt # s
      BY <1>1 DEF SessionInv, Held, s
    <3> QED
      BY <1>1, <2>1, <2>2, <2>3, <3>1 DEF SessionInv, Held, s
  <2>11. OneLibrary'
    BY <1>1, <2>1, <2>3, <2>10 DEF SessionInv, Held, OneLibrary
  <2> QED
    BY <1>8, <2>7, <2>8, <2>9, <2>10, <2>11 DEF SessionInv
<1> QED
  BY <1>12, <1>13

-----------------------------------------------------------------------------
(* Joined sessions and clones                                              *)

\* MFXJoinSession: the parent is a session that is open.
LEMMA MFXJoinSessionGood ==
    ASSUME SessionInv, NEW p, NEW h, MFXJoinSession(p, h)
    PROVE  SessionInv' /\ NothingLeft
<1>1. p \in DOMAIN ctx /\ ctx' = ctx /\ refused' = refused /\ fault' \in BOOLEAN
  BY DEF MFXJoinSession, SessionInv, TypeOK
<1>2. CASE /\ ctx[p].table # NoFile
           /\ rts' = Joined(rts, ctx[p].rt, ctx[h].rt) /\ ret' = "NONE"
  <2>1. ctx[p].rt \in {NoSession} \cup DOMAIN rts
    BY <1>1 DEF SessionInv, Held
  <2> QED
    BY <1>1, <1>2, <2>1, ParentSet DEF Statuses, NothingLeft
<1>3. CASE ret' = "ERROR" /\ rts' = rts
  BY <1>1, <1>3, TablesStay DEF Statuses, NothingLeft
<1> QED
  BY <1>2, <1>3 DEF MFXJoinSession

\* MFXDisjoinSession: a session loses its parent.
LEMMA MFXDisjoinSessionGood ==
    ASSUME SessionInv, NEW h, MFXDisjoinSession(h)
    PROVE  SessionInv' /\ NothingLeft
<1>1. ctx' = ctx /\ refused' = refused /\ fault' \in BOOLEAN
  BY DEF MFXDisjoinSession, SessionInv, TypeOK
<1>2. CASE rts' = Joined(rts, NoSession, ctx[h].rt) /\ ret' = "NONE"
  BY <1>1, <1>2, ParentSet DEF Statuses, NothingLeft
<1>3. CASE ret' = "ERROR" /\ rts' = rts
  BY <1>1, <1>3, TablesStay DEF Statuses, NothingLeft
<1> QED
  BY <1>2, <1>3 DEF MFXDisjoinSession

\* A session that is opened and then joined is opened as joined.
LEMMA OpenThenJoin ==
    ASSUME NEW R, NEW s, NEW file, NEW p, NEW parent
    PROVE  Joined(Opened(R, s, file, p), parent, s) = Opened(R, s, file, parent)
<1> DEFINE O == Opened(R, s, file, p)
<1>1. O = [t \in DOMAIN R \cup {s} |-> IF t = s THEN [file |-> file, parent |-> p] ELSE R[t]]
  BY DEF Opened, With
<1>2. [[file |-> file, parent |-> p] EXCEPT !.parent = parent] = [file |-> file, parent |-> parent]
  OBVIOUS
<1>3. DOMAIN O = DOMAIN R \cup {s} /\ O[s] = [file |-> file, parent |-> p]
  BY <1>1
<1> HIDE DEF O
<1>4. Joined(O, parent, s) =
        [t \in DOMAIN R \cup {s} |-> IF t = s THEN [O[s] EXCEPT !.parent = parent] ELSE O[t]]
  BY <1>1, <1>3 DEF Joined
<1>5. \A t \in DOMAIN R \cup {s} : t # s => O[t] = R[t]
  BY <1>1
<1>6. Joined(O, parent, s) =
        [t \in DOMAIN R \cup {s} |-> IF t = s THEN [file |-> file, parent |-> parent] ELSE R[t]]
  BY <1>2, <1>3, <1>4, <1>5
<1> QED
  BY <1>6 DEF O, Opened, With

\* MFXCloneSession of a 1.x session: what was opened is joined or closed again.
LEMMA MFXCloneSessionLegacyGood ==
    ASSUME SessionInv, NEW p, NEW h, NEW accept \in SUBSET File, NEW answer \in SUBSET File,
           MFXCloneSessionLegacy(p, h, accept, answer)
    PROVE  SessionInv' /\ NothingLeft
<1> DEFINE v == ctx[p].ver
           r == Request(v, FALSE, accept, answer)
           w == SearchLibs(ctx[p].impl, r)
           file == FirstTaking(ctx[p].impl, r)
           parent == ctx[p].rt
           s == NewSession(rts)
           n == CloneLegacy(p, h, accept, answer)
           joins == w.c.ver = v /\ CanJoin(w.rts, parent, w.c.rt)
           joined == [w EXCEPT !.rts = Joined(@, parent, w.c.rt)]
           closed == [Close(w) EXCEPT !.ok = FALSE]
<1>1. /\ p \in DOMAIN ctx /\ FreeHandle(h) /\ Legacy(v) /\ Return(h, n)
      /\ refused' = refused /\ fault' = fault
  BY DEF MFXCloneSessionLegacy
<1>2. v \in Nat /\ v # 0
  BY <1>1 DEF SessionInv, TypeOK, Ctx, Legacy
<1>3. parent \in DOMAIN rts
  BY <1>1, <1>2 DEF SessionInv, ContextsWhole, Held
<1>4. r \in Requests
  BY <1>2 DEF Requests, Request
<1>5. n = IF ~w.ok THEN w ELSE IF joins THEN joined ELSE closed
  BY DEF CloneLegacy
<1> HIDE DEF v, r, w, file, parent, n
<1>6. \/ Searching(w, NoFile, r)
      \/ file \in File /\ Found(w, NoFile, file, r)
  BY <1>4, SearchOutcome DEF w, file
<1>7. CASE Searching(w, NoFile, r)
  BY <1>1, <1>5, <1>7, ReturnFailed DEF Searching
<1>8. CASE file \in File /\ Found(w, NoFile, file, r)
  <2>1. /\ w \in Attempt /\ w.ok /\ w.rts = Opened(rts, s, file, NoSession)
        /\ w.c.rt = s /\ w.c.lib = file /\ w.c.table = file
        /\ w.c.table2 \in {NoFile, file} /\ w.c.path = NoFile
    BY <1>8 DEF Found
  <2>2. /\ s \in Nat \ {0} /\ s \notin DOMAIN rts
        /\ rts \in Sessions /\ rts \in [DOMAIN rts -> RtSession]
        /\ \A u \in DOMAIN rts : rts[u].parent # s
    BY FreshSession
  <2>3. file # NoFile
    BY <1>8, FileTypes
  <2> HIDE DEF s
  <2>4. CASE joins
    <3>1. Joined(w.rts, parent, s) = Opened(rts, s, file, parent)
      BY <2>1, OpenThenJoin
    <3>2. Opened(rts, s, file, parent) \in Sessions
      <4>1. parent \in Nat
        BY <1>3 DEF SessionInv, TypeOK
      <4> QED
        BY <1>8, <2>2, <4>1, OpenedType
    <3>3. /\ joined \in Attempt /\ joined.ok /\ joined.c = w.c
          /\ joined.rts = Opened(rts, s, file, parent)
      BY <2>1, <3>1, <3>2 DEF Attempt
    <3>4. n = joined
      BY <1>5, <2>1, <2>4
    <3> HIDE DEF joined
    <3> QED
      BY <1>1, <1>3, <1>8, <2>1, <3>3, <3>4, ReturnOpened DEF s
  <2>5. CASE ~joins
    <3>1. RtClose(w.rts, w.c.rt) = rts
      BY <2>1, <2>2, OpenThenClose DEF NoSession
    <3>2. Close(w) \in Attempt /\ Close(w).rts = rts
      BY <2>1, <2>2, <2>3, <3>1, CloseFields
    <3>3. ~closed.ok /\ closed.rts = rts
      BY <3>2 DEF Attempt
    <3>4. n = closed
      BY <1>5, <2>1, <2>5
    <3> HIDE DEF closed
    <3> QED
      BY <1>1, <3>3, <3>4, ReturnFailed
  <2> QED
    BY <2>4, <2>5
<1> QED
  BY <1>6, <1>7, <1>8

\* MFXCloneSession of a 2.x session: the clone that cannot answer is closed again.
LEMMA MFXCloneSessionModernGood ==
    ASSUME SessionInv, NEW p, NEW h, NEW accept \in SUBSET File, NEW answer \in SUBSET File,
           NEW join \in BOOLEAN, MFXCloneSessionModern(p, h, accept, answer, join)
    PROVE  SessionInv' /\ NothingLeft
<1> DEFINE file == ctx[p].path
           parent == IF join THEN ctx[p].rt ELSE NoSession
           r == Request(0, TRUE, accept, answer)
           w == LoadLib(file, r)
           s == NewSession(rts)
           c == [w.c EXCEPT !.rt = s, !.ver = ApiVer[file]]
           cloned == [w EXCEPT !.c = c, !.rts = Opened(@, s, file, parent)]
           closed == [Close(cloned) EXCEPT !.ok = FALSE]
           n == CloneModern(p, parent, accept, answer)
<1>1. p \in DOMAIN ctx /\ FreeHandle(h) /\ Modern(ctx[p].ver) /\ refused' = refused
  BY DEF MFXCloneSessionModern
<1>2. CASE ctx' = ctx /\ rts' = rts /\ ret' = ret /\ fault' = TRUE
  BY <1>1, <1>2, TablesStay DEF SessionInv, TypeOK, Statuses, NothingLeft
<1>3. CASE ctx' = ctx /\ rts' = rts /\ ret' = "ERROR" /\ fault' = fault
  BY <1>1, <1>3, TablesStay DEF SessionInv, TypeOK, Statuses, NothingLeft
<1>4. CASE file # NoFile /\ Return(h, n) /\ fault' = fault
  <2>1. file \in File /\ parent \in {NoSession} \cup DOMAIN rts /\ parent \in Nat
    <3>1. file \in File
      BY <1>1, <1>4 DEF SessionInv, TypeOK, Ctx
    <3>2. ctx[p].ver # 0 /\ ctx[p].rt \in {NoSession} \cup DOMAIN rts
      BY <1>1 DEF SessionInv, ContextsWhole, Held, Modern
    <3>3. DOMAIN rts \subseteq Nat
      BY DEF SessionInv, TypeOK
    <3> QED
      BY <3>1, <3>2, <3>3 DEF NoSession
  <2>2. n = IF ctx[p].lib \notin accept THEN [w EXCEPT !.ok = FALSE]
            ELSE IF file \in answer THEN cloned ELSE closed
    BY DEF CloneModern
  <2>3. /\ s \in Nat \ {0} /\ s \notin DOMAIN rts
        /\ rts \in Sessions /\ rts \in [DOMAIN rts -> RtSession]
        /\ \A u \in DOMAIN rts : rts[u].parent # s
    BY FreshSession
  <2>4. MissingFrom[file] \in Nat \ {0} /\ ApiVer[file] \in Nat /\ file # NoFile
    BY <2>1, FileTypes
  <2>5. /\ w \in Attempt /\ w.ok /\ w.rts = rts /\ w.c.lib = file
        /\ w.c.table = file /\ w.c.table2 = NoFile /\ w.c.path = file
    <3> DEFINE b == Blank(file)
               tables == LoadTable(b, file, r)
    <3>1. Searching(b, file, Request(0, FALSE, accept, answer))
      <4>1. Request(0, FALSE, accept, answer) \in Requests
        BY DEF Requests, Request
      <4> QED
        BY <2>1, <4>1, BlankSearches
    <3>2. r.ver = 0 /\ r.clone = TRUE /\ ~Modern(r.ver)
      BY DEF Request, Modern
    <3>3. Request(0, FALSE, accept, answer).ver = 0
      BY DEF Request
    <3>4. b \in Attempt /\ ~b.ok /\ b.rts = rts /\ b.c.table2 = NoFile /\ b.c.path = file
      BY <3>1, <3>2, <3>3 DEF Searching, Table2Left
    <3> HIDE DEF b, r
    <3>5. Succeeds(file, r) /\ ~StartsSession(file, r)
      <4>1. MissingFrom[file] > r.ver
        BY <2>4, <3>2
      <4> QED
        BY <3>2, <4>1 DEF Succeeds, StartsSession
    <3>6. Attempted(b, file, r) = tables
      BY <3>5 DEF Attempted
    <3>7. Try(b, file, r) = Taken(tables, file)
      BY <2>4, <3>4, <3>5, <3>6 DEF Try
    <3>8. w = Taken(tables, file)
      BY <3>7 DEF LoadLib, b, r
    <3>9. /\ tables \in Attempt /\ tables.rts = rts /\ tables.c.table = file
          /\ tables.c.table2 = NoFile /\ tables.c.path = file
      BY <2>1, <3>2, <3>4, LoadTableFields
    <3> HIDE DEF tables
    <3> QED
      BY <2>1, <3>8, <3>9, TakenFields
  <2> HIDE DEF file, parent, w, s, n
  <2>6. /\ c \in Ctx /\ c.rt = s /\ c.lib = file /\ c.table = file
        /\ c.table2 = NoFile /\ c.path = file
    BY <2>3, <2>4, <2>5 DEF Attempt, Ctx
  <2> HIDE DEF c
  <2>7. Opened(rts, s, file, parent) \in Sessions
    BY <2>1, <2>3, OpenedType
  <2>8. /\ cloned \in Attempt /\ cloned.ok /\ cloned.c = c
        /\ cloned.rts = Opened(rts, s, file, parent)
    BY <2>5, <2>6, <2>7 DEF Attempt
  <2> HIDE DEF cloned
  <2>9. CASE ctx[p].lib \notin accept
    <3>1. ~[w EXCEPT !.ok = FALSE].ok /\ [w EXCEPT !.ok = FALSE].rts = rts
      BY <2>5 DEF Attempt
    <3> QED
      BY <1>1, <1>4, <2>2, <2>9, <3>1, ReturnFailed
  <2>10. CASE ctx[p].lib \in accept /\ file \in answer
    BY <1>1, <1>4, <2>1, <2>2, <2>6, <2>8, <2>10, ReturnOpened DEF s
  <2>11. CASE ctx[p].lib \in accept /\ file \notin answer
    <3>1. parent # s
      BY <2>1, <2>3 DEF NoSession
    <3>2. RtClose(cloned.rts, cloned.c.rt) = rts
      BY <2>3, <2>6, <2>8, <3>1, OpenThenClose
    <3>3. Close(cloned) \in Attempt /\ Close(cloned).rts = rts
      BY <2>3, <2>4, <2>6, <2>8, <3>2, CloseFields
    <3>4. ~closed.ok /\ closed.rts = rts
      BY <3>3 DEF Attempt
    <3>5. n = closed
      BY <2>2, <2>11
    <3> HIDE DEF closed
    <3> QED
      BY <1>1, <1>4, <3>4, <3>5, ReturnFailed
  <2> QED
    BY <2>9, <2>10, <2>11
<1> QED
  BY <1>2, <1>3, <1>4 DEF MFXCloneSessionModern

-----------------------------------------------------------------------------
(* The theorems                                                            *)

\* No handle and no session at first.
LEMMA InitGood == Init => SessionInv
<1> SUFFICES ASSUME Init
             PROVE  SessionInv
  OBVIOUS
<1>1. ctx = <<>> /\ rts = <<>> /\ refused = {} /\ fault = FALSE /\ ret = "NONE"
  BY DEF Init
<1>2. DOMAIN ctx = {} /\ DOMAIN rts = {}
  BY <1>1
<1>3. ctx \in [DOMAIN ctx -> Ctx] /\ rts \in [DOMAIN rts -> RtSession]
  BY <1>1, <1>2
<1>4. IsFiniteSet(DOMAIN rts)
  BY <1>2, FS_EmptySet
<1> QED
  BY <1>1, <1>2, <1>3, <1>4
  DEF SessionInv, TypeOK, Tables, ParentsOpen, ContextsWhole, Held, OneLibrary

\* Every step keeps the invariant, and a failing one leaves nothing behind.
LEMMA StepGood ==
    ASSUME SessionInv, [Next]_vars
    PROVE  SessionInv' /\ (NothingLeft \/ UNCHANGED vars)
<1>1. Version \subseteq Nat /\ \A F \in Working : F \subseteq File
  BY SessionAssumption DEF Working
<1>2. ASSUME NEW h \in Handle, NEW t \in ImplType, NEW v \in Version,
             NEW accept \in Working, NEW answer \in Working,
             MFXInitEx(h, t, v, accept, answer)
      PROVE  SessionInv' /\ NothingLeft
  BY <1>1, <1>2, MFXInitExGood
<1>3. ASSUME NEW h \in Handle, NEW f \in File, NEW v \in Version,
             NEW accept \in Working, NEW answer \in Working,
             MFXInitEx2(h, f, v, accept, answer)
      PROVE  SessionInv' /\ NothingLeft
  BY <1>1, <1>3, MFXInitEx2Good
<1>4. ASSUME NEW h \in Handle, MFXClose(h)
      PROVE  SessionInv' /\ NothingLeft
  BY <1>4, MFXCloseGood
<1>5. ASSUME NEW p \in Handle, NEW h \in Handle, MFXJoinSession(p, h)
      PROVE  SessionInv' /\ NothingLeft
  BY <1>5, MFXJoinSessionGood
<1>6. ASSUME NEW h \in Handle, MFXDisjoinSession(h)
      PROVE  SessionInv' /\ NothingLeft
  BY <1>6, MFXDisjoinSessionGood
<1>7. ASSUME NEW p \in Handle, NEW h \in Handle, NEW accept \in Working,
             NEW answer \in Working, MFXCloneSessionLegacy(p, h, accept, answer)
      PROVE  SessionInv' /\ NothingLeft
  BY <1>1, <1>7, MFXCloneSessionLegacyGood
<1>8. ASSUME NEW p \in Handle, NEW h \in Handle, NEW accept \in Working,
             NEW answer \in Working, NEW join \in BOOLEAN,
             MFXCloneSessionModern(p, h, accept, answer, join)
      PROVE  SessionInv' /\ NothingLeft
  BY <1>1, <1>8, MFXCloneSessionModernGood
<1>9. ASSUME NEW p \in Handle, MFXCloneSessionUnsupported(p)
      PROVE  SessionInv' /\ NothingLeft
  BY <1>9, TablesStay
  DEF MFXCloneSessionUnsupported, SessionInv, TypeOK, Statuses, NothingLeft
<1>10. CASE UNCHANGED vars
  <2>1. SessionInv'
    BY <1>10, TablesStay DEF vars, SessionInv, TypeOK, Statuses
  <2> QED
    BY <1>10, <2>1
<1> QED
  BY <1>2, <1>3, <1>4, <1>5, <1>6, <1>7, <1>8, <1>9, <1>10 DEF Next

\* The invariant implies what the runs check.
LEMMA OwnersUnique ==
    ASSUME SessionInv
    PROVE  SessionsOwned
<1>1. ASSUME NEW s \in DOMAIN rts \ refused
      PROVE  \E h \in Handle : Owners(s) = {h}
  <2>1. PICK h \in DOMAIN ctx : ctx[h].rt = s
    BY DEF SessionInv, Held
  <2>2. s # NoSession /\ h \in Handle
    BY DEF SessionInv, TypeOK, NoSession
  <2>3. \A g \in DOMAIN ctx : ctx[g].rt = s => g = h
    BY <2>1, <2>2 DEF SessionInv, Held
  <2>4. Owners(s) = {h}
    BY <2>1, <2>3 DEF Owners
  <2> QED
    BY <2>2, <2>4
<1> QED
  BY <1>1 DEF SessionInv, SessionsOwned, Held

\* FindsFirst follows from what a search does in a state of the invariant.
LEMMA SearchFindsFirst ==
    ASSUME SessionInv
    PROVE  FindsFirst
<1> SUFFICES ASSUME NEW t \in ImplType, NEW v \in Version,
                    NEW accept \in Working, NEW answer \in Working
             PROVE  LET r == Request(v, FALSE, accept, answer)
                    IN  SearchLibs(t, r).c.lib = FirstTaking(t, r)
  BY DEF FindsFirst
<1> DEFINE r == Request(v, FALSE, accept, answer)
<1>1. r \in Requests
  <2>1. Version \subseteq Nat /\ \A F \in Working : F \subseteq File
    BY SessionAssumption DEF Working
  <2> QED
    BY <2>1 DEF Requests, Request
<1> HIDE DEF r
<1>2. \/ FirstTaking(t, r) = NoFile /\ Searching(SearchLibs(t, r), NoFile, r)
      \/ Found(SearchLibs(t, r), NoFile, FirstTaking(t, r), r)
  BY <1>1, SearchOutcome
<1>3. SearchLibs(t, r).c.lib = FirstTaking(t, r)
  BY <1>2 DEF Searching, Found
<1> QED
  BY <1>3 DEF r

\* SessionInv is an invariant: it holds at first, and every step keeps it.
THEOREM SessionInvariance == Spec => []SessionInv
<1>1. SessionInv /\ [Next]_vars => SessionInv'
  BY StepGood
<1> QED
  BY InitGood, <1>1, PTL DEF Spec

\* Every session of a runtime is held by exactly one handle, or its runtime
\* refused to close it: LoaderCtx::Init, MFXClose and cloning lose none.
THEOREM NoSessionLost == Spec => []SessionsOwned
BY SessionInvariance, OwnersUnique, PTL

\* A session's functions, its library and its runtime belong together, however
\* many libraries LoaderCtx::Init tried before.
THEOREM LibrariesNotMixed == Spec => []OneLibrary
<1>1. SessionInv => OneLibrary
  BY DEF SessionInv
<1> QED
  BY SessionInvariance, <1>1, PTL

\* LoaderCtx::Init ends with the first library of the search order that takes
\* the request.
THEOREM InitFindsFirst == Spec => []FindsFirst
BY SessionInvariance, SearchFindsFirst, PTL

\* MFXInitEx, MFXInitEx2 and MFXCloneSession leave nothing behind when they fail.
THEOREM FailuresLeaveNothing == Spec => FailedCallsLeaveNothing
<1>1. SessionInv /\ [Next]_vars => [ret' = "ERROR" => ctx' = ctx /\ rts' = rts]_vars
  BY StepGood DEF NothingLeft
<1> QED
  BY SessionInvariance, <1>1, PTL DEF Spec, FailedCallsLeaveNothing
=============================================================================
