-------------------------- MODULE AdapterQuery --------------------------
(* MFXQueryAdapters, MFXQueryAdaptersDecode and MFXQueryAdaptersNumber of the
   Windows dispatcher (mfx_dispatcher.cpp): a client of the session class, which
   opens a session on each Intel adapter, asks it for the workload, and lets the
   destructor of `dummy_session` close it.

   A machine is its DXGI adapters: [vendor, device, luid] of module Adapters and
   the answers of a session there: opens, suits (the workload), minor (API 1.x),
   platform (MFXVideoCORE_QueryPlatform answers) and media. *)
EXTENDS SessionClasses, Adapters

CONSTANTS Machine, Alloc  \* the machines; the lengths of the caller's array

VARIABLES machine,
          job,       \* the query under way
          reply,     \* what the last query returned
          number     \* what MFXQueryAdaptersNumber answered last
jobVars == <<machine, job, reply, number>>
allVars == <<vars, jobVars>>

NoReply == [status |-> "none", list |-> <<>>, all |-> <<>>, alloc |-> 0, sorted |-> FALSE]
NoNumber == [count |-> 0, whole |-> FALSE]
\* n: the adapter looked at, from 0; broken: a system call has failed
Idle == [step |-> "idle", info |-> FALSE, alloc |-> 0, n |-> 0, found |-> <<>>, broken |-> FALSE]


\* The program is one that uses the classes or one that asks for adapters; the
\* functions are built with the direct classes.
QueryInit ==
    /\ Init /\ reply = NoReply /\ number = NoNumber
    /\ \/ job = Idle /\ build = "direct" /\ windows /\ machine \in Machine
       \/ job = [Idle EXCEPT !.step = "none"] /\ machine = [dxgi |-> <<>>]

------------------------------------------------------------------------------
(* The list *)

Media(x) == machine.dxgi[x.number + 1].media
\* iGPU_priority orders integrated before discrete adapters; for an adapter of
\* unknown media type it is no order, and qsort may leave any.
Ordered(l) == \A i, j \in DOMAIN l :
    i < j => ~(Media(l[i]) = "discrete" /\ Media(l[j]) = "integrated")
RearrangeInPriorityOrder(l) ==
    LET arranged == {[i \in DOMAIN l |-> l[p[i]]] :
                        p \in {f \in [DOMAIN l -> DOMAIN l] : IsInjective(f)}}
    IN  IF \E i \in DOMAIN l : Media(l[i]) = "unknown" THEN arranged
        ELSE {a \in arranged : Ordered(a)}

\* As if the array were cut to its length before it is put in order.
PrepareAdaptersInfoCutsFirst(info, found, alloc) ==
    LET cut == SubSeq(found, 1, IF Len(found) < alloc THEN Len(found) ELSE alloc)
        lists == IF info THEN RearrangeInPriorityOrder(cut) ELSE {cut}
    IN  {[status |-> IF found = <<>> THEN "not found" ELSE IF Len(found) > alloc
                     THEN "out of range" ELSE "ok",
          all |-> found, list |-> l, alloc |-> alloc, sorted |-> info] : l \in lists}

PrepareAdaptersInfo(info, found, alloc) ==
    LET lists == IF info THEN RearrangeInPriorityOrder(found) ELSE {found}
        count == IF Len(found) < alloc THEN Len(found) ELSE alloc
    IN  {[status |-> IF found = <<>> THEN "not found" ELSE IF Len(found) > alloc
                     THEN "out of range" ELSE "ok",
          all |-> found, list |-> SubSeq(l, 1, count), alloc |-> alloc, sorted |-> info] :
            l \in lists}

------------------------------------------------------------------------------
(* The loop over the adapters *)

\* info: a workload is given; MFXQueryAdaptersDecode always has one.
QueryAdapters(info, alloc) ==
    /\ job.step = "idle"
    /\ job' = [Idle EXCEPT !.step = "adapter", !.info = info, !.alloc = alloc]
    /\ reply' = NoReply
    /\ UNCHANGED <<vars, machine, number>>

Card == machine.dxgi[job.n + 1]
NextCard == [job EXCEPT !.step = "adapter", !.n = @ + 1]

\* QueryAdapterInfo: the first adapter that DXGI does not give ends the loop.
QueryAdapterInfo(fails) ==
    LET d == InitDXGI1(machine, job.n, fails)
    IN  /\ job.step = "adapter"
        /\ IF ~d.ok
           THEN /\ reply' \in PrepareAdaptersInfo(job.info, job.found, job.alloc)
                /\ job' = [job EXCEPT !.step = "done",
                                      !.broken = @ \/ job.n < Len(machine.dxgi)]
                /\ UNCHANGED vars
           ELSE /\ UNCHANGED reply
                /\ IF d.vendor = "intel"
                   THEN job' = [job EXCEPT !.step = "open"] /\ ConstructSession
                   ELSE job' = NextCard /\ UNCHANGED vars
        /\ UNCHANGED <<machine, number>>

\* The adapters a session may be on: beyond the fourth, any.
NumNamed == 4
SessionAdapters(n) ==
    {a \in 0..(Len(machine.dxgi) - 1) :
        /\ machine.dxgi[a + 1].vendor = "intel" /\ machine.dxgi[a + 1].opens
        /\ n < NumNamed => a = n}

\* InitDummySession
InitDummySession ==
    LET on == SessionAdapters(job.n)
    IN  /\ job.step = "open"
        /\ DirectInit(Len(stack), IF on = {} THEN 0 ELSE 1, TRUE)
        /\ job' = [job EXCEPT !.step = IF on = {} THEN "close" ELSE "ask"]
        /\ UNCHANGED <<machine, reply, number>>

\* As if the number were read after the loop has moved on.
FoundNext(a) == [number |-> job.n + 1, device |-> Card.device]

\* The adapter as it is reported: its device from the session since API 1.19.
Found(a) == [number |-> job.n,
             device |-> IF machine.dxgi[a + 1].minor >= 19 THEN machine.dxgi[a + 1].device
                        ELSE Card.device]

\* The calls on the session: Query (DecodeHeader before it), QueryVersion and
\* QueryPlatform.  Whatever fails, the adapter is left out.
AskSession ==
    /\ job.step = "ask"
    /\ \E a \in SessionAdapters(job.n) :
          LET c == machine.dxgi[a + 1]
              good == (job.info => c.suits) /\ (c.minor >= 19 => c.platform)
          IN  job' = [job EXCEPT !.step = "close",
                                 !.found = IF good THEN Append(@, Found(a)) ELSE @]
    /\ UNCHANGED <<vars, machine, reply, number>>

\* The end of the block: the destructor of dummy_session
EndOfBlock ==
    /\ job.step = "close" /\ DestroyLast
    /\ job' = NextCard
    /\ UNCHANGED <<machine, reply, number>>

\* The handles of closed sessions are forgotten.
Return ==
    /\ job.step = "done"
    /\ job' = Idle /\ reply' = NoReply
    /\ sessions' = IF \E h \in DOMAIN sessions : sessions[h].open THEN sessions ELSE <<>>
    /\ UNCHANGED <<build, windows, stack, loaders, raw, early, dangling, machine, number>>

Count(cards) == Cardinality({k \in DOMAIN cards : cards[k].vendor = "intel"})

\* seen: the adapters before the first that DXGI does not give
MFXQueryAdaptersNumber(seen) ==
    /\ job.step = "idle"
    /\ number' = [count |-> Count(SubSeq(machine.dxgi, 1, seen)),
                  whole |-> seen = Len(machine.dxgi)]
    /\ UNCHANGED <<vars, machine, job, reply>>

QueryNext ==
    \/ \E info \in BOOLEAN, n \in Alloc : QueryAdapters(info, n)
    \/ \E f \in DXGIFails : QueryAdapterInfo(f)
    \/ InitDummySession \/ AskSession \/ EndOfBlock \/ Return
    \/ \E k \in 0..Len(machine.dxgi) : MFXQueryAdaptersNumber(k)
    \/ job.step = "none" /\ Next /\ UNCHANGED jobVars

QuerySpec == QueryInit /\ [][QueryNext]_allVars

------------------------------------------------------------------------------

\* The variables of a query keep their types.
QueryTypeOK ==
    /\ machine \in Machine \cup {[dxgi |-> <<>>]} /\ job.n \in 0..Len(machine.dxgi)
    /\ job.step \in {"none", "idle", "adapter", "open", "ask", "close", "done"}
    /\ reply.status \in {"none", "ok", "not found", "out of range"}
    /\ Len(reply.list) <= reply.alloc

\* A query that no system call disturbs reports, of the first four adapters,
\* exactly those of Intel whose own session opens, knows its platform and can do
\* the workload; each under its DXGI number and with its own device.  They fit in an
\* array of the length that MFXQueryAdaptersNumber answered.
FindsSuitable ==
  /\ QueryTypeOK
  /\ number.whole /\ reply.alloc >= number.count => reply.status # "out of range"
  /\ job.step = "done" /\ ~job.broken =>
        LET suitable == {n \in DOMAIN machine.dxgi :
                LET c == machine.dxgi[n]
                IN  /\ n <= NumNamed /\ c.vendor = "intel" /\ c.opens
                    /\ (job.info => c.suits) /\ (c.minor >= 19 => c.platform)}
            named == SelectSeq(reply.all, LAMBDA x : x.number < NumNamed)
        IN  /\ {<<x.number, x.device>> : x \in ToSet(named)}
                 = {<<n - 1, machine.dxgi[n].device>> : n \in suitable}
            /\ Len(named) = Cardinality(suitable)

\* For a given workload integrated adapters come first, also when the caller's
\* array is too short: what is left out is then no integrated adapter while a
\* discrete one is listed.  (Runtimes before API 1.19 tell no media type, and an
\* adapter without one puts the list in any order.)
IntegratedFirst ==
    job.step = "done" /\ reply.sorted
      /\ (\A x \in ToSet(reply.all) : Media(x) # "unknown") =>
        /\ Ordered(reply.list)
        /\ \A x \in ToSet(reply.all) \ ToSet(reply.list), y \in ToSet(reply.list) :
               ~(Media(x) = "integrated" /\ Media(y) = "discrete")
==========================================================================
