--------------------------- MODULE MSDKCompat ---------------------------
(* LoaderCtxMSDK: how the 2.x dispatcher learns what a 1.x runtime can do
   (mfx_dispatcher_vpl_msdk.cpp and the loop of the loader around it).  A 1.x
   runtime describes nothing, so one test session per adapter is opened, asked
   and closed.  One action is one call that may fail; `q` is the query under
   way, at its step.

   Between two queries the adapters may change, and the records of the adapters
   (ctx, which live as long as the library) are used again. *)
EXTENDS Adapters

\* An adapter; what it is not known to be is "none" or 0.
Cards == [vendor : {"intel", "other", "none"}, device : Nat, luid : Nat]

CONSTANTS Machine,   \* the machines: [windows, nodes, dxgi, d3d9]
          MaxImpl,   \* MAX_NUM_IMPL_MSDK, 4 in the code
          Minor      \* the minor API versions a runtime may answer

\* 0 is the LUID of no adapter: DXVA2Device works "only with valid LUIDs".
ASSUME MSDKAssumption ==
    /\ MaxImpl \in Nat \ {0} /\ Minor \subseteq Nat \ {0}
    /\ \A m \in Machine :
          /\ m.windows \in BOOLEAN
          /\ m.nodes \in Seq(Cards) /\ m.dxgi \in Seq(Cards) /\ m.d3d9 \in Seq(Cards)
          /\ \A k \in DOMAIN m.dxgi : m.dxgi[k].luid # 0

VARIABLES machine,   \* the adapters of the machine now
          q,         \* the query under way
          sessions,  \* the test sessions that are open
          held,      \* the references to system libraries and interfaces
          ctx,       \* adapter -> LoaderCtxMSDK
          answer,    \* adapter -> the implementation reported, or None
          apiMinor   \* the version QueryAPIVersion answered, 0 for none
vars == <<machine, q, sessions, held, ctx, answer, apiMinor>>

Adapter == 0..(MaxImpl - 1)
None == [device |-> -1, luid |-> -1, modes |-> {}, minor |-> 0]
NoCtx == [device |-> 0, luid |-> 0, loaderDevice |-> 0, impl |-> -1, implD3D9 |-> -1]
Idle == [op |-> "idle", a |-> 0, step |-> "none", skip |-> FALSE, idx |-> 0,
         modes |-> {}, minor |-> 0]
At(op, step) == q.op = op /\ q.step = step
Goto(step) == q' = [q EXCEPT !.step = step]

\* The device a session on adapter a runs on, which the runtime answers for it.
DeviceOf(m, a) ==
    LET cards == IF m.windows THEN m.dxgi ELSE m.nodes
    IN  IF a < Len(cards) THEN cards[a + 1].device ELSE 0
\* What MFXInitEx2 stores as the device: an Intel one of the machine (which one
\* depends on the sort by platform) on Linux, nothing on Windows.
LoaderDevice(m) ==
    LET intel == {k \in DOMAIN m.nodes : m.nodes[k].vendor = "intel"}
    IN  IF m.windows \/ intel = {} THEN 0 ELSE m.nodes[CHOOSE k \in intel : TRUE].device

\* GetRenderNodeDescription: render node 128 + a is an Intel device.
GetRenderNodeDescription(a) ==
    IF a < Len(machine.nodes) /\ machine.nodes[a + 1].vendor = "intel"
    THEN machine.nodes[a + 1].device ELSE 0

\* GetDefaultAccelType: D3D11 on an Intel adapter; Linux has VAAPI only.
GetDefaultAccelType(a, fails) ==
    IF ~machine.windows THEN [ok |-> TRUE, found |-> TRUE, luid |-> 0, held |-> NothingHeld]
    ELSE LET s == SelectImplementationType(machine, "D3D11", a, 0, fails)
         IN  [ok |-> s.ok /\ s.vendor = "intel", found |-> s.ok, luid |-> s.luid, held |-> s.held]
DefaultMode == IF machine.windows THEN "D3D11" ELSE "VAAPI"

NextAdapter ==
    IF q.a + 1 < MaxImpl
    THEN [Idle EXCEPT !.op = q.op, !.a = q.a + 1, !.step = "first", !.skip = q.skip]
    ELSE Idle

Init ==
    /\ machine \in Machine
    /\ q = Idle /\ sessions = 0 /\ held = NothingHeld
    /\ ctx = [a \in Adapter |-> NoCtx]
    /\ answer = [a \in Adapter |-> None]
    /\ apiMinor = 0

------------------------------------------------------------------------------
(* QueryAPIVersion: the first session that answers. *)

QueryAPIVersion ==
    /\ q.op = "idle"
    /\ q' = [Idle EXCEPT !.op = "version", !.step = "first"]
    /\ apiMinor' = 0
    /\ UNCHANGED <<machine, sessions, held, ctx, answer>>

VersionAccel(fails) ==
    /\ At("version", "first")
    /\ LET d == GetDefaultAccelType(q.a, fails)
       IN  /\ q' = IF d.ok THEN [q EXCEPT !.step = "open"] ELSE NextAdapter
           /\ held' = Plus(held, d.held)
    /\ UNCHANGED <<machine, sessions, ctx, answer, apiMinor>>

VersionOpen(works) ==
    /\ At("version", "open")
    /\ q' = IF works THEN [q EXCEPT !.step = "ask"] ELSE NextAdapter
    /\ sessions' = sessions + (IF works THEN 1 ELSE 0)
    /\ UNCHANGED <<machine, held, ctx, answer, apiMinor>>

VersionAsk(minor) ==
    /\ At("version", "ask")
    /\ sessions' = sessions - 1
    /\ apiMinor' = minor
    /\ q' = IF minor # 0 THEN Idle ELSE NextAdapter
    /\ UNCHANGED <<machine, held, ctx, answer>>

------------------------------------------------------------------------------
(* QueryLibraryCaps over the adapters of one library: QueryMSDKCaps, then
   QueryExtDeviceID.  An adapter that fails is passed over. *)

QueryLibraryCaps(skip) ==
    /\ q.op = "idle"
    /\ q' = [Idle EXCEPT !.op = "caps", !.step = "first", !.skip = skip]
    /\ machine' \in {m \in Machine : m.windows = machine.windows}
    /\ answer' = [a \in Adapter |-> None]
    /\ UNCHANGED <<sessions, held, ctx, apiMinor>>

\* As if the device of an earlier query were not cleared.
QueryMSDKCapsStale ==
    /\ At("caps", "first")
    /\ LET d == IF machine.windows THEN ctx[q.a].device ELSE GetRenderNodeDescription(q.a)
       IN  /\ ctx' = [ctx EXCEPT ![q.a].device = d]
           /\ q' = IF machine.windows \/ d # 0 THEN [q EXCEPT !.step = "accel"] ELSE NextAdapter
    /\ UNCHANGED <<machine, sessions, held, answer, apiMinor>>

QueryMSDKCaps ==
    /\ At("caps", "first")
    /\ LET d == IF machine.windows THEN 0 ELSE GetRenderNodeDescription(q.a)
       IN  /\ ctx' = [ctx EXCEPT ![q.a].device = d]
           /\ q' = IF machine.windows \/ d # 0 THEN [q EXCEPT !.step = "accel"] ELSE NextAdapter
    /\ UNCHANGED <<machine, sessions, held, answer, apiMinor>>

DefaultAccel(fails) ==
    /\ At("caps", "accel")
    /\ LET d == GetDefaultAccelType(q.a, fails)
       IN  /\ q' = IF d.ok THEN [q EXCEPT !.step = "open"] ELSE NextAdapter
           /\ ctx' = [ctx EXCEPT ![q.a].luid = IF d.found THEN d.luid ELSE @]
           /\ held' = Plus(held, d.held)
    /\ UNCHANGED <<machine, sessions, answer, apiMinor>>

OpenSession(works) ==
    /\ At("caps", "open")
    /\ ctx' = [ctx EXCEPT ![q.a].loaderDevice = LoaderDevice(machine)]
    /\ sessions' = sessions + (IF works THEN 1 ELSE 0)
    /\ q' = IF works THEN [q EXCEPT !.step = "version"] ELSE NextAdapter
    /\ UNCHANGED <<machine, held, answer, apiMinor>>

CloseSession == sessions' = sessions - 1

\* As if the session were left open when it does not tell its version.
QueryVersionLeavesOpen(minor) ==
    /\ At("caps", "version")
    /\ q' = IF minor = 0 THEN NextAdapter
            ELSE [q EXCEPT !.step = "platform", !.minor = minor, !.modes = {DefaultMode}]
    /\ ctx' = [ctx EXCEPT ![q.a].impl = IF minor = 0 THEN @ ELSE q.a]
    /\ UNCHANGED <<machine, sessions, held, answer, apiMinor>>

QueryVersion(minor) ==
    /\ At("caps", "version")
    /\ IF minor = 0
       THEN CloseSession /\ q' = NextAdapter /\ UNCHANGED ctx
       ELSE /\ q' = [q EXCEPT !.step = "platform", !.minor = minor, !.modes = {DefaultMode}]
            /\ ctx' = [ctx EXCEPT ![q.a].impl = q.a]
            /\ UNCHANGED sessions
    /\ UNCHANGED <<machine, held, answer, apiMinor>>

\* The device, in this order: from the render node, from the runtime (API 1.19),
\* from the loader.  The session is closed here.
QueryPlatform(works) ==
    /\ At("caps", "platform")
    /\ LET c    == ctx[q.a]
           told == IF works /\ q.minor >= 19 THEN DeviceOf(machine, q.a) ELSE 0
           d    == IF c.device # 0 THEN c.device ELSE IF told # 0 THEN told ELSE c.loaderDevice
       IN  ctx' = [ctx EXCEPT ![q.a].device = d,
                              ![q.a].implD3D9 = IF machine.windows /\ ~q.skip THEN -1 ELSE @]
    /\ CloseSession
    /\ Goto(IF machine.windows /\ ~q.skip THEN "d3d9" ELSE "ext")
    /\ UNCHANGED <<machine, held, answer, apiMinor>>

\* As if D3D9 numbered the adapters like DXGI.
CheckD3D9SupportSameNumber(fails, failsDXGI) ==
    /\ At("caps", "d3d9")
    /\ LET s == SelectImplementationType(machine, "D3D9", q.a, fails, failsDXGI)
       IN  /\ held' = Plus(held, s.held)
           /\ q' = IF s.ok THEN [q EXCEPT !.step = "d3d9 open", !.idx = q.a]
                   ELSE [q EXCEPT !.step = "ext"]
    /\ UNCHANGED <<machine, sessions, ctx, answer, apiMinor>>

\* CheckD3D9Support: the number D3D9 gives to the adapter with this LUID.
CheckD3D9Support(fails, failsDXGI) ==
    /\ At("caps", "d3d9")
    /\ LET s == SelectImplementationType(machine, "D3D9", q.idx, fails, failsDXGI)
           match == s.ok /\ s.vendor = "intel" /\ s.luid = ctx[q.a].luid
       IN  /\ held' = Plus(held, s.held)
           /\ q' = IF match THEN [q EXCEPT !.step = "d3d9 open"]
                   ELSE IF q.idx + 1 < MaxImpl THEN [q EXCEPT !.idx = @ + 1]
                   ELSE [q EXCEPT !.step = "ext"]
    /\ UNCHANGED <<machine, sessions, ctx, answer, apiMinor>>

\* A session that opens is closed before the function returns; one that does not
\* ends the search.
OpenD3D9Session(works) ==
    /\ At("caps", "d3d9 open")
    /\ q' = [q EXCEPT !.step = "ext", !.modes = @ \cup (IF works THEN {"D3D9"} ELSE {})]
    /\ ctx' = [ctx EXCEPT ![q.a].implD3D9 = IF works THEN q.idx ELSE @]
    /\ UNCHANGED <<machine, sessions, held, answer, apiMinor>>

QueryExtDeviceID ==
    /\ At("caps", "ext")
    /\ LET c == ctx[q.a]
       IN  answer' = [answer EXCEPT ![q.a] =
               [device |-> c.device, luid |-> c.luid, modes |-> q.modes, minor |-> q.minor]]
    /\ q' = NextAdapter
    /\ UNCHANGED <<machine, sessions, held, ctx, apiMinor>>

Step ==
    \/ \E f \in DXGIFails : VersionAccel(f) \/ DefaultAccel(f)
    \/ \E w \in BOOLEAN : \/ VersionOpen(w) \/ OpenSession(w)
                          \/ QueryPlatform(w) \/ OpenD3D9Session(w)
    \/ \E n \in Minor \cup {0} : VersionAsk(n) \/ QueryVersion(n)
    \/ QueryMSDKCaps \/ QueryExtDeviceID
    \/ \E f \in D3D9Fails, g \in DXGIFails : CheckD3D9Support(f, g)

Next == \/ QueryAPIVersion
        \/ \E s \in BOOLEAN : QueryLibraryCaps(s)
        \/ Step

Spec == Init /\ [][Next]_vars

------------------------------------------------------------------------------

Context == [device : Int, luid : Int, loaderDevice : Int,
            impl : Adapter \cup {-1}, implD3D9 : Adapter \cup {-1}]
Modes == SUBSET {"VAAPI", "D3D11", "D3D9"}
Implementation == [device : Int, luid : Int, minor : Minor \cup {0}, modes : Modes]
Query == [op : {"idle", "version", "caps"}, a : Adapter, skip : BOOLEAN, idx : Adapter,
          step : {"none", "first", "accel", "open", "ask", "version", "platform",
                  "d3d9", "d3d9 open", "ext"},
          modes : Modes, minor : Minor \cup {0}]

\* Every variable keeps its type; at most one test session is ever open.
TypeOK ==
    /\ machine \in Machine
    /\ q \in Query
    /\ sessions \in {0, 1}
    /\ held \in [References -> Nat]
    /\ ctx \in [Adapter -> Context] /\ answer \in [Adapter -> Implementation \cup {None}]
    /\ apiMinor \in Minor \cup {0}

\* However the calls of a query fail, no test session outlives the query of its
\* adapter, as MFXClose follows on every path out of QueryAPIVersion and
\* QueryMSDKCaps; and asking for an adapter leaves no system library loaded and no
\* interface open, whichever system call fails.
NothingStaysOpen ==
    /\ TypeOK
    /\ q.step \notin {"ask", "version", "platform"} => sessions = 0
    /\ held = NothingHeld

\* An implementation reported for adapter a is that of an Intel adapter, with the
\* device (and, on Windows, the LUID) of this adapter: nothing of another adapter
\* or of an earlier query of the same record shows.  A runtime before API 1.19
\* leaves the device of a Windows adapter unknown (0).
DescribesItsAdapter ==
    \A a \in Adapter : answer[a] # None =>
        LET cards == IF machine.windows THEN machine.dxgi ELSE machine.nodes
        IN  /\ a < Len(cards) /\ cards[a + 1].vendor = "intel"
            /\ IF machine.windows
               THEN /\ answer[a].luid = cards[a + 1].luid
                    /\ answer[a].device \in {cards[a + 1].device, 0}
               ELSE answer[a].device = cards[a + 1].device

\* D3D9 numbers the adapters in its own order.  Where an implementation offers
\* D3D9, the number kept for its sessions is that of the same adapter.
D3D9OnSameAdapter ==
    \A a \in Adapter : "D3D9" \in answer[a].modes =>
        LET i == ctx[a].implD3D9
        IN  /\ i \in Adapter /\ i < Len(machine.d3d9)
            /\ machine.d3d9[i + 1].luid = machine.dxgi[a + 1].luid

==========================================================================
