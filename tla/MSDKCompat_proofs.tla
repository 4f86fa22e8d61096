------------------------- MODULE MSDKCompat_proofs -------------------------
(***************************************************************************)
(* MSDKCompat: whatever machine is asked, however its calls fail, and      *)
(* however often: a query of a 1.x runtime leaves no session open and no   *)
(* system library or interface held, and what it reports of an adapter is  *)
(* of this adapter, its number under D3D9 included.                        *)
(***************************************************************************)
EXTENDS MSDKCompat, Ordered_proofs

-----------------------------------------------------------------------------
(* The inductive invariant                                                 *)

\* The cards of the machine in the order in which sessions number them.
CardsOf(m) == IF m.windows THEN m.dxgi ELSE m.nodes

\* Adapter a of the machine is an Intel one.
Intel(m, a) == a < Len(CardsOf(m)) /\ CardsOf(m)[a + 1].vendor = "intel"

\* The steps of a query of capabilities at which its session is open, those after
\* DefaultAccel found the adapter, and those of the search for its D3D9 number.
AskSteps == {"version", "platform"}
KnownSteps == {"open", "version", "platform", "d3d9", "d3d9 open", "ext"}
D3D9Steps == {"d3d9", "d3d9 open"}

\* One session is open while the runtime is asked, none at any other step.
OneSession ==
    sessions = IF At("version", "ask") \/ (q.op = "caps" /\ q.step \in AskSteps) THEN 1 ELSE 0

\* A query answers the adapters in their order.
AnswersInOrder ==
    q.op = "caps" => \A a \in Adapter : q.a <= a => answer[a] = None

\* What the record of the adapter under query holds on Linux: the device of its
\* render node, from the first step on.
NodeRecord ==
    q.op = "caps" /\ q.step # "first" /\ ~machine.windows =>
        /\ Intel(machine, q.a)
        /\ ctx[q.a].device = machine.nodes[q.a + 1].device /\ ctx[q.a].device # 0

\* On Windows: no device (that of an earlier query is cleared), then the LUID of
\* the adapter, no device from the loader, and at the end the device it told.
DXGIRecord ==
    q.op = "caps" /\ q.step # "first" /\ machine.windows =>
        /\ q.step \in {"accel", "open"} \cup AskSteps => ctx[q.a].device = 0
        /\ q.step \in KnownSteps =>
              /\ Intel(machine, q.a)
              /\ ctx[q.a].luid = machine.dxgi[q.a + 1].luid
              /\ ctx[q.a].device \in {machine.dxgi[q.a + 1].device, 0}
        /\ q.step \in AskSteps => ctx[q.a].loaderDevice = 0

\* Adapter i of D3D9 is adapter a of DXGI.
SameAdapter(m, a, i) ==
    i \in Adapter /\ i < Len(m.d3d9) /\ m.d3d9[i + 1].luid = m.dxgi[a + 1].luid

\* D3D9 is looked for on Windows only; it joins the modes with the number found.
D3D9Search ==
    q.op = "caps" =>
        /\ q.step \in D3D9Steps => machine.windows
        /\ q.step = "d3d9 open" => SameAdapter(machine, q.a, q.idx)
        /\ "D3D9" \in q.modes =>
              q.step = "ext" /\ SameAdapter(machine, q.a, ctx[q.a].implD3D9)

MSDKInv ==
    /\ TypeOK /\ held = NothingHeld /\ OneSession /\ AnswersInOrder
    /\ NodeRecord /\ DXGIRecord /\ D3D9Search
    /\ DescribesItsAdapter /\ D3D9OnSameAdapter

-----------------------------------------------------------------------------
(* What the devices of Adapters find and hold                              *)

\* A machine is made of cards.
LEMMA MachineCards ==
    ASSUME NEW m \in Machine
    PROVE  /\ m.windows \in BOOLEAN
           /\ m.dxgi \in Seq(Cards) /\ m.d3d9 \in Seq(Cards) /\ m.nodes \in Seq(Cards)
           /\ Len(m.dxgi) \in Nat /\ Len(m.d3d9) \in Nat /\ Len(m.nodes) \in Nat
           /\ DOMAIN m.dxgi = 1..Len(m.dxgi) /\ DOMAIN m.nodes = 1..Len(m.nodes)
<1>1. m.dxgi \in Seq(Cards) /\ m.d3d9 \in Seq(Cards) /\ m.nodes \in Seq(Cards)
  BY MSDKAssumption
<1> QED
  BY <1>1, MSDKAssumption

\* D3D9Device: its destructor releases all that Init took, whichever call of Init
\* failed; a device that opened is the card of this number.
LEMMA D3D9InitFields ==
    ASSUME NEW m \in Machine, NEW a \in Nat, NEW fails \in D3D9Fails
    PROVE  LET d == D3D9Init(m, a, fails)
           IN  /\ Destroy(d) = NothingHeld
               /\ d.ok => /\ a < Len(m.d3d9)
                          /\ d.luid \in {m.d3d9[a + 1].luid, 0}
<1> DEFINE Did(c)  == Answered(D3D9Calls, fails, c)
           present == a < Len(m.d3d9)
           taken   == (IF Did("LoadLibrary") THEN {"d3d9.dll"} ELSE {})
                        \cup (IF Did("Direct3DCreate9") THEN {"d3d9"} ELSE {})
                        \cup (IF present /\ Did("Direct3DCreate9Ex") THEN {"d3d9ex"} ELSE {})
           base    == [NoDevice EXCEPT !.held = Took(taken), !.points = taken]
           d       == D3D9Init(m, a, fails)
<1>1. base.held = Took(taken) /\ base.points = taken /\ base.ok = FALSE
  <2> HIDE DEF taken
  <2> QED BY DEF NoDevice
<1>2. d.held = Took(taken) /\ d.points = taken
  <2> HIDE DEF taken
  <2> QED BY DEF D3D9Init, NoDevice, taken
<1>3. d.ok => a < Len(m.d3d9) /\ d.luid \in {m.d3d9[a + 1].luid, 0}
  BY <1>1 DEF D3D9Init
<1>4. Destroy(d) = NothingHeld
  <2> HIDE DEF taken, d
  <2> QED BY <1>2 DEF Destroy, Took, NothingHeld
<1> QED
  BY <1>3, <1>4

\* DXGI1Device: the same; of the adapters walked only that of the number is kept.
LEMMA DXGI1InitFields ==
    ASSUME NEW m \in Machine, NEW a \in Nat, NEW fails \in DXGIFails
    PROVE  LET d == DXGI1Init(m, a, fails)
           IN  /\ Destroy(d) = NothingHeld
               /\ d.ok \in BOOLEAN
               /\ d.ok => /\ a < Len(m.dxgi)
                          /\ d.vendor = m.dxgi[a + 1].vendor
                          /\ d.luid = m.dxgi[a + 1].luid
<1> DEFINE Did(c)  == Answered(DXGICalls, fails, c)
           present == Did("CreateDXGIFactory1") /\ a < Len(m.dxgi)
           seen    == IF Did("CreateDXGIFactory1") THEN DOMAIN m.dxgi ELSE {}
           taken   == (IF Did("LoadLibrary") THEN {"dxgi.dll"} ELSE {})
                        \cup (IF Did("CreateDXGIFactory1") THEN {"factory"} ELSE {})
           kept    == Kept(seen, a)
           base    == [NoDevice EXCEPT
                         !.held = [Took(taken) EXCEPT !["adapter"] = Cardinality(kept)],
                         !.points = taken \cup (IF present THEN {"adapter"} ELSE {})]
           d       == DXGI1Init(m, a, fails)
<1>1. Cardinality(kept) = IF present THEN 1 ELSE 0
  <2>1. CASE present
    <3>1. kept = {a + 1}
      BY <2>1, MachineCards DEF Kept
    <3> QED BY <2>1, <3>1, FS_Singleton
  <2>2. CASE ~present
    <3>1. kept = {}
      BY <2>2, MachineCards DEF Kept
    <3> QED BY <2>2, <3>1, FS_EmptySet
  <2> QED BY <2>1, <2>2
<1>2. /\ d.held = [Took(taken) EXCEPT !["adapter"] = Cardinality(kept)]
      /\ d.points = taken \cup (IF present THEN {"adapter"} ELSE {})
  BY DEF DXGI1Init, NoDevice
<1>3. base.ok = FALSE
  BY DEF NoDevice
<1>4. /\ d.ok \in BOOLEAN
      /\ d.ok => /\ a < Len(m.dxgi)
                 /\ d.vendor = m.dxgi[a + 1].vendor
                 /\ d.luid = m.dxgi[a + 1].luid
  <2> DEFINE card == m.dxgi[a + 1]
             full == [base EXCEPT !.ok = TRUE, !.vendor = card.vendor, !.device = card.device,
                                  !.luid = card.luid]
  <2>1. d = IF present /\ Did("GetDesc1") THEN full ELSE base
    BY DEF DXGI1Init
  <2>2. full.ok = TRUE /\ full.vendor = card.vendor /\ full.luid = card.luid
    BY DEF NoDevice
  <2> HIDE DEF full, base, d, card, Did
  <2>3. CASE present /\ Did("GetDesc1")
    <3> QED BY <2>1, <2>2, <2>3 DEF card
  <2>4. CASE ~(present /\ Did("GetDesc1"))
    <3> QED BY <2>1, <2>4, <1>3
  <2> QED BY <2>3, <2>4
<1>5. "adapter" \notin taken
  OBVIOUS
<1>6. Destroy(d) = NothingHeld
  <2> HIDE DEF taken, d, kept, present
  <2> QED BY <1>1, <1>2, <1>5 DEF Destroy, Took, NothingHeld, References
<1> QED
  BY <1>4, <1>6

\* When no call fails, every call is answered.
LEMMA AllAnswered ==
    ASSUME NEW fails \in DXGIFails, ~(fails <= Len(DXGICalls))
    PROVE  Answered(DXGICalls, fails, "CreateDXGIFactory1") /\ Answered(DXGICalls, fails, "GetDesc1")
<1>1. fails = 5 /\ Len(DXGICalls) = 4
  BY DEF DXGIFails, DXGICalls
<1>2. 3 \in 1..(fails - 1) /\ 4 \in 1..(fails - 1)
  BY <1>1
<1>3. DXGICalls[3] = "CreateDXGIFactory1" /\ DXGICalls[4] = "GetDesc1"
  BY DEF DXGICalls
<1> QED
  BY <1>1, <1>2, <1>3 DEF Answered

\* UseAlternativeWay holds nothing at its end, and finds only an adapter with the
\* LUID it was asked for, which is a valid one.
LEMMA UseAlternativeWayFields ==
    ASSUME NEW m \in Machine, NEW luid \in Nat, NEW fails \in DXGIFails
    PROVE  LET x == UseAlternativeWay(m, luid, fails)
           IN  /\ Destroy(x) = NothingHeld
               /\ x.ok => x.luid = luid /\ luid # 0
<1> DEFINE last    == IF fails <= Len(DXGICalls) THEN 0 ELSE Len(m.dxgi)
           matches == {k \in 1..last : m.dxgi[k].luid = luid}
           least   == CHOOSE k \in matches : \A j \in matches : k <= j
           final   == IF matches = {} THEN last ELSE least - 1
           dev     == DXGI1Init(m, final, fails)
           x       == UseAlternativeWay(m, luid, fails)
<1>1. last \in Nat /\ last <= Len(m.dxgi)
  BY MachineCards
<1>2. matches # {} => least \in matches /\ least \in 1..last
  <2> SUFFICES ASSUME matches # {} PROVE least \in matches
    OBVIOUS
  <2> HIDE DEF last
  <2>1. matches \subseteq Int /\ matches \subseteq 1..last
    BY <1>1
  <2>2. \E k \in matches : \A j \in matches : k <= j
    <3>1. IsFiniteSet(matches)
      <4> HIDE DEF matches
      <4>1. IsFiniteSet(1..last)
        BY <1>1, FS_Interval
      <4> QED BY <2>1, <4>1, FS_Subset
    <3> HIDE DEF matches
    <3> QED BY <2>1, <3>1, Extremes
  <2> HIDE DEF matches
  <2> QED BY <2>2
<1>3. final \in Nat
  <2> HIDE DEF least, matches, last
  <2> QED BY <1>1, <1>2
<1>4. Destroy(dev) = NothingHeld
  <2> HIDE DEF final
  <2> QED BY <1>3, DXGI1InitFields
<1>5. ASSUME luid = 0
      PROVE  Destroy(x) = NothingHeld /\ ~x.ok
  <2>1. x = NoDevice
    BY <1>5 DEF UseAlternativeWay
  <2> HIDE DEF x
  <2> QED BY <2>1 DEF NoDevice, Destroy, NothingHeld
<1>6. ASSUME luid # 0
      PROVE  Destroy(x) = NothingHeld /\ (x.ok => x.luid = luid)
  <2>1. x = [dev EXCEPT !.ok = matches # {}]
    BY <1>6 DEF UseAlternativeWay
  <2>2. x.held = dev.held /\ x.points = dev.points /\ x.luid = dev.luid
    <3> HIDE DEF x, dev, matches
    <3> QED BY <2>1
  <2>3. Destroy(x) = NothingHeld
    <3> HIDE DEF x, dev
    <3> QED BY <2>2, <1>4 DEF Destroy
  <2>4. ASSUME x.ok PROVE x.luid = luid
    <3>1. DOMAIN dev = DOMAIN NoDevice
      <4> HIDE DEF final
      <4> QED BY DEF dev, DXGI1Init, NoDevice
    <3>2. matches # {}
      <4> HIDE DEF x, dev, matches
      <4> QED BY <2>1, <2>4, <3>1 DEF NoDevice
    <3>3. last = Len(m.dxgi) /\ ~(fails <= Len(DXGICalls))
      <4>1. CASE fails <= Len(DXGICalls)
        <5> QED BY <3>2, <4>1
      <4> QED BY <4>1
    <3>4. final + 1 = least /\ least \in 1..Len(m.dxgi) /\ m.dxgi[least].luid = luid
      <4>1. final = least - 1 /\ least \in 1..last /\ m.dxgi[least].luid = luid
        BY <1>2, <3>2
      <4> HIDE DEF final, least, last
      <4> QED BY <4>1, <3>3
    <3>5. final < Len(m.dxgi)
      <4> HIDE DEF final, least
      <4> QED BY <3>4, <1>3, MachineCards
    <3>6. dev.luid = m.dxgi[final + 1].luid
      <4> HIDE DEF final
      <4> QED BY <1>3, <3>3, <3>5, AllAnswered DEF DXGI1Init, NoDevice
    <3> HIDE DEF final, least, dev, x
    <3> QED BY <2>2, <3>4, <3>6
  <2> HIDE DEF x
  <2> QED BY <2>3, <2>4
<1> HIDE DEF last, matches, least, final, dev
<1> QED
  BY <1>5, <1>6

\* SelectImplementationType through D3D9: nothing is held at its end; an Intel
\* adapter is the one of the number asked for, its LUID known or not.  (A card
\* hidden by Remote Desktop is described by DXGI, found by the LUID of D3D9.)
LEMMA SelectD3D9 ==
    ASSUME NEW m \in Machine, NEW a \in Nat, NEW f \in D3D9Fails, NEW g \in DXGIFails
    PROVE  LET s == SelectImplementationType(m, "D3D9", a, f, g)
           IN  /\ s.held = NothingHeld
               /\ s.ok /\ s.vendor = "intel" => /\ a < Len(m.d3d9)
                                                /\ s.luid \in {m.d3d9[a + 1].luid, 0}
<1> DEFINE d == D3D9Init(m, a, f)
           x == UseAlternativeWay(m, d.luid, g)
           hidden == d.vendor = "none" \/ d.device = 0
           found == IF hidden THEN x ELSE d
           s == SelectImplementationType(m, "D3D9", a, f, g)
<1>1. /\ Destroy(d) = NothingHeld
      /\ d.ok => a < Len(m.d3d9) /\ d.luid \in {m.d3d9[a + 1].luid, 0}
  BY D3D9InitFields
<1>2. s = InitD3D9(m, a, f, g)
  BY DEF SelectImplementationType
<1>3. ASSUME ~d.ok
      PROVE  s.held = NothingHeld /\ ~s.ok
  <2>1. s = [NoDevice EXCEPT !.held = Destroy(d)]
    <3> HIDE DEF x, s
    <3> QED BY <1>2, <1>3 DEF InitD3D9
  <2> HIDE DEF s, d
  <2> QED BY <2>1, <1>1 DEF NoDevice
<1>4. ASSUME d.ok
      PROVE  /\ s.held = NothingHeld
             /\ s.ok /\ s.vendor = "intel" => s.luid \in {m.d3d9[a + 1].luid, 0}
  <2>1. /\ s.held = Plus(Destroy(d), IF hidden THEN Destroy(x) ELSE NothingHeld)
        /\ s.vendor = IF found.ok THEN found.vendor ELSE "none"
        /\ s.luid = IF found.ok THEN found.luid ELSE 0
    <3> HIDE DEF s
    <3> QED BY <1>2, <1>4 DEF InitD3D9
  <2>2. d.luid \in Nat
    <3>1. m.d3d9[a + 1] \in Cards
      <4>1. a + 1 \in 1..Len(m.d3d9)
        <5> HIDE DEF d
        <5> QED BY <1>1, <1>4, MachineCards
      <4> HIDE DEF d
      <4> QED BY <4>1, MachineCards
    <3> HIDE DEF d
    <3> QED BY <1>1, <1>4, <3>1 DEF Cards
  <2>3. Destroy(x) = NothingHeld /\ (x.ok => x.luid = d.luid)
    <3> HIDE DEF d
    <3> QED BY <2>2, UseAlternativeWayFields
  <2>4. Plus(NothingHeld, NothingHeld) = NothingHeld
    BY DEF Plus, NothingHeld
  <2>5. s.held = NothingHeld
    <3> HIDE DEF s, d, x, hidden
    <3> QED BY <1>1, <2>1, <2>3, <2>4
  <2>6. found.ok => found.luid = d.luid
    <3> HIDE DEF d, x, hidden
    <3> QED BY <2>3
  <2> HIDE DEF s, d, x, found
  <2> QED BY <1>1, <1>4, <2>1, <2>5, <2>6
<1> HIDE DEF d
<1> QED
  BY <1>1, <1>3, <1>4

\* GetDefaultAccelType: nothing is held at its end; the adapter it settles on is an
\* Intel one on Windows (Linux has one acceleration type and asks nothing).
LEMMA DefaultAccelFields ==
    ASSUME machine \in Machine, NEW a \in Nat, NEW f \in DXGIFails
    PROVE  LET d == GetDefaultAccelType(a, f)
           IN  /\ d.held = NothingHeld
               /\ d.found => d.luid \in Int
               /\ d.ok /\ machine.windows => /\ d.found /\ Intel(machine, a)
                                             /\ d.luid = machine.dxgi[a + 1].luid
<1> DEFINE x == DXGI1Init(machine, a, f)
           s == SelectImplementationType(machine, "D3D11", a, 0, f)
           d == GetDefaultAccelType(a, f)
<1>1. CASE ~machine.windows
  BY <1>1 DEF GetDefaultAccelType
<1>2. ASSUME machine.windows
      PROVE  /\ d.held = NothingHeld
             /\ d.found => d.luid \in Int
             /\ d.ok => /\ d.found /\ Intel(machine, a)
                        /\ d.luid = machine.dxgi[a + 1].luid
  <2>1. /\ Destroy(x) = NothingHeld
        /\ x.ok \in BOOLEAN
        /\ x.ok => /\ a < Len(machine.dxgi)
                   /\ x.vendor = machine.dxgi[a + 1].vendor
                   /\ x.luid = machine.dxgi[a + 1].luid
    BY DXGI1InitFields
  <2>2. s = [x EXCEPT !.held = Destroy(x), !.points = {}]
    BY DEF SelectImplementationType, InitDXGI1
  <2>3. DOMAIN x = DOMAIN NoDevice
    BY DEF DXGI1Init, NoDevice
  <2>4. s.ok = x.ok /\ s.vendor = x.vendor /\ s.luid = x.luid /\ s.held = Destroy(x)
    <3> HIDE DEF s, x
    <3> QED BY <2>2, <2>3 DEF NoDevice
  <2>5. /\ d.ok = (s.ok /\ s.vendor = "intel") /\ d.found = s.ok
        /\ d.luid = s.luid /\ d.held = s.held
    <3> HIDE DEF s
    <3> QED BY <1>2 DEF GetDefaultAccelType, s
  <2>6. x.ok => x.luid \in Int
    <3> SUFFICES ASSUME x.ok PROVE x.luid \in Int
      OBVIOUS
    <3>1. a + 1 \in 1..Len(machine.dxgi)
      <4> HIDE DEF x
      <4> QED BY <2>1, MachineCards
    <3>2. machine.dxgi[a + 1] \in Cards
      BY <3>1, MachineCards
    <3> HIDE DEF x
    <3> QED BY <2>1, <3>2 DEF Cards
  <2> HIDE DEF s, x, d
  <2> QED BY <1>2, <2>1, <2>4, <2>5, <2>6 DEF Intel, CardsOf
<1> QED
  BY <1>1, <1>2

-----------------------------------------------------------------------------
(* The order of a query                                                    *)

LEMMA Constants ==
    /\ MaxImpl \in Nat \ {0} /\ 0 \in Adapter
    /\ \A a \in Adapter : a \in Nat /\ a \in Int
    /\ -1 \notin Adapter
BY MSDKAssumption DEF Adapter

\* What the query is after its last adapter.
LEMMA IdleFields ==
    /\ Idle \in Query /\ Idle.op = "idle" /\ Idle.step = "none" /\ Idle.modes = {}
    /\ Idle.a = 0 /\ Idle.idx = 0 /\ Idle.minor = 0 /\ Idle.skip = FALSE
BY Constants DEF Idle, Query, Modes

\* A query that starts.
LEMMA StartFields ==
    ASSUME NEW op \in {"version", "caps"}, NEW skip \in BOOLEAN
    PROVE  LET n == [Idle EXCEPT !.op = op, !.step = "first", !.skip = skip]
           IN  n \in Query /\ n.op = op /\ n.step = "first" /\ n.a = 0 /\ n.modes = {}
BY Constants DEF Idle, Query, Modes

\* The adapter under query has a number.
LEMMA QueryAdapter ==
    ASSUME q \in Query
    PROVE  /\ q.a \in Adapter /\ q.a \in Nat /\ q.idx \in Adapter /\ q.idx \in Nat
           /\ q.modes \in Modes /\ q.minor \in Minor \cup {0} /\ q.skip \in BOOLEAN
<1>1. /\ q.a \in Adapter /\ q.idx \in Adapter
      /\ q.modes \in Modes /\ q.minor \in Minor \cup {0} /\ q.skip \in BOOLEAN
  BY DEF Query
<1> QED
  BY <1>1, Constants

\* NextAdapter is the first step for the next adapter, or the end.
LEMMA NextAdapterFields ==
    ASSUME q \in Query, q.op # "idle"
    PROVE  /\ NextAdapter \in Query /\ NextAdapter.modes = {}
           /\ \/ NextAdapter.op = "idle"
              \/ /\ NextAdapter.op = q.op /\ NextAdapter.a = q.a + 1
                 /\ NextAdapter.step = "first"
<1>1. CASE q.a + 1 < MaxImpl
  <2> DEFINE n == [Idle EXCEPT !.op = q.op, !.a = q.a + 1, !.step = "first", !.skip = q.skip]
  <2>1. NextAdapter = n
    BY <1>1 DEF NextAdapter
  <2>2. q.a + 1 \in Adapter
    <3>1. q.a \in Nat
      BY QueryAdapter
    <3> QED BY <1>1, <3>1, Constants DEF Adapter
  <2>3. n \in Query /\ n.modes = {} /\ n.op = q.op /\ n.a = q.a + 1 /\ n.step = "first"
    BY <2>2, Constants DEF Idle, Query, Modes
  <2> HIDE DEF n
  <2> QED BY <2>1, <2>3
<1>2. CASE ~(q.a + 1 < MaxImpl)
  BY <1>2, IdleFields DEF NextAdapter
<1> QED
  BY <1>1, <1>2

\* A query of the version touches neither the records nor the answers.
LEMMA VersionStep ==
    ASSUME MSDKInv, TypeOK', UNCHANGED <<machine, held, ctx, answer>>,
           q'.op # "caps", OneSession'
    PROVE  MSDKInv'
BY DEF MSDKInv, OneSession, AnswersInOrder, NodeRecord, DXGIRecord, D3D9Search,
       DescribesItsAdapter, D3D9OnSameAdapter

\* The answers given stand as long as only the record of the adapter under query,
\* which has no answer yet, changes.
LEMMA AnswersStand ==
    ASSUME MSDKInv, q.op = "caps", UNCHANGED <<machine, answer>>,
           \A b \in Adapter \ {q.a} : ctx'[b] = ctx[b]
    PROVE  DescribesItsAdapter' /\ D3D9OnSameAdapter'
<1>0. q.a \in Adapter /\ q.a \in Nat
  BY QueryAdapter DEF MSDKInv, TypeOK
<1>1. q.a \in Adapter /\ answer[q.a] = None
  BY <1>0 DEF MSDKInv, AnswersInOrder
<1>2. DescribesItsAdapter'
  BY DEF MSDKInv, DescribesItsAdapter
<1>3. None.modes = {}
  BY DEF None
<1>4. D3D9OnSameAdapter'
  BY <1>1, <1>3 DEF MSDKInv, D3D9OnSameAdapter
<1> QED
  BY <1>2, <1>4

\* A step of the query that stays with its adapter.
LEMMA StaysWithAdapter ==
    ASSUME MSDKInv, q.op = "caps", TypeOK', UNCHANGED <<machine, held, answer>>,
           \A b \in Adapter \ {q.a} : ctx'[b] = ctx[b],
           q'.op = "caps", q'.a = q.a,
           OneSession', NodeRecord', DXGIRecord', D3D9Search'
    PROVE  MSDKInv'
<1>1. AnswersInOrder'
  BY DEF MSDKInv, AnswersInOrder
<1> QED
  BY <1>1, AnswersStand DEF MSDKInv

\* A query that goes on to the next adapter has its session closed.
LEMMA MovesOn ==
    ASSUME MSDKInv, q.op = "caps", q' = NextAdapter, sessions' = 0,
           UNCHANGED <<machine, held, apiMinor>>,
           ctx' \in [Adapter -> Context],
           answer' \in [Adapter -> Implementation \cup {None}],
           \A b \in Adapter \ {q.a} : answer'[b] = answer[b]
    PROVE  TypeOK' /\ OneSession' /\ AnswersInOrder' /\ NodeRecord' /\ DXGIRecord' /\ D3D9Search'
<1>0. q \in Query
  BY DEF MSDKInv, TypeOK
<1>1. /\ q' \in Query /\ q'.modes = {}
      /\ q'.op = "idle" \/ (q'.op = "caps" /\ q'.a = q.a + 1 /\ q'.step = "first")
  BY <1>0, NextAdapterFields
<1>2. TypeOK'
  BY <1>1 DEF MSDKInv, TypeOK
<1>3. OneSession'
  BY <1>1 DEF OneSession, At, AskSteps
<1>4. AnswersInOrder'
  <2> SUFFICES ASSUME q'.op = "caps", NEW a \in Adapter, q'.a <= a
               PROVE  answer'[a] = None
    BY DEF AnswersInOrder
  <2>1. q'.a = q.a + 1
    BY <1>1
  <2>2. q.a \in Nat /\ a \in Nat
    BY <1>0, QueryAdapter, Constants
  <2>3. q.a <= a /\ a # q.a
    BY <2>1, <2>2
  <2> QED BY <2>3 DEF MSDKInv, AnswersInOrder
<1>5. NodeRecord' /\ DXGIRecord'
  BY <1>1 DEF NodeRecord, DXGIRecord, AskSteps, KnownSteps
<1>6. D3D9Search'
  BY <1>1 DEF D3D9Search, D3D9Steps
<1> QED
  BY <1>2, <1>3, <1>4, <1>5, <1>6

\* A step of the query that gives its adapter up.
LEMMA GivesUp ==
    ASSUME MSDKInv, q.op = "caps", q' = NextAdapter, sessions' = 0,
           UNCHANGED <<machine, held, answer, apiMinor>>,
           ctx' \in [Adapter -> Context],
           \A b \in Adapter \ {q.a} : ctx'[b] = ctx[b]
    PROVE  MSDKInv'
<1>1. answer' \in [Adapter -> Implementation \cup {None}]
  BY DEF MSDKInv, TypeOK
<1> QED
  BY <1>1, MovesOn, AnswersStand DEF MSDKInv

-----------------------------------------------------------------------------
(* Each step keeps the invariant                                           *)

LEMMA AdaptersHeld == Plus(NothingHeld, NothingHeld) = NothingHeld
BY DEF Plus, NothingHeld

\* The record of the adapter under query, after one of its fields is set.
LEMMA RecordSet ==
    ASSUME MSDKInv
    PROVE  /\ q.a \in Adapter /\ ctx[q.a] \in Context
           /\ \A d \in Int :
                 LET c == [ctx EXCEPT ![q.a].device = d]
                 IN  /\ c \in [Adapter -> Context] /\ \A b \in Adapter \ {q.a} : c[b] = ctx[b]
                     /\ c[q.a].device = d
           /\ \A d \in Int :
                 LET c == [ctx EXCEPT ![q.a].luid = d]
                 IN  /\ c \in [Adapter -> Context] /\ \A b \in Adapter \ {q.a} : c[b] = ctx[b]
                     /\ c[q.a].luid = d /\ c[q.a].device = ctx[q.a].device
           /\ \A d \in Int :
                 LET c == [ctx EXCEPT ![q.a].loaderDevice = d]
                 IN  /\ c \in [Adapter -> Context] /\ \A b \in Adapter \ {q.a} : c[b] = ctx[b]
                     /\ c[q.a].loaderDevice = d
                     /\ c[q.a].device = ctx[q.a].device /\ c[q.a].luid = ctx[q.a].luid
           /\ LET c == [ctx EXCEPT ![q.a].impl = q.a]
              IN  /\ c \in [Adapter -> Context] /\ \A b \in Adapter \ {q.a} : c[b] = ctx[b]
                  /\ c[q.a].loaderDevice = ctx[q.a].loaderDevice
                  /\ c[q.a].device = ctx[q.a].device /\ c[q.a].luid = ctx[q.a].luid
           /\ \A i \in Adapter \cup {-1} :
                 LET c == [ctx EXCEPT ![q.a].implD3D9 = i]
                 IN  /\ c \in [Adapter -> Context] /\ \A b \in Adapter \ {q.a} : c[b] = ctx[b]
                     /\ c[q.a].implD3D9 = i
                     /\ c[q.a].device = ctx[q.a].device /\ c[q.a].luid = ctx[q.a].luid
<1>1. q.a \in Adapter /\ ctx \in [Adapter -> Context]
  BY QueryAdapter DEF MSDKInv, TypeOK
<1>2. ctx[q.a] \in Context
  BY <1>1
<1> QED
  BY <1>1, <1>2 DEF Context

\* The devices a session and its loader may name.
LEMMA DevicesNamed ==
    ASSUME MSDKInv, NEW a \in Adapter
    PROVE  /\ LoaderDevice(machine) \in Int
           /\ machine.windows => LoaderDevice(machine) = 0
           /\ DeviceOf(machine, a) \in Int
           /\ machine.windows => \/ DeviceOf(machine, a) = 0
                                 \/ /\ a < Len(machine.dxgi)
                                    /\ DeviceOf(machine, a) = machine.dxgi[a + 1].device
           /\ GetRenderNodeDescription(a) \in Int
           /\ GetRenderNodeDescription(a) # 0 /\ ~machine.windows =>
                 /\ Intel(machine, a)
                 /\ GetRenderNodeDescription(a) = machine.nodes[a + 1].device
<1>1. machine \in Machine /\ a \in Nat
  BY Constants DEF MSDKInv, TypeOK
<1>2. /\ \A k \in DOMAIN machine.nodes : machine.nodes[k] \in Cards
      /\ \A k \in DOMAIN machine.dxgi : machine.dxgi[k] \in Cards
  BY <1>1, MachineCards
<1>3. /\ \A k \in DOMAIN machine.nodes : machine.nodes[k].device \in Int
      /\ \A k \in DOMAIN machine.dxgi : machine.dxgi[k].device \in Int
  BY <1>2 DEF Cards
<1>4. /\ a < Len(machine.nodes) => a + 1 \in DOMAIN machine.nodes
      /\ a < Len(machine.dxgi) => a + 1 \in DOMAIN machine.dxgi
  BY <1>1, MachineCards
<1>5. LoaderDevice(machine) \in Int /\ (machine.windows => LoaderDevice(machine) = 0)
  BY <1>3 DEF LoaderDevice
<1>6. /\ DeviceOf(machine, a) \in Int
      /\ machine.windows => \/ DeviceOf(machine, a) = 0
                            \/ /\ a < Len(machine.dxgi)
                               /\ DeviceOf(machine, a) = machine.dxgi[a + 1].device
  BY <1>3, <1>4 DEF DeviceOf
<1>7. /\ GetRenderNodeDescription(a) \in Int
      /\ GetRenderNodeDescription(a) # 0 /\ ~machine.windows =>
            /\ Intel(machine, a)
            /\ GetRenderNodeDescription(a) = machine.nodes[a + 1].device
  BY <1>3, <1>4 DEF GetRenderNodeDescription, Intel, CardsOf
<1> QED
  BY <1>5, <1>6, <1>7

LEMMA InvAtInit == Init => MSDKInv
<1> SUFFICES ASSUME Init PROVE MSDKInv
  OBVIOUS
<1>1. None.modes = {} /\ NothingHeld \in [References -> Nat]
  BY DEF None, NothingHeld
<1>2. NoCtx \in Context
  BY DEF NoCtx, Context
<1>3. TypeOK
  BY <1>1, <1>2, IdleFields DEF Init, TypeOK
<1>4. OneSession
  BY IdleFields DEF Init, OneSession, At
<1>5. AnswersInOrder /\ NodeRecord /\ DXGIRecord /\ D3D9Search
  BY IdleFields DEF Init, AnswersInOrder, NodeRecord, DXGIRecord, D3D9Search
<1>6. DescribesItsAdapter /\ D3D9OnSameAdapter
  BY <1>1 DEF Init, DescribesItsAdapter, D3D9OnSameAdapter
<1> QED
  BY <1>3, <1>4, <1>5, <1>6 DEF MSDKInv, Init

\* The query of the version closes every session it opened.
LEMMA VersionSteps ==
    ASSUME MSDKInv,
           \/ QueryAPIVersion
           \/ \E f \in DXGIFails : VersionAccel(f)
           \/ \E w \in BOOLEAN : VersionOpen(w)
           \/ \E n \in Minor \cup {0} : VersionAsk(n)
    PROVE  MSDKInv'
<1>0. /\ TypeOK /\ q \in Query /\ machine \in Machine /\ held = NothingHeld /\ OneSession
      /\ q.a \in Nat
  BY QueryAdapter DEF MSDKInv, TypeOK
<1>1. ASSUME QueryAPIVersion
      PROVE  MSDKInv'
  <2> DEFINE n == [Idle EXCEPT !.op = "version", !.step = "first"]
  <2>1. n \in Query /\ n.op = "version" /\ n.step = "first"
    BY Constants DEF Idle, Query, Modes
  <2>2. q' = n /\ q.op = "idle"
    BY <1>1 DEF QueryAPIVersion
  <2> HIDE DEF n
  <2>3. TypeOK'
    BY <1>0, <1>1, <2>1, <2>2 DEF QueryAPIVersion, TypeOK
  <2>4. OneSession'
    BY <1>0, <1>1, <2>1, <2>2 DEF QueryAPIVersion, OneSession, At
  <2> QED BY <1>1, <2>1, <2>2, <2>3, <2>4, VersionStep DEF QueryAPIVersion
<1>2. ASSUME NEW f \in DXGIFails, VersionAccel(f)
      PROVE  MSDKInv'
  <2> DEFINE d == GetDefaultAccelType(q.a, f)
             open == [q EXCEPT !.step = "open"]
  <2>1. d.held = NothingHeld
    BY <1>0, DefaultAccelFields
  <2>2. open \in Query /\ open.op = q.op /\ open.step = "open"
    BY <1>0 DEF Query
  <2>3. /\ q.op = "version" /\ q.step = "first"
        /\ q' = IF d.ok THEN open ELSE NextAdapter
        /\ held' = Plus(held, d.held)
        /\ UNCHANGED <<machine, sessions, ctx, answer, apiMinor>>
    BY <1>2 DEF VersionAccel, At
  <2> HIDE DEF d, open
  <2>4. held' = held
    BY <1>0, <2>1, <2>3, AdaptersHeld
  <2>5. /\ q' \in Query /\ q'.op # "caps"
        /\ q'.op = "idle" \/ (q'.op = "version" /\ q'.step # "ask")
    BY <1>0, <2>2, <2>3, NextAdapterFields
  <2>6. TypeOK'
    BY <1>0, <2>3, <2>4, <2>5 DEF TypeOK
  <2>7. OneSession'
    BY <1>0, <2>3, <2>5 DEF OneSession, At
  <2> QED BY <2>3, <2>4, <2>5, <2>6, <2>7, VersionStep
<1>3. ASSUME NEW w \in BOOLEAN, VersionOpen(w)
      PROVE  MSDKInv'
  <2> DEFINE ask == [q EXCEPT !.step = "ask"]
  <2>1. ask \in Query /\ ask.op = q.op /\ ask.step = "ask"
    BY <1>0 DEF Query
  <2>2. /\ q.op = "version" /\ q.step = "open"
        /\ q' = IF w THEN ask ELSE NextAdapter
        /\ sessions' = sessions + (IF w THEN 1 ELSE 0)
        /\ UNCHANGED <<machine, held, ctx, answer, apiMinor>>
    BY <1>3 DEF VersionOpen, At
  <2> HIDE DEF ask
  <2>3. sessions = 0
    BY <1>0, <2>2 DEF OneSession, At
  <2>4. /\ q' \in Query /\ q'.op # "caps"
        /\ IF w THEN q'.op = "version" /\ q'.step = "ask"
           ELSE q'.op = "idle" \/ q'.step = "first"
    BY <1>0, <2>1, <2>2, NextAdapterFields
  <2>5. TypeOK'
    BY <1>0, <2>2, <2>3, <2>4 DEF TypeOK
  <2>6. OneSession'
    BY <2>2, <2>3, <2>4 DEF OneSession, At
  <2> QED BY <2>2, <2>4, <2>5, <2>6, VersionStep
<1>4. ASSUME NEW n \in Minor \cup {0}, VersionAsk(n)
      PROVE  MSDKInv'
  <2>1. /\ q.op = "version" /\ q.step = "ask"
        /\ sessions' = sessions - 1 /\ apiMinor' = n
        /\ q' = IF n # 0 THEN Idle ELSE NextAdapter
        /\ UNCHANGED <<machine, held, ctx, answer>>
    BY <1>4 DEF VersionAsk, At
  <2>2. sessions = 1
    BY <1>0, <2>1 DEF OneSession, At
  <2>3. q' \in Query /\ q'.op # "caps" /\ (q'.op = "idle" \/ q'.step = "first")
    BY <1>0, <2>1, NextAdapterFields, IdleFields
  <2>4. TypeOK'
    BY <1>0, <2>1, <2>2, <2>3 DEF TypeOK
  <2>5. OneSession'
    BY <2>1, <2>2, <2>3 DEF OneSession, At
  <2> QED BY <2>1, <2>3, <2>4, <2>5, VersionStep
<1> QED
  BY <1>1, <1>2, <1>3, <1>4

\* A query of capabilities starts with no answer, on the machine as it is then.
LEMMA CapsStart ==
    ASSUME MSDKInv, NEW skip \in BOOLEAN, QueryLibraryCaps(skip)
    PROVE  MSDKInv'
<1> DEFINE n == [Idle EXCEPT !.op = "caps", !.step = "first", !.skip = skip]
<1>1. n \in Query /\ n.op = "caps" /\ n.step = "first" /\ n.a = 0 /\ n.modes = {}
  BY StartFields
<1>2. /\ q' = n /\ q.op = "idle" /\ machine' \in Machine
      /\ answer' = [a \in Adapter |-> None]
      /\ UNCHANGED <<sessions, held, ctx, apiMinor>>
  BY DEF QueryLibraryCaps
<1> HIDE DEF n
<1>3. TypeOK'
  BY <1>1, <1>2 DEF MSDKInv, TypeOK
<1>4. OneSession'
  BY <1>1, <1>2 DEF MSDKInv, OneSession, At, AskSteps
<1>5. AnswersInOrder' /\ NodeRecord' /\ DXGIRecord' /\ D3D9Search'
  BY <1>1, <1>2 DEF AnswersInOrder, NodeRecord, DXGIRecord, D3D9Search, AskSteps, KnownSteps,
     D3D9Steps
<1>6. None.modes = {}
  BY DEF None
<1>7. DescribesItsAdapter' /\ D3D9OnSameAdapter'
  BY <1>2, <1>6 DEF DescribesItsAdapter, D3D9OnSameAdapter
<1> QED
  BY <1>2, <1>3, <1>4, <1>5, <1>7 DEF MSDKInv

\* What the invariant says while an adapter is queried, once and for all steps.
LEMMA UnderQuery ==
    ASSUME MSDKInv, q.op = "caps"
    PROVE  /\ q \in Query /\ q.a \in Adapter /\ q.a \in Nat /\ q.idx \in Adapter /\ q.idx \in Nat
           /\ machine \in Machine /\ machine.windows \in BOOLEAN /\ held = NothingHeld
           /\ ctx \in [Adapter -> Context] /\ ctx[q.a] \in Context
           /\ sessions = IF q.step \in AskSteps THEN 1 ELSE 0
           /\ answer[q.a] = None
           /\ TypeOK /\ NodeRecord /\ DXGIRecord /\ D3D9Search
<1>1. TypeOK /\ q \in Query /\ machine \in Machine /\ held = NothingHeld
  BY DEF MSDKInv, TypeOK
<1>2. q.a \in Adapter /\ q.a \in Nat /\ q.idx \in Adapter /\ q.idx \in Nat
  BY <1>1, QueryAdapter
<1>3. machine.windows \in BOOLEAN
  BY <1>1, MachineCards
<1>4. sessions = IF q.step \in AskSteps THEN 1 ELSE 0
  BY DEF MSDKInv, OneSession, At
<1>5. answer[q.a] = None
  BY <1>2 DEF MSDKInv, AnswersInOrder
<1>6. ctx \in [Adapter -> Context] /\ ctx[q.a] \in Context
  BY <1>2 DEF MSDKInv, TypeOK
<1> QED
  BY <1>1, <1>2, <1>3, <1>4, <1>5, <1>6 DEF MSDKInv

\* QueryMSDKCaps clears the device an earlier query left in the record.
LEMMA FirstStep ==
    ASSUME MSDKInv, QueryMSDKCaps
    PROVE  MSDKInv'
<1> DEFINE d == IF machine.windows THEN 0 ELSE GetRenderNodeDescription(q.a)
           c == [ctx EXCEPT ![q.a].device = d]
           accel == [q EXCEPT !.step = "accel"]
<1>1. /\ q.op = "caps" /\ q.step = "first" /\ ctx' = c
      /\ q' = IF machine.windows \/ d # 0 THEN accel ELSE NextAdapter
      /\ UNCHANGED <<machine, sessions, held, answer, apiMinor>>
  BY DEF QueryMSDKCaps, At
<1>2. d \in Int
  BY <1>1, UnderQuery, DevicesNamed
<1>3. /\ c \in [Adapter -> Context] /\ \A b \in Adapter \ {q.a} : c[b] = ctx[b]
      /\ c[q.a].device = d
  <2> HIDE DEF d
  <2> QED BY <1>2, RecordSet
<1>4. sessions = 0
  BY <1>1, UnderQuery DEF AskSteps
<1>5. CASE machine.windows \/ d # 0
  <2>1. /\ accel \in Query /\ accel.op = "caps" /\ accel.step = "accel"
        /\ accel.a = q.a /\ accel.modes = q.modes
    BY <1>1, UnderQuery DEF Query
  <2> HIDE DEF accel, c
  <2>2. q' = accel
    BY <1>1, <1>5
  <2>3. "D3D9" \notin q.modes
    BY <1>1, UnderQuery DEF D3D9Search
  <2>4. NodeRecord'
    BY <1>1, <1>3, <1>5, <2>1, <2>2, UnderQuery, DevicesNamed, SMTT(30)
       DEF NodeRecord, Intel, CardsOf
  <2>5. DXGIRecord'
    BY <1>1, <1>3, <2>1, <2>2 DEF DXGIRecord, KnownSteps, AskSteps
  <2>6. D3D9Search'
    BY <2>1, <2>2, <2>3 DEF D3D9Search, D3D9Steps
  <2>7. OneSession'
    BY <1>1, <1>4, <2>1, <2>2 DEF OneSession, At, AskSteps
  <2>8. TypeOK'
    BY <1>1, <1>3, <2>1, <2>2, UnderQuery DEF TypeOK
  <2> QED
    BY <1>1, <1>3, <2>1, <2>2, <2>4, <2>5, <2>6, <2>7, <2>8, StaysWithAdapter
<1>6. CASE ~(machine.windows \/ d # 0)
  <2> HIDE DEF accel, c
  <2> QED BY <1>1, <1>3, <1>4, <1>6, GivesUp
<1> QED
  BY <1>5, <1>6

\* DefaultAccel keeps the LUID of the adapter it found.
LEMMA AccelStep ==
    ASSUME MSDKInv, NEW f \in DXGIFails, DefaultAccel(f)
    PROVE  MSDKInv'
<1> DEFINE d == GetDefaultAccelType(q.a, f)
           l == IF d.found THEN d.luid ELSE ctx[q.a].luid
           c == [ctx EXCEPT ![q.a].luid = l]
           open == [q EXCEPT !.step = "open"]
<1>1. /\ q.op = "caps" /\ q.step = "accel" /\ ctx' = c
      /\ q' = IF d.ok THEN open ELSE NextAdapter
      /\ held' = Plus(held, d.held)
      /\ UNCHANGED <<machine, sessions, answer, apiMinor>>
  <2>1. ctx' = [ctx EXCEPT ![q.a].luid = IF d.found THEN d.luid ELSE @]
    BY DEF DefaultAccel
  <2>2. ctx' = c
    <3> HIDE DEF d
    <3> QED BY <2>1
  <2> QED BY <2>2 DEF DefaultAccel, At
<1>2. /\ d.held = NothingHeld
      /\ d.found => d.luid \in Int
      /\ d.ok /\ machine.windows => /\ d.found /\ Intel(machine, q.a)
                                    /\ d.luid = machine.dxgi[q.a + 1].luid
  BY <1>1, UnderQuery, DefaultAccelFields
<1> HIDE DEF d
<1>3. l \in Int
  BY <1>1, <1>2, UnderQuery DEF Context
<1>4. /\ c \in [Adapter -> Context] /\ \A b \in Adapter \ {q.a} : c[b] = ctx[b]
      /\ c[q.a].luid = l /\ c[q.a].device = ctx[q.a].device
  <2> HIDE DEF l
  <2> QED BY <1>3, RecordSet
<1>5. sessions = 0
  BY <1>1, UnderQuery DEF AskSteps
<1>6. held' = held
  BY <1>1, <1>2, UnderQuery, AdaptersHeld
<1>7. CASE d.ok
  <2>1. /\ open \in Query /\ open.op = "caps" /\ open.step = "open"
        /\ open.a = q.a /\ open.modes = q.modes
    BY <1>1, UnderQuery DEF Query
  <2> HIDE DEF open, c
  <2>2. q' = open
    BY <1>1, <1>7
  <2>3. "D3D9" \notin q.modes
    BY <1>1, UnderQuery DEF D3D9Search
  <2>4. NodeRecord'
    BY <1>1, <1>4, <2>1, <2>2, UnderQuery DEF NodeRecord
  <2>5. DXGIRecord'
    BY <1>1, <1>2, <1>4, <1>7, <2>1, <2>2, UnderQuery DEF DXGIRecord, KnownSteps, AskSteps
  <2>6. D3D9Search'
    BY <2>1, <2>2, <2>3 DEF D3D9Search, D3D9Steps
  <2>7. OneSession'
    BY <1>1, <1>5, <2>1, <2>2 DEF OneSession, At, AskSteps
  <2>8. TypeOK'
    BY <1>1, <1>4, <1>6, <2>1, <2>2, UnderQuery DEF TypeOK
  <2> QED
    BY <1>1, <1>4, <1>6, <2>1, <2>2, <2>4, <2>5, <2>6, <2>7, <2>8, StaysWithAdapter
<1>8. CASE ~d.ok
  <2> HIDE DEF open, c
  <2> QED BY <1>1, <1>4, <1>5, <1>6, <1>8, GivesUp
<1> QED
  BY <1>7, <1>8

\* A session that opens is one to close; the loader names no device on Windows.
LEMMA OpenStep ==
    ASSUME MSDKInv, NEW w \in BOOLEAN, OpenSession(w)
    PROVE  MSDKInv'
<1> DEFINE l == LoaderDevice(machine)
           c == [ctx EXCEPT ![q.a].loaderDevice = l]
           n == [q EXCEPT !.step = "version"]
<1>1. /\ q.op = "caps" /\ q.step = "open" /\ ctx' = c
      /\ sessions' = sessions + (IF w THEN 1 ELSE 0)
      /\ q' = IF w THEN n ELSE NextAdapter
      /\ UNCHANGED <<machine, held, answer, apiMinor>>
  BY DEF OpenSession, At
<1>2. l \in Int /\ (machine.windows => l = 0)
  BY <1>1, UnderQuery, DevicesNamed
<1> HIDE DEF l
<1>3. /\ c \in [Adapter -> Context] /\ \A b \in Adapter \ {q.a} : c[b] = ctx[b]
      /\ c[q.a].loaderDevice = l
      /\ c[q.a].device = ctx[q.a].device /\ c[q.a].luid = ctx[q.a].luid
  BY <1>2, RecordSet
<1>4. sessions = 0
  BY <1>1, UnderQuery DEF AskSteps
<1>5. CASE w
  <2>1. /\ n \in Query /\ n.op = "caps" /\ n.step = "version"
        /\ n.a = q.a /\ n.modes = q.modes
    BY <1>1, UnderQuery DEF Query
  <2> HIDE DEF n, c
  <2>2. q' = n /\ sessions' = 1
    BY <1>1, <1>4, <1>5
  <2>3. "D3D9" \notin q.modes
    BY <1>1, UnderQuery DEF D3D9Search
  <2>4. NodeRecord'
    BY <1>1, <1>3, <2>1, <2>2, UnderQuery DEF NodeRecord
  <2>5. DXGIRecord'
    BY <1>1, <1>2, <1>3, <2>1, <2>2, UnderQuery DEF DXGIRecord, KnownSteps, AskSteps
  <2>6. D3D9Search'
    BY <2>1, <2>2, <2>3 DEF D3D9Search, D3D9Steps
  <2>7. OneSession'
    BY <2>1, <2>2 DEF OneSession, At, AskSteps
  <2>8. TypeOK'
    BY <1>1, <1>3, <2>1, <2>2, UnderQuery DEF TypeOK
  <2> QED
    BY <1>1, <1>3, <2>1, <2>2, <2>4, <2>5, <2>6, <2>7, <2>8, StaysWithAdapter
<1>6. CASE ~w
  <2> HIDE DEF n, c
  <2>1. sessions' = 0
    BY <1>1, <1>4, <1>6
  <2> QED BY <1>1, <1>3, <1>6, <2>1, GivesUp
<1> QED
  BY <1>5, <1>6

\* A runtime that does not tell its version is given up, with its session closed.
LEMMA AskVersionStep ==
    ASSUME MSDKInv, NEW minor \in Minor \cup {0}, QueryVersion(minor)
    PROVE  MSDKInv'
<1> DEFINE c == [ctx EXCEPT ![q.a].impl = q.a]
           n == [q EXCEPT !.step = "platform", !.minor = minor, !.modes = {DefaultMode}]
<1>1. /\ q.op = "caps" /\ q.step = "version"
      /\ IF minor = 0
         THEN sessions' = sessions - 1 /\ q' = NextAdapter /\ ctx' = ctx
         ELSE q' = n /\ ctx' = c /\ sessions' = sessions
      /\ UNCHANGED <<machine, held, answer, apiMinor>>
  BY DEF QueryVersion, CloseSession, At
<1>2. sessions = 1
  BY <1>1, UnderQuery DEF AskSteps
<1>3. /\ c \in [Adapter -> Context] /\ \A b \in Adapter \ {q.a} : c[b] = ctx[b]
      /\ c[q.a].loaderDevice = ctx[q.a].loaderDevice
      /\ c[q.a].device = ctx[q.a].device /\ c[q.a].luid = ctx[q.a].luid
  BY RecordSet
<1>4. CASE minor # 0
  <2>1. {DefaultMode} \in Modes /\ "D3D9" \notin {DefaultMode}
    BY DEF DefaultMode, Modes
  <2>2. /\ n \in Query /\ n.op = "caps" /\ n.step = "platform"
        /\ n.a = q.a /\ n.modes = {DefaultMode}
    BY <1>1, <2>1, UnderQuery DEF Query
  <2> HIDE DEF n, c
  <2>3. q' = n /\ ctx' = c /\ sessions' = 1
    BY <1>1, <1>2, <1>4
  <2>4. NodeRecord'
    BY <1>1, <1>3, <2>2, <2>3, UnderQuery DEF NodeRecord
  <2>5. DXGIRecord'
    BY <1>1, <1>3, <2>2, <2>3, UnderQuery, ZenonT(40) DEF DXGIRecord, KnownSteps, AskSteps
  <2>6. D3D9Search'
    BY <2>1, <2>2, <2>3 DEF D3D9Search, D3D9Steps
  <2>7. OneSession'
    BY <2>2, <2>3 DEF OneSession, At, AskSteps
  <2>8. TypeOK'
    BY <1>1, <1>3, <2>2, <2>3, UnderQuery DEF TypeOK
  <2> QED
    BY <1>1, <1>3, <2>2, <2>3, <2>4, <2>5, <2>6, <2>7, <2>8, StaysWithAdapter
<1>5. CASE minor = 0
  <2> HIDE DEF n, c
  <2>1. sessions' = 0 /\ q' = NextAdapter /\ ctx' = ctx
    BY <1>1, <1>2, <1>5
  <2> QED BY <1>1, <2>1, UnderQuery, GivesUp
<1> QED
  BY <1>4, <1>5

\* The device is that of this adapter, whoever named it; the session is closed.
LEMMA PlatformStep ==
    ASSUME MSDKInv, NEW works \in BOOLEAN, QueryPlatform(works)
    PROVE  MSDKInv'
<1> DEFINE r == ctx[q.a]
           told == IF works /\ q.minor >= 19 THEN DeviceOf(machine, q.a) ELSE 0
           d == IF r.device # 0 THEN r.device ELSE IF told # 0 THEN told ELSE r.loaderDevice
           search == machine.windows /\ ~q.skip
           i == IF search THEN -1 ELSE r.implD3D9
           c == [ctx EXCEPT ![q.a].device = d, ![q.a].implD3D9 = i]
           n == [q EXCEPT !.step = IF search THEN "d3d9" ELSE "ext"]
<1>1. /\ q.op = "caps" /\ q.step = "platform" /\ ctx' = c /\ q' = n
      /\ sessions' = sessions - 1
      /\ UNCHANGED <<machine, held, answer, apiMinor>>
  BY DEF QueryPlatform, CloseSession, Goto, At
<1>2. sessions' = 0
  BY <1>1, UnderQuery DEF AskSteps
<1>3. told \in Int /\ r.device \in Int /\ r.loaderDevice \in Int /\ r.luid \in Int
      /\ r.impl \in Adapter \cup {-1} /\ r.implD3D9 \in Adapter \cup {-1}
  BY <1>1, UnderQuery, DevicesNamed, SMTT(30) DEF Context
<1>4. ~machine.windows => d = r.device
  BY <1>1, UnderQuery DEF NodeRecord
<1>5. machine.windows =>
        /\ Intel(machine, q.a) /\ r.luid = machine.dxgi[q.a + 1].luid
        /\ d \in {machine.dxgi[q.a + 1].device, 0}
  <2> SUFFICES ASSUME machine.windows
               PROVE  /\ Intel(machine, q.a) /\ r.luid = machine.dxgi[q.a + 1].luid
                      /\ d \in {machine.dxgi[q.a + 1].device, 0}
    OBVIOUS
  <2>1. /\ Intel(machine, q.a) /\ r.luid = machine.dxgi[q.a + 1].luid
        /\ r.device = 0 /\ r.loaderDevice = 0
    BY <1>1, UnderQuery DEF DXGIRecord, KnownSteps, AskSteps
  <2>2. told \in {machine.dxgi[q.a + 1].device, 0}
    BY <1>1, UnderQuery, DevicesNamed
  <2> QED BY <2>1, <2>2
<1>6. d \in Int /\ i \in Adapter \cup {-1}
  <2> HIDE DEF told, search
  <2> QED BY <1>3
<1>7. /\ c \in [Adapter -> Context] /\ \A b \in Adapter \ {q.a} : c[b] = ctx[b]
      /\ c[q.a].device = d /\ c[q.a].luid = r.luid
  <2> HIDE DEF d, i
  <2> QED BY <1>1, <1>6, UnderQuery DEF Context
<1>8. /\ n \in Query /\ n.op = "caps" /\ n.a = q.a /\ n.modes = q.modes
      /\ n.step = IF search THEN "d3d9" ELSE "ext"
  <2> HIDE DEF search
  <2> QED BY <1>1, UnderQuery DEF Query
<1>9. "D3D9" \notin q.modes
  BY <1>1, UnderQuery DEF D3D9Search
<1>10. n.step = "ext" \/ (n.step = "d3d9" /\ machine.windows)
  <2> HIDE DEF n
  <2> QED BY <1>8
<1> HIDE DEF n, c, d, search, i, told
<1>11. NodeRecord'
  BY <1>1, <1>4, <1>7, <1>8, UnderQuery DEF NodeRecord
<1>12. DXGIRecord'
  BY <1>1, <1>5, <1>7, <1>8, <1>10 DEF DXGIRecord, KnownSteps, AskSteps
<1>13. D3D9Search'
  BY <1>1, <1>8, <1>9, <1>10 DEF D3D9Search, D3D9Steps
<1>14. OneSession'
  BY <1>1, <1>2, <1>8, <1>10 DEF OneSession, At, AskSteps
<1>15. TypeOK'
  BY <1>1, <1>2, <1>7, <1>8, UnderQuery DEF TypeOK
<1> QED
  BY <1>1, <1>7, <1>8, <1>11, <1>12, <1>13, <1>14, <1>15, StaysWithAdapter

\* D3D9's adapters are asked one by one; the one with the LUID of this adapter is
\* this adapter, as no LUID of DXGI is the invalid one.
LEMMA SearchStep ==
    ASSUME MSDKInv, NEW f \in D3D9Fails, NEW g \in DXGIFails, CheckD3D9Support(f, g)
    PROVE  MSDKInv'
<1> DEFINE s == SelectImplementationType(machine, "D3D9", q.idx, f, g)
           match == s.ok /\ s.vendor = "intel" /\ s.luid = ctx[q.a].luid
           more == q.idx + 1 < MaxImpl
           n1 == [q EXCEPT !.step = "d3d9 open"]
           n2 == [q EXCEPT !.idx = q.idx + 1]
           n3 == [q EXCEPT !.step = "ext"]
<1>1. /\ q.op = "caps" /\ q.step = "d3d9"
      /\ held' = Plus(held, s.held)
      /\ q' = IF match THEN n1 ELSE IF more THEN n2 ELSE n3
      /\ UNCHANGED <<machine, sessions, ctx, answer, apiMinor>>
  <2>1. q' = IF match THEN n1 ELSE IF more THEN [q EXCEPT !.idx = @ + 1] ELSE n3
    BY DEF CheckD3D9Support
  <2>2. q' = IF match THEN n1 ELSE IF more THEN n2 ELSE n3
    <3> HIDE DEF match
    <3> QED BY <2>1
  <2> QED BY <2>2 DEF CheckD3D9Support, At
<1>2. /\ s.held = NothingHeld
      /\ s.ok /\ s.vendor = "intel" => /\ q.idx < Len(machine.d3d9)
                                       /\ s.luid \in {machine.d3d9[q.idx + 1].luid, 0}
  BY <1>1, UnderQuery, SelectD3D9
<1> HIDE DEF s
<1>3. held' = held
  BY <1>1, <1>2, UnderQuery, AdaptersHeld
<1>4. /\ machine.windows /\ Intel(machine, q.a)
      /\ ctx[q.a].luid = machine.dxgi[q.a + 1].luid
      /\ "D3D9" \notin q.modes
  BY <1>1, UnderQuery DEF DXGIRecord, D3D9Search, KnownSteps, D3D9Steps
<1>5. ctx[q.a].luid # 0
  <2>1. q.a + 1 \in 1..Len(machine.dxgi)
    <3>1. q.a < Len(machine.dxgi)
      BY <1>4 DEF Intel, CardsOf
    <3>2. q.a \in Nat /\ Len(machine.dxgi) \in Nat
      BY <1>1, UnderQuery, MachineCards
    <3> QED BY <3>1, <3>2
  <2>2. q.a + 1 \in DOMAIN machine.dxgi
    BY <1>1, <2>1, UnderQuery, MachineCards
  <2> QED BY <1>1, <1>4, <2>2, UnderQuery, MSDKAssumption
<1>6. match => SameAdapter(machine, q.a, q.idx)
  BY <1>1, <1>2, <1>4, <1>5, UnderQuery DEF SameAdapter
<1>7. more => q.idx + 1 \in Adapter
  <2>1. q.idx \in Nat
    BY <1>1, UnderQuery
  <2> QED BY <2>1, Constants DEF Adapter
<1>8. /\ n1 \in Query /\ n1.op = "caps" /\ n1.a = q.a /\ n1.modes = q.modes
      /\ n1.step = "d3d9 open" /\ n1.idx = q.idx
      /\ more => /\ n2 \in Query /\ n2.op = "caps" /\ n2.a = q.a /\ n2.modes = q.modes
                 /\ n2.step = "d3d9"
      /\ n3 \in Query /\ n3.op = "caps" /\ n3.a = q.a /\ n3.modes = q.modes
      /\ n3.step = "ext"
  <2> HIDE DEF more
  <2> QED BY <1>1, <1>7, UnderQuery DEF Query
<1> HIDE DEF match, more, n1, n2, n3
<1>9. /\ q' \in Query /\ q'.op = "caps" /\ q'.a = q.a /\ q'.modes = q.modes
      /\ q'.step \in {"d3d9", "d3d9 open", "ext"}
      /\ q'.step = "d3d9 open" => match /\ q'.idx = q.idx
  BY <1>1, <1>8
<1>10. NodeRecord' /\ DXGIRecord'
  <2>1. NodeRecord'
    BY <1>1, <1>4 DEF NodeRecord
  <2>2. DXGIRecord'
    BY <1>1, <1>9, UnderQuery DEF DXGIRecord, KnownSteps, AskSteps
  <2> QED BY <2>1, <2>2
<1>11. D3D9Search'
  BY <1>1, <1>4, <1>6, <1>9 DEF D3D9Search, D3D9Steps, SameAdapter
<1>12. OneSession'
  BY <1>1, <1>9, UnderQuery DEF OneSession, At, AskSteps
<1>13. TypeOK'
  BY <1>1, <1>3, <1>9, UnderQuery DEF TypeOK
<1>14. \A b \in Adapter \ {q.a} : ctx'[b] = ctx[b]
  BY <1>1
<1> QED
  BY <1>1, <1>3, <1>9, <1>10, <1>11, <1>12, <1>13, <1>14, StaysWithAdapter

\* D3D9 is offered with the number that was found, if a session opens with it.
LEMMA OpenD3D9Step ==
    ASSUME MSDKInv, NEW w \in BOOLEAN, OpenD3D9Session(w)
    PROVE  MSDKInv'
<1> DEFINE more == q.modes \cup (IF w THEN {"D3D9"} ELSE {})
           i == IF w THEN q.idx ELSE ctx[q.a].implD3D9
           n == [q EXCEPT !.step = "ext", !.modes = more]
           c == [ctx EXCEPT ![q.a].implD3D9 = i]
<1>1. /\ q.op = "caps" /\ q.step = "d3d9 open" /\ ctx' = c /\ q' = n
      /\ UNCHANGED <<machine, sessions, held, answer, apiMinor>>
  BY DEF OpenD3D9Session, At
<1>2. i \in Adapter \cup {-1} /\ more \in Modes
  BY <1>1, UnderQuery, QueryAdapter DEF Context, Modes
<1>3. /\ c \in [Adapter -> Context] /\ \A b \in Adapter \ {q.a} : c[b] = ctx[b]
      /\ c[q.a].implD3D9 = i
      /\ c[q.a].device = ctx[q.a].device /\ c[q.a].luid = ctx[q.a].luid
  <2> HIDE DEF i
  <2> QED BY <1>2, RecordSet
<1>4. /\ n \in Query /\ n.op = "caps" /\ n.a = q.a /\ n.modes = more /\ n.step = "ext"
  <2> HIDE DEF more
  <2> QED BY <1>1, <1>2, UnderQuery DEF Query
<1>5. /\ machine.windows /\ SameAdapter(machine, q.a, q.idx) /\ "D3D9" \notin q.modes
  BY <1>1, UnderQuery DEF D3D9Search, D3D9Steps
<1>6. "D3D9" \in more => i = q.idx
  BY <1>5
<1> HIDE DEF more, i, n, c
<1>7. NodeRecord'
  BY <1>1, <1>5 DEF NodeRecord
<1>8. DXGIRecord'
  BY <1>1, <1>3, <1>4, UnderQuery, ZenonT(40) DEF DXGIRecord, KnownSteps, AskSteps
<1>9. D3D9Search'
  BY <1>1, <1>3, <1>4, <1>5, <1>6 DEF D3D9Search, D3D9Steps
<1>10. OneSession'
  BY <1>1, <1>4, UnderQuery DEF OneSession, At, AskSteps
<1>11. TypeOK'
  BY <1>1, <1>3, <1>4, UnderQuery DEF TypeOK
<1> QED
  BY <1>1, <1>3, <1>4, <1>7, <1>8, <1>9, <1>10, <1>11, StaysWithAdapter

\* The record of the adapter becomes its answer.
LEMMA AnswerStep ==
    ASSUME MSDKInv, QueryExtDeviceID
    PROVE  MSDKInv'
<1> DEFINE c == ctx[q.a]
           e == [device |-> c.device, luid |-> c.luid, modes |-> q.modes, minor |-> q.minor]
<1>1. /\ q.op = "caps" /\ q.step = "ext" /\ q' = NextAdapter
      /\ answer' = [answer EXCEPT ![q.a] = e]
      /\ UNCHANGED <<machine, sessions, held, ctx, apiMinor>>
  BY DEF QueryExtDeviceID, At
<1>2. e \in Implementation
  BY <1>1, UnderQuery, QueryAdapter DEF Implementation, Context
<1> HIDE DEF e
<1>3. /\ answer' \in [Adapter -> Implementation \cup {None}]
      /\ answer'[q.a] = e /\ \A b \in Adapter \ {q.a} : answer'[b] = answer[b]
  BY <1>1, <1>2, UnderQuery DEF TypeOK
<1>4. sessions' = 0
  BY <1>1, UnderQuery DEF AskSteps
<1>5. TypeOK' /\ OneSession' /\ AnswersInOrder' /\ NodeRecord' /\ DXGIRecord' /\ D3D9Search'
  BY <1>1, <1>3, <1>4, UnderQuery, MovesOn
<1>6. /\ Intel(machine, q.a)
      /\ IF machine.windows
         THEN e.luid = machine.dxgi[q.a + 1].luid /\ e.device \in {machine.dxgi[q.a + 1].device, 0}
         ELSE e.device = machine.nodes[q.a + 1].device
  BY <1>1, UnderQuery DEF NodeRecord, DXGIRecord, KnownSteps, e
<1>7. "D3D9" \in e.modes => SameAdapter(machine, q.a, ctx[q.a].implD3D9)
  BY <1>1, UnderQuery DEF D3D9Search, e
<1>8. DescribesItsAdapter'
  BY <1>1, <1>3, <1>6 DEF MSDKInv, DescribesItsAdapter, Intel, CardsOf
<1>9. D3D9OnSameAdapter'
  BY <1>1, <1>3, <1>7 DEF MSDKInv, D3D9OnSameAdapter, SameAdapter
<1> QED
  BY <1>1, <1>5, <1>8, <1>9 DEF MSDKInv

-----------------------------------------------------------------------------
(* The theorems                                                            *)

LEMMA InvAtStep == MSDKInv /\ [Next]_vars => MSDKInv'
<1> SUFFICES ASSUME MSDKInv, [Next]_vars PROVE MSDKInv'
  OBVIOUS
<1>1. CASE QueryAPIVersion
  BY <1>1, VersionSteps
<1>2. ASSUME NEW skip \in BOOLEAN, QueryLibraryCaps(skip) PROVE MSDKInv'
  BY <1>2, CapsStart
<1>3. ASSUME NEW f \in DXGIFails, VersionAccel(f) \/ DefaultAccel(f) PROVE MSDKInv'
  BY <1>3, VersionSteps, AccelStep
<1>4. ASSUME NEW w \in BOOLEAN, VersionOpen(w) \/ OpenSession(w) PROVE MSDKInv'
  BY <1>4, VersionSteps, OpenStep
<1>5. ASSUME NEW w \in BOOLEAN, QueryPlatform(w) \/ OpenD3D9Session(w) PROVE MSDKInv'
  BY <1>5, PlatformStep, OpenD3D9Step
<1>6. ASSUME NEW n \in Minor \cup {0}, VersionAsk(n) \/ QueryVersion(n) PROVE MSDKInv'
  BY <1>6, VersionSteps, AskVersionStep
<1>7. CASE QueryMSDKCaps \/ QueryExtDeviceID
  BY <1>7, FirstStep, AnswerStep
<1>8. ASSUME NEW f \in D3D9Fails, NEW g \in DXGIFails, CheckD3D9Support(f, g) PROVE MSDKInv'
  BY <1>8, SearchStep
<1>9. CASE UNCHANGED vars
  BY <1>9 DEF vars, MSDKInv, TypeOK, OneSession, AnswersInOrder, NodeRecord, DXGIRecord,
     D3D9Search, DescribesItsAdapter, D3D9OnSameAdapter, At
<1> QED
  BY <1>1, <1>2, <1>3, <1>4, <1>5, <1>6, <1>7, <1>8, <1>9 DEF Next, Step

\* The inductive invariant holds of every query of every machine.
THEOREM MSDKInvariance == Spec => []MSDKInv
<1> QED
  BY InvAtInit, InvAtStep, PTL DEF Spec

\* No call of a query that fails leaves a test session open after the query of its
\* adapter, or a system library or interface held (QueryAPIVersion, QueryMSDKCaps,
\* DXVA2Device).
THEOREM QueriesCloseAll == Spec => []NothingStaysOpen
<1>1. MSDKInv => NothingStaysOpen
  BY DEF MSDKInv, NothingStaysOpen, OneSession, At, AskSteps
<1> QED
  BY <1>1, MSDKInvariance, PTL

\* What is reported of an adapter is of this adapter, on this machine: nothing of
\* an earlier query shows through the record that is used again.
THEOREM AnswersOfTheirAdapter == Spec => []DescribesItsAdapter
<1>1. MSDKInv => DescribesItsAdapter
  BY DEF MSDKInv
<1> QED
  BY <1>1, MSDKInvariance, PTL

\* The number kept for sessions on D3D9 is that of the adapter reported, in
\* whatever order D3D9 numbers the adapters (CheckD3D9Support).
THEOREM D3D9NumberIsRight == Spec => []D3D9OnSameAdapter
<1>1. MSDKInv => D3D9OnSameAdapter
  BY DEF MSDKInv
<1> QED
  BY <1>1, MSDKInvariance, PTL
=============================================================================
