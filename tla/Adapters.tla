---------------------------- MODULE Adapters ----------------------------
(* The graphics adapters of a Windows machine as the dispatcher sees them
   through Direct3D 9 and DXGI (mfx_dxva2_device.cpp): which call found what,
   and which library and interface references are left behind.  A call is an
   operator of the machine and of the first system call that fails: `fails` is
   its position in the list of calls, Len + 1 when none does.

   A machine of Windows has `dxgi` and `d3d9`, the adapters in the order in
   which each interface numbers them; an adapter is a record of its vendor
   ("none" and device 0 under Remote Desktop), its device and its LUID. *)
EXTENDS Integers, Sequences, FiniteSets

References == {"d3d9.dll", "dxgi.dll", "d3d9", "d3d9ex", "factory", "adapter"}
NothingHeld == [r \in References |-> 0]
Took(S) == [r \in References |-> IF r \in S THEN 1 ELSE 0]

D3D9Calls == <<"LoadLibrary", "GetProcAddress", "Direct3DCreate9", "GetAdapterIdentifier",
               "GetProcAddress Ex", "Direct3DCreate9Ex", "GetAdapterLUID">>
DXGICalls == <<"LoadLibrary", "GetProcAddress", "CreateDXGIFactory1", "GetDesc1">>
Answered(calls, fails, c) == \E k \in 1..(fails - 1) : k <= Len(calls) /\ calls[k] = c

\* A device object: the references taken, the pointers its destructor releases,
\* and what it found.  LUID 0 is the invalid one.
NoDevice == [held |-> NothingHeld, points |-> {}, ok |-> FALSE,
             vendor |-> "none", device |-> 0, luid |-> 0]

\* D3D9Device::Init: without the extended interface the LUID stays invalid.
D3D9Init(machine, a, fails) ==
    LET Did(c)  == Answered(D3D9Calls, fails, c)
        present == a < Len(machine.d3d9)
        card    == machine.d3d9[a + 1]
        taken   == (IF Did("LoadLibrary") THEN {"d3d9.dll"} ELSE {})
                     \cup (IF Did("Direct3DCreate9") THEN {"d3d9"} ELSE {})
                     \cup (IF present /\ Did("Direct3DCreate9Ex") THEN {"d3d9ex"} ELSE {})
        base    == [NoDevice EXCEPT !.held = Took(taken), !.points = taken]
    IN  IF present /\ Did("GetAdapterIdentifier")
        THEN [base EXCEPT !.ok = TRUE, !.vendor = card.vendor, !.device = card.device,
                          !.luid = IF Did("GetAdapterLUID") THEN card.luid ELSE 0]
        ELSE base

\* Of the adapters enumerated, those whose interface is not released at once.
Kept(seen, a) == {k \in seen : k = a + 1}

\* DXGI1Device::Init walks all adapters and keeps the interface of one.
DXGI1Init(machine, a, fails) ==
    LET Did(c)  == Answered(DXGICalls, fails, c)
        present == Did("CreateDXGIFactory1") /\ a < Len(machine.dxgi)
        card    == machine.dxgi[a + 1]
        seen    == IF Did("CreateDXGIFactory1") THEN DOMAIN machine.dxgi ELSE {}
        taken   == (IF Did("LoadLibrary") THEN {"dxgi.dll"} ELSE {})
                     \cup (IF Did("CreateDXGIFactory1") THEN {"factory"} ELSE {})
        kept    == Kept(seen, a)
        base    == [NoDevice EXCEPT !.held = [Took(taken) EXCEPT !["adapter"] = Cardinality(kept)],
                                    !.points = taken \cup (IF present THEN {"adapter"} ELSE {})]
    IN  IF present /\ Did("GetDesc1")
        THEN [base EXCEPT !.ok = TRUE, !.vendor = card.vendor, !.device = card.device,
                          !.luid = card.luid]
        ELSE base

\* ~D3D9Device, ~DXGI1Device and ~DXDevice: what is held after them.
Destroy(d) == [r \in References |-> IF r \in d.points THEN d.held[r] - 1 ELSE d.held[r]]
Plus(h, g) == [r \in References |-> h[r] + g[r]]

\* DXVA2Device::UseAlternativeWay: DXGI adapters are opened one after another,
\* with one device object, until the LUID is found or one does not open.
UseAlternativeWay(machine, luid, fails) ==
    LET n       == Len(machine.dxgi)
        last    == IF fails <= Len(DXGICalls) THEN 0 ELSE n
        matches == {k \in 1..last : machine.dxgi[k].luid = luid}
        final   == IF matches = {} THEN last
                   ELSE (CHOOSE k \in matches : \A j \in matches : k <= j) - 1
        dev     == DXGI1Init(machine, final, fails)
    IN  IF luid = 0 THEN NoDevice
        ELSE [dev EXCEPT !.ok = matches # {}]

InitD3D9(machine, a, fails, failsDXGI) ==
    LET d == D3D9Init(machine, a, fails)
        x == UseAlternativeWay(machine, d.luid, failsDXGI)
        hidden == d.vendor = "none" \/ d.device = 0
        found  == IF hidden THEN x ELSE d
    IN  IF ~d.ok
        THEN [NoDevice EXCEPT !.held = Destroy(d)]
        ELSE [ok |-> TRUE, points |-> {},
              held   |-> Plus(Destroy(d), IF hidden THEN Destroy(x) ELSE NothingHeld),
              vendor |-> IF found.ok THEN found.vendor ELSE "none",
              device |-> IF found.ok THEN found.device ELSE 0,
              luid   |-> IF found.ok THEN found.luid ELSE 0]

InitDXGI1(machine, a, fails) ==
    LET d == DXGI1Init(machine, a, fails)
    IN  [d EXCEPT !.held = Destroy(d), !.points = {}]

\* The ways a system call of a device may fail.
D3D9Fails == 1..(Len(D3D9Calls) + 1)
DXGIFails == 1..(Len(DXGICalls) + 1)

\* SelectImplementationType for the two interfaces the 1.x query asks for.
SelectImplementationType(machine, via, a, fails, failsDXGI) ==
    IF via = "D3D9" THEN InitD3D9(machine, a, fails, failsDXGI)
    ELSE InitDXGI1(machine, a, failsDXGI)

\* DXGI1Device::GetAdapterList: an adapter without a description is passed over.
\* The early returns leave the library (and nothing else) loaded.
ListCalls == <<"LoadLibrary", "GetProcAddress", "CreateDXGIFactory1">>
GetAdapterList(machine, fails, undescribed) ==
    LET Did(c)  == Answered(ListCalls, fails, c)
        list    == IF Did("CreateDXGIFactory1")
                   THEN SelectSeq(machine.dxgi, LAMBDA c : c \notin undescribed) ELSE <<>>
    IN  [ok |-> list # <<>>, list |-> list,
         held |-> Took(IF Did("LoadLibrary") /\ ~Did("CreateDXGIFactory1")
                       THEN {"dxgi.dll"} ELSE {})]
==========================================================================
