-------------------------- MODULE MSDKCompatMC --------------------------
EXTENDS MSDKCompat

Card(vendor, device, luid) == [vendor |-> vendor, device |-> device, luid |-> luid]
Linux(nodes) == [windows |-> FALSE, nodes |-> nodes, dxgi |-> <<>>, d3d9 |-> <<>>]
Windows(dxgi, d3d9) == [windows |-> TRUE, nodes |-> <<>>, dxgi |-> dxgi, d3d9 |-> d3d9]

A == Card("intel", 11, 1)
B == Card("intel", 12, 2)
Other == Card("other", 91, 3)
Hidden == Card("none", 0, 1)   \* adapter A under Remote Desktop

\* Two Intel adapters in either order, one behind another vendor's, D3D9 with the
\* order of DXGI or the reverse, Remote Desktop.
MCMachine == {Linux(<<A, B>>), Linux(<<B>>), Linux(<<Other, B>>),
              Windows(<<A, B>>, <<B, A>>), Windows(<<B, Other>>, <<Other, B>>),
              Windows(<<Other, A>>, <<Hidden>>)}
=========================================================================
