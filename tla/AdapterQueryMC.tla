------------------------- MODULE AdapterQueryMC -------------------------
EXTENDS AdapterQuery

I(type, id, accel, api) == [type |-> type, id |-> id, accel |-> accel, api |-> api]
\* A 2.x runtime of the first adapter and a 1.x software one
MCImplementation == <<I("hardware", 0, {"VAAPI", "D3D11"}, 21), I("software", 0, {}, 13)>>

Q(base, via, version, threads) ==
    [base |-> base, via |-> via, version |-> version, threads |-> threads]
MCRequest == {Q("HARDWARE", "VAAPI", 20, FALSE), Q("SOFTWARE", "ANY", 10, FALSE),
              Q("HARDWARE2", "ANY", 10, FALSE)}

C(vendor, device, media, minor, suits) ==
    [vendor |-> vendor, device |-> device, luid |-> device, media |-> media, minor |-> minor,
     opens |-> TRUE, platform |-> TRUE, suits |-> suits]
Disc == C("intel", 21, "discrete", 35, TRUE)
Integ == C("intel", 22, "integrated", 35, TRUE)
Old == C("intel", 23, "unknown", 11, TRUE)
Weak == C("intel", 24, "integrated", 19, FALSE)
Other == C("other", 91, "unknown", 0, FALSE)
Mute == [Integ EXCEPT !.platform = FALSE]
Shut == [Disc EXCEPT !.opens = FALSE]

\* Discrete before integrated adapters, another vendor between them, an old
\* runtime, more adapters than have a name.
MCMachine == {[dxgi |-> <<Disc, Other, Integ>>], [dxgi |-> <<Weak, Disc, Integ>>],
              [dxgi |-> <<Old, Integ, Disc>>], [dxgi |-> <<Shut, Mute, Disc>>],
              [dxgi |-> <<Other, Other, Integ, Other, Disc>>]}
=========================================================================
