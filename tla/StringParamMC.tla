--------------------------- MODULE StringParamMC ---------------------------
(***************************************************************************)
(* A field of each conversion, in bytes of one bit, and texts around the   *)
(* ends of their ranges: with two bits for 16, I16 is -2..1 and U16 0..3.  *)
(***************************************************************************)
EXTENDS StringParam

NoNumber == -1
Unknown == Scalar("none", 1)

Key(type, field) == [length |-> 3, type |-> type, field |-> field]
SomeKeys ==
    {Key(NoType, f) : f \in {Count, FourCC, Unknown}} \cup
    {Key("MasteringDisplayColourVolume", Array(U16, 3)), Key("CodingOption", I16),
     Key("CodingOption", Unknown), Key("CodingOption3", NumRefActive),
     Key("DeviceAffinityMask", String(128)), Key("VPPProcAmp", F64), Key("VPPAISuperResolution", U16),
     Key("BadBuffer", U16), [Key(NoType, FourCC) EXCEPT !.length = 0]}

Part(sign, n) == [sign |-> sign, n |-> n]
Text(length, parts) == [length |-> length, code |-> 1, parts |-> parts]
SomeTexts ==
    {Text(3, <<Part("none", n)>>) : n \in {1, 4, 256}} \cup
    {Text(3, <<Part("minus", 3)>>), Text(3, <<Part("inner", 1)>>), Text(3, <<Part("plus", 3)>>),
     Text(4, <<Part("none", NoDigits)>>), Text(3, <<>>),
     Text(150, <<Part("none", 1)>>), Text(200, <<Part("none", 1)>>),
     Text(5, <<Part("none", 1), Part("none", 0), Part("none", 2)>>),
     Text(5, <<Part("none", 0), Part("minus", 1)>>),
     Text(16, [i \in 1 .. 8 |-> Part(IF i = 8 THEN "minus" ELSE "none", 1)])}
=============================================================================
