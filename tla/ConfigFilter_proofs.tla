------------------------ MODULE ConfigFilter_proofs ------------------------
(***************************************************************************)
(* ConfigFilter: several mfxConfig objects select what each of them asks   *)
(* for, and both modes of the loader read the same special properties and  *)
(* live extension buffers from them, for any descriptions, any calls and   *)
(* any number of objects.                                                  *)
(***************************************************************************)
EXTENDS ConfigFilter, FiniteSetTheorems, WellFoundedInduction, TLAPS

-----------------------------------------------------------------------------
(* Numbers, and what a loop over the objects computes                      *)

\* Counting up to n: a set that has 0, and with each number the next one.
LEMMA Counting ==
    ASSUME NEW n \in Nat, NEW S, 0 \in S, \A k \in 0 .. n - 1 : k \in S => k + 1 \in S
    PROVE  \A k \in 0..n : k \in S
<1> DEFINE Less == OpToRel(<, Nat)
           left == {k \in 0..n : k \notin S}
<1>1. \A i, j \in Nat : i < j => <<i, j>> \in Less
    BY DEF OpToRel
<1>2. IsWellFoundedOn(Less, Nat)
    BY NatLessThanWellFounded
<1> HIDE DEF Less
<1> SUFFICES ASSUME left # {}
             PROVE  FALSE
    OBVIOUS
<1>3. left \subseteq Nat
    OBVIOUS
<1>4. PICK i \in left : \A j \in left : ~(<<j, i>> \in Less)
    <2> HIDE DEF left
    <2> QED
        BY <1>2, <1>3, WFMin
<1>5. i \in Nat /\ i # 0 /\ i - 1 \in 0 .. n - 1 /\ i - 1 \in Nat /\ i - 1 < i
    BY <1>3
<1>6. i - 1 \notin left
    BY <1>1, <1>4, <1>5
<1> QED
    BY <1>5, <1>6

\* The functions that the two loops are defined by exist.
LEMMA TurnsTurn ==
    ASSUME NEW d, NEW cs, Len(cs) \in Nat, NEW start
    PROVE  /\ Turns(d, cs, start)[0] = start
           /\ \A k \in 1..Len(cs) : Turns(d, cs, start)[k] = TakeConfig(d, Turns(d, cs, start)[k - 1], cs[k])
<1> DEFINE n == Len(cs)
           Upto(g, k) == g = [i \in 0..k |-> IF i = 0 THEN start ELSE TakeConfig(d, g[i - 1], cs[i])]
           S == {k \in 0..n : \E g : Upto(g, k)}
<1>1. 0 \in S
    <2>1. Upto([i \in 0..0 |-> start], 0)
        OBVIOUS
    <2> HIDE DEF Upto
    <2> QED
        BY <2>1
<1>2. ASSUME NEW k \in 0 .. n - 1, k \in S
      PROVE  k + 1 \in S
    <2>1. PICK g : Upto(g, k)
        BY <1>2
    <2> DEFINE h == [i \in 0 .. k + 1 |-> IF i = k + 1 THEN TakeConfig(d, g[k], cs[k + 1]) ELSE g[i]]
    <2>2. ASSUME NEW i \in 0 .. k + 1
          PROVE  h[i] = IF i = 0 THEN start ELSE TakeConfig(d, h[i - 1], cs[i])
        <3>1. CASE i = 0
            BY <2>1, <3>1
        <3>2. CASE i \in 1..k
            <4>1. h[i] = g[i] /\ h[i - 1] = g[i - 1]
                BY <3>2
            <4> HIDE DEF h
            <4> QED
                BY <2>1, <3>2, <4>1
        <3>3. CASE i = k + 1
            <4>1. h[i] = TakeConfig(d, g[k], cs[k + 1]) /\ h[i - 1] = g[k] /\ i - 1 = k /\ i # 0
                BY <3>3
            <4> HIDE DEF h
            <4> QED
                BY <3>3, <4>1
        <3> QED
            BY <3>1, <3>2, <3>3
    <2>3. Upto(h, k + 1)
        BY <2>2
    <2> HIDE DEF Upto
    <2> QED
        BY <2>3
<1>3. n \in S
    <2>1. n \in Nat /\ 0 \in S /\ \A k \in 0 .. n - 1 : k \in S => k + 1 \in S
        <3> HIDE DEF S
        <3> QED
            BY <1>1, <1>2
    <2> HIDE DEF S, n
    <2>2. \A k \in 0..n : k \in S
        BY ONLY <2>1, Counting
    <2> QED
        BY <2>1, <2>2
<1>4. PICK g : Upto(g, n)
    BY <1>3
<1> DEFINE r == Turns(d, cs, start)
<1>5. r = [k \in 0..Len(cs) |-> IF k = 0 THEN start ELSE TakeConfig(d, r[k - 1], cs[k])]
    BY <1>4 DEF Turns
<1> HIDE DEF r
<1> QED
    BY <1>5 DEF r

LEMMA CollectedTurn ==
    ASSUME NEW cs, Len(cs) \in Nat, NEW sp
    PROVE  /\ Collected(cs, sp)[0] = sp
           /\ \A k \in 1..Len(cs) : Collected(cs, sp)[k] = TakeSpecial(Collected(cs, sp)[k - 1], cs[k].val)
<1> DEFINE n == Len(cs)
           Upto(g, k) == g = [i \in 0..k |-> IF i = 0 THEN sp ELSE TakeSpecial(g[i - 1], cs[i].val)]
           S == {k \in 0..n : \E g : Upto(g, k)}
<1>1. 0 \in S
    <2>1. Upto([i \in 0..0 |-> sp], 0)
        OBVIOUS
    <2> HIDE DEF Upto
    <2> QED
        BY <2>1
<1>2. ASSUME NEW k \in 0 .. n - 1, k \in S
      PROVE  k + 1 \in S
    <2>1. PICK g : Upto(g, k)
        BY <1>2
    <2> DEFINE h == [i \in 0 .. k + 1 |-> IF i = k + 1 THEN TakeSpecial(g[k], cs[k + 1].val) ELSE g[i]]
    <2>2. ASSUME NEW i \in 0 .. k + 1
          PROVE  h[i] = IF i = 0 THEN sp ELSE TakeSpecial(h[i - 1], cs[i].val)
        <3>1. CASE i = 0
            BY <2>1, <3>1
        <3>2. CASE i \in 1..k
            <4>1. h[i] = g[i] /\ h[i - 1] = g[i - 1]
                BY <3>2
            <4> HIDE DEF h
            <4> QED
                BY <2>1, <3>2, <4>1
        <3>3. CASE i = k + 1
            <4>1. h[i] = TakeSpecial(g[k], cs[k + 1].val) /\ h[i - 1] = g[k] /\ i - 1 = k /\ i # 0
                BY <3>3
            <4> HIDE DEF h
            <4> QED
                BY <3>3, <4>1
        <3> QED
            BY <3>1, <3>2, <3>3
    <2>3. Upto(h, k + 1)
        BY <2>2
    <2> HIDE DEF Upto
    <2> QED
        BY <2>3
<1>3. n \in S
    <2>1. n \in Nat /\ 0 \in S /\ \A k \in 0 .. n - 1 : k \in S => k + 1 \in S
        <3> HIDE DEF S
        <3> QED
            BY <1>1, <1>2
    <2> HIDE DEF S, n
    <2>2. \A k \in 0..n : k \in S
        BY ONLY <2>1, Counting
    <2> QED
        BY <2>1, <2>2
<1>4. PICK g : Upto(g, n)
    BY <1>3
<1> DEFINE s == Collected(cs, sp)
<1>5. s = [k \in 0..Len(cs) |-> IF k = 0 THEN sp ELSE TakeSpecial(s[k - 1], cs[k].val)]
    BY <1>4 DEF Collected
<1> HIDE DEF s
<1> QED
    BY <1>5 DEF s

-----------------------------------------------------------------------------
(* Types                                                                   *)

Pointer == [config : Nat, gen : Nat]
Value == {c.data : c \in UNION {Call[k] : k \in DOMAIN Call}} \cup Pointer
Values == UNION {[D -> Value] : D \in SUBSET Property}
Object == [val : Values, query : SUBSET Property, gen : Nat, size : Nat]

\* What the k-th object holds is set, and in range; its buffer is its own copy
\* as it is now.
Filled(k, cfg) ==
    \A p \in DOMAIN cfg.val :
        /\ cfg.val[p] # Unset
        /\ p # <<"Special", "ExtBuffer">> => InRange(p, cfg.val[p])
        /\ p = <<"Special", "ExtBuffer">> => cfg.val[p] = [config |-> k, gen |-> cfg.gen]

Objects(cs) == cs \in Seq(Object) /\ \A k \in 1..Len(cs) : Filled(k, cs[k])

IsFcn(f) == f = [x \in DOMAIN f |-> f[x]]

ObjectsInv == Objects(configs) /\ Len(configs) <= MaxConfig /\ IsFcn(special)

\* Every name of the tables ends at a property.
LEMMA NamesEnd ==
    ASSUME NEW type, NEW n \in Names(type)
    PROVE  n[2] \in Property
<1>1. ASSUME NEW path, NEW g, NEW fields, NEW m \in Named(path, g, fields)
      PROVE  m[2] \in Group(g, fields)
    BY <1>1 DEF Named, Group
<1>2. ASSUME NEW path, NEW names, NEW m \in Under(path, names)
      PROVE  \E o \in names : m[2] = o[2]
    BY DEF Under
<1>3. \A m \in SetFilterPropertyDec : m[2] \in Group("Dec", DecFields) \cup {<<"Query", "AllDec">>}
    <2> SUFFICES ASSUME NEW m \in SetFilterPropertyDec
                 PROVE  m[2] \in Group("Dec", DecFields) \cup {<<"Query", "AllDec">>}
        OBVIOUS
    <2>1. \/ \E p : m = <<p, <<"Query", "AllDec">> >>
          \/ \E p, f : m \in Named(p, "Dec", f) /\ f \subseteq DecFields
          \/ \E p : m = <<p, <<"Dec", "ColorFormat">> >>
        BY DEF SetFilterPropertyDec, DecFields
    <2> QED
        BY <1>1, <2>1 DEF Group, DecFields
<1>4. \A m \in SetFilterPropertyEnc : m[2] \in Group("Enc", EncFields) \cup {<<"Query", "AllEnc">>}
    <2> SUFFICES ASSUME NEW m \in SetFilterPropertyEnc
                 PROVE  m[2] \in Group("Enc", EncFields) \cup {<<"Query", "AllEnc">>}
        OBVIOUS
    <2>1. {"CodecID", "MaxcodecLevel", "BiDirectionalPrediction", "Profile", "MemHandleType", "Width",
           "Height", "ColorFormat"} \subseteq EncFields
        BY DEF EncFields, DecFields
    <2>2. \/ \E p : m = <<p, <<"Query", "AllEnc">> >>
          \/ \E p, f : m \in Named(p, "Enc", f) /\ f \subseteq EncFields
          \/ \E p : m = <<p, <<"Enc", "ColorFormat">> >>
        <3> DEFINE mem == <<"encoder", "encprofile", "encmemdesc">>
        <3>1. \/ m = << <<"">>, <<"Query", "AllEnc">> >>
              \/ m \in Named(<<"encoder">>, "Enc", {"CodecID", "MaxcodecLevel", "BiDirectionalPrediction"})
              \/ m \in Named(<<"encoder", "encprofile">>, "Enc", {"Profile"})
              \/ m \in Named(mem, "Enc", {"MemHandleType", "Width", "Height", "ColorFormat"})
              \/ m = <<Append(mem, "ColorFormats"), <<"Enc", "ColorFormat">>>>
            BY Zenon DEF SetFilterPropertyEnc
        <3> HIDE DEF mem
        <3>2. /\ {"CodecID", "MaxcodecLevel", "BiDirectionalPrediction"} \subseteq EncFields
              /\ {"Profile"} \subseteq EncFields
              /\ {"MemHandleType", "Width", "Height", "ColorFormat"} \subseteq EncFields
            BY <2>1
        <3> QED
            BY <3>1, <3>2, Zenon
    <2> QED
        BY <1>1, <2>1, <2>2 DEF Group
<1>5. \A m \in SetFilterPropertyVPP : m[2] \in Group("VPP", VPPFields) \cup {<<"Query", "AllVPP">>}
    <2> SUFFICES ASSUME NEW m \in SetFilterPropertyVPP
                 PROVE  m[2] \in Group("VPP", VPPFields) \cup {<<"Query", "AllVPP">>}
        OBVIOUS
    <2>1. \/ \E p : m = <<p, <<"Query", "AllVPP">> >>
          \/ \E p, f : m \in Named(p, "VPP", f) /\ f \subseteq VPPFields
          \/ \E p : m = <<p, <<"VPP", "OutFormat">> >>
        BY DEF SetFilterPropertyVPP, VPPFields
    <2> QED
        BY <1>1, <2>1 DEF Group, VPPFields
<1>6. \A m \in SetFilterPropertySurface : m[2] \in Group("Surface", SurfaceFields)
    BY <1>1 DEF SetFilterPropertySurface, Group, SurfaceFields
<1>7. \A m \in DeviceNames(type) : m[2] \in Group("Main", MainFields)
    BY DEF DeviceNames, Group, MainFields
<1> DEFINE All == SetFilterPropertySurface \cup DeviceNames(type) \cup SetFilterPropertyDec
                  \cup SetFilterPropertyEnc \cup SetFilterPropertyVPP
<1>8. \/ \E path, f : n \in Named(path, "Special", f) /\ f \subseteq SpecialFields
      \/ \E path, f : n \in Named(path, "Main", f) /\ f \subseteq MainFields
      \/ \E path : n \in Named(path, "ExtDev", ExtDevFields)
      \/ \E path, names : n \in Under(path, names) /\ names \subseteq All
      \/ \E path, p : n = <<path, p>> /\ p \in {<<"Special", "HandleType">>, <<"Special", "Handle">>,
                <<"Func", "FunctionName">>, <<"Query", "ImplOnly">>, <<"Main", "PoolAllocationPolicy">>,
                <<"Main", "ApiVersion">>}
    <2> DEFINE Dev == DeviceNames(type)
    <2>1. /\ {"NumThread", "DeviceCopy", "ExtBuffer"} \subseteq SpecialFields
          /\ {"DXGIAdapterIndex"} \subseteq SpecialFields
          /\ {"Impl", "AccelerationMode", "VendorID", "ImplName", "License",
              "Keywords", "VendorImplID"} \subseteq MainFields
          /\ {"Major", "Minor"} \subseteq MainFields
        BY DEF MainFields, SpecialFields
    <2>2. /\ SetFilterPropertySurface \subseteq All /\ Dev \subseteq All /\ SetFilterPropertyDec \subseteq All
          /\ SetFilterPropertyEnc \subseteq All /\ SetFilterPropertyVPP \subseteq All
        OBVIOUS
    <2> HIDE DEF All, Dev
    <2> DEFINE d == <<"mfxImplDescription">>
               singles == {<< <<"mfxHandleType">>, <<"Special", "HandleType">> >>,
                           << <<"mfxHDL">>, <<"Special", "Handle">> >>,
                           << <<"mfxImplementedFunctions", "FunctionsName">>, <<"Func", "FunctionName">> >>,
                           <<Append(d, ""), <<"Query", "ImplOnly">>>>,
                           <<Append(d, "mfxSurfacePoolMode"), <<"Main", "PoolAllocationPolicy">>>>,
                           <<d \o <<"ApiVersion", "Version">>, <<"Main", "ApiVersion">>>>}
    <2>3. \/ n \in singles
          \/ n \in Named(<<>>, "Special", {"NumThread", "DeviceCopy", "ExtBuffer"})
          \/ n \in Named(<<>>, "Special", {"DXGIAdapterIndex"})
          \/ n \in Named(<<"mfxExtendedDeviceId">>, "ExtDev", ExtDevFields)
          \/ n \in Under(<<"mfxSurfaceTypesSupported">>, SetFilterPropertySurface)
          \/ n \in Named(d, "Main", {"Impl", "AccelerationMode", "VendorID", "ImplName", "License",
                                     "Keywords", "VendorImplID"})
          \/ n \in Named(Append(d, "ApiVersion"), "Main", {"Major", "Minor"})
          \/ n \in Under(Append(d, "mfxDeviceDescription"), Dev)
          \/ n \in Under(d \o <<"mfxDeviceDescription", "device">>, Dev)
          \/ n \in Under(Append(d, "mfxDecoderDescription"), SetFilterPropertyDec)
          \/ n \in Under(Append(d, "mfxEncoderDescription"), SetFilterPropertyEnc)
          \/ n \in Under(Append(d, "mfxVPPDescription"), SetFilterPropertyVPP)
        <3> HIDE DEF singles
        <3> QED
            BY DEF Names, Dev, singles
    <2>4. ASSUME n \in singles
          PROVE  \E path, p : n = <<path, p>> /\ p \in {<<"Special", "HandleType">>, <<"Special", "Handle">>,
                    <<"Func", "FunctionName">>, <<"Query", "ImplOnly">>, <<"Main", "PoolAllocationPolicy">>,
                    <<"Main", "ApiVersion">>}
        BY <2>4
    <2> HIDE DEF singles, d
    <2> QED
        BY <2>1, <2>2, <2>3, <2>4
<1>9. \/ n[2] \in Group("Special", SpecialFields) \cup Group("Main", MainFields) \cup Group("ExtDev", ExtDevFields)
      \/ \E o \in All : n[2] = o[2]
      \/ n[2] \in {<<"Special", "HandleType">>, <<"Special", "Handle">>,
                <<"Func", "FunctionName">>, <<"Query", "ImplOnly">>, <<"Main", "PoolAllocationPolicy">>,
                <<"Main", "ApiVersion">>}
    <2> HIDE DEF All
    <2> QED
        BY <1>1, <1>2, <1>8 DEF Group
<1>10. ASSUME NEW o \in All
       PROVE  o[2] \in Property
    BY <1>3, <1>4, <1>5, <1>6, <1>7 DEF Property, Group
<1> HIDE DEF All
<1> QED
    BY <1>9, <1>10 DEF Property, Group, SpecialFields, MainFields

\* Setting and dropping a value.
LEMMA Putting ==
    ASSUME NEW v \in Values, NEW p \in Property, NEW x \in Value
    PROVE  /\ Put(v, p, x) \in Values
           /\ DOMAIN Put(v, p, x) = DOMAIN v \cup {p}
           /\ Put(v, p, x)[p] = x
           /\ \A q \in DOMAIN v \ {p} : Put(v, p, x)[q] = v[q]
<1>1. PICK D \in SUBSET Property : v \in [D -> Value]
    BY DEF Values
<1>2. Put(v, p, x) \in [D \cup {p} -> Value] /\ D \cup {p} \in SUBSET Property
    BY <1>1 DEF Put
<1> QED
    BY <1>1, <1>2 DEF Put, Values

LEMMA Dropping ==
    ASSUME NEW v \in Values, NEW p
    PROVE  /\ Drop(v, p) \in Values
           /\ DOMAIN Drop(v, p) = DOMAIN v \ {p}
           /\ \A q \in DOMAIN v \ {p} : Drop(v, p)[q] = v[q]
<1>1. PICK D \in SUBSET Property : v \in [D -> Value]
    BY DEF Values
<1>2. Drop(v, p) \in [D \ {p} -> Value] /\ D \ {p} \in SUBSET Property
    BY <1>1 DEF Drop
<1> QED
    BY <1>1, <1>2 DEF Drop, Values

\* A call leaves an object of the same kind, whichever way it ends.
LEMMA SetKeepsObject ==
    ASSUME NEW k \in 1..MaxConfig, NEW c \in Call[k], NEW cfg \in Object, Filled(k, cfg)
    PROVE  LET r == SetFilterProperty(cfg, k, c)
           IN  /\ r.cfg \in Object /\ Filled(k, r.cfg)
               /\ r.sts \in {"NONE", "NOT_FOUND", "UNSUPPORTED", "NULL_PTR"}
<1>1. k \in DOMAIN Call /\ c \in UNION {Call[j] : j \in DOMAIN Call} /\ k \in Nat
    BY ConfigFilterAssumption
<1>2. Properties[c] = Denoted(c.name, c.type)
    BY <1>1 DEF Properties
<1>3. CASE Properties[c] = {}
    BY <1>3 DEF SetFilterProperty
<1>4. CASE Properties[c] # {}
    <2> DEFINE p == CHOOSE q \in Properties[c] : TRUE
               flagged == [cfg EXCEPT !.query = IF c.query THEN @ \cup {p} ELSE @ \ {p}]
    <2>1. p \in Denoted(c.name, c.type)
        BY <1>2, <1>4
    <2>2. p \in Property
        BY <2>1, NamesEnd DEF Denoted
    <2>3. SetFilterProperty(cfg, k, c) = ValidateAndSetProp(cfg, k, p, c)
        BY <1>4 DEF SetFilterProperty
    <2> HIDE DEF p
    <2>4. flagged \in Object /\ flagged.val = cfg.val /\ flagged.gen = cfg.gen /\ flagged.size = cfg.size
        BY <2>2 DEF Object
    <2>5. Filled(k, flagged)
        BY <2>4 DEF Filled
    <2> DEFINE r == ValidateAndSetProp(cfg, k, p, c)
    <2>6. CASE \/ p[1] = "Query" /\ ~c.query
               \/ c.query /\ p \notin Queryable
               \/ c.type # TypeOf(p)
        <3>1. r = [sts |-> "UNSUPPORTED", cfg |-> flagged]
            BY <2>6 DEF ValidateAndSetProp
        <3> HIDE DEF r, flagged
        <3> QED
            BY <2>3, <2>4, <2>5, <3>1 DEF r
    <2>7. CASE /\ ~(p[1] = "Query" /\ ~c.query) /\ ~(c.query /\ p \notin Queryable) /\ c.type = TypeOf(p)
               /\ c.type = "PTR" /\ c.data = Null
        <3> DEFINE e == [flagged EXCEPT !.val = Drop(@, p)]
        <3>1. r = [sts |-> "NULL_PTR", cfg |-> e]
            BY <2>7 DEF ValidateAndSetProp
        <3>2. Drop(flagged.val, p) \in Values /\ DOMAIN Drop(flagged.val, p) = DOMAIN cfg.val \ {p}
              /\ \A q \in DOMAIN cfg.val \ {p} : Drop(flagged.val, p)[q] = cfg.val[q]
            <4>1. flagged.val \in Values /\ flagged.val = cfg.val
                BY <2>4 DEF Object
            <4> HIDE DEF flagged
            <4> QED
                BY <4>1, Dropping
        <3> HIDE DEF flagged
        <3>3. e \in Object /\ e.val = Drop(flagged.val, p) /\ e.gen = cfg.gen
            <4>1. ASSUME NEW g \in Object, NEW h \in Values
                  PROVE  /\ [g EXCEPT !.val = h] \in Object
                         /\ [g EXCEPT !.val = h].val = h /\ [g EXCEPT !.val = h].gen = g.gen
                BY DEF Object
            <4>2. e = [flagged EXCEPT !.val = Drop(flagged.val, p)]
                OBVIOUS
            <4> HIDE DEF e
            <4> QED
                BY <2>4, <3>2, <4>1, <4>2
        <3> HIDE DEF r, e
        <3>4. Filled(k, e)
            BY <3>2, <3>3 DEF Filled
        <3> QED
            BY <2>3, <3>1, <3>3, <3>4 DEF r
    <2>8. CASE /\ ~(p[1] = "Query" /\ ~c.query) /\ ~(c.query /\ p \notin Queryable) /\ c.type = TypeOf(p)
               /\ ~(c.type = "PTR" /\ c.data = Null)
        <3>1. InRange(p, c.data) /\ c.data # Unset /\ c.data \in Value
            BY <1>1, <2>1, <2>8, ConfigFilterAssumption DEF Value
        <3>2. CASE p = <<"Special", "ExtBuffer">>
            <4> DEFINE gen == IF c.data.size > flagged.size THEN flagged.gen + 1 ELSE flagged.gen
                       x == [config |-> k, gen |-> gen]
                       e == SetExtBuf(flagged, k, c.data)
            <4>1. r = [sts |-> "NONE", cfg |-> e]
                BY <2>8, <3>2 DEF ValidateAndSetProp
            <4>2. c.data.size \in Nat
                BY <3>1, <3>2 DEF InRange
            <4>3. gen \in Nat /\ x \in Value /\ x \in Pointer
                BY <1>1, <2>4, <4>2 DEF Object, Value, Pointer
            <4> DEFINE w == Put(flagged.val, <<"Special", "ExtBuffer">>, x)
            <4>4. w \in Values /\ DOMAIN w = DOMAIN cfg.val \cup {p} /\ w[p] = x
                  /\ \A q \in DOMAIN cfg.val \ {p} : w[q] = cfg.val[q]
                <5> HIDE DEF x, flagged
                <5> QED
                    BY <2>2, <2>4, <3>2, <4>3, Putting DEF Object
            <4>5. e = [flagged EXCEPT !.gen = gen, !.size = IF c.data.size > @ THEN c.data.size ELSE @, !.val = w]
                BY <2>4 DEF SetExtBuf, Object
            <4> HIDE DEF flagged, gen, w, e
            <4>6. e \in Object /\ e.val = w /\ e.gen = gen
                BY <2>4, <4>2, <4>3, <4>4, <4>5 DEF Object
            <4>7. x # Unset
                BY <4>3, ConfigFilterAssumption DEF Pointer
            <4>8. Filled(k, e)
                BY <3>2, <4>4, <4>6, <4>7 DEF Filled
            <4> HIDE DEF r, x
            <4> QED
                BY <2>3, <4>1, <4>6, <4>8 DEF r
        <3>3. CASE p # <<"Special", "ExtBuffer">>
            <4> DEFINE w == Put(flagged.val, p, c.data)
                       e == [flagged EXCEPT !.val = Put(@, p, c.data)]
            <4>1. r = [sts |-> "NONE", cfg |-> e]
                BY <2>8, <3>3 DEF ValidateAndSetProp
            <4>2. w \in Values /\ DOMAIN w = DOMAIN cfg.val \cup {p} /\ w[p] = c.data
                  /\ \A q \in DOMAIN cfg.val \ {p} : w[q] = cfg.val[q]
                <5> HIDE DEF flagged
                <5> QED
                    BY <2>2, <2>4, <3>1, Putting DEF Object
            <4>3. e \in Object /\ e.val = w /\ e.gen = cfg.gen
                <5> HIDE DEF flagged
                <5> QED
                    BY <2>4, <4>2 DEF Object
            <4> HIDE DEF e, w
            <4>4. Filled(k, e)
                BY <3>1, <3>3, <4>2, <4>3 DEF Filled
            <4> HIDE DEF r
            <4> QED
                BY <2>3, <4>1, <4>3, <4>4 DEF r
        <3> QED
            BY <3>2, <3>3
    <2> QED
        BY <2>6, <2>7, <2>8
<1> QED
    BY <1>3, <1>4

-----------------------------------------------------------------------------
(* The special properties                                                  *)

Buffer == <<"Special", "ExtBuffer">>
Version == <<"Main", "ApiVersion">>
Passed == PassedOn \cup {"AccelerationMode"}
Fields == {"AccelerationMode", "ApiVersion", "HandleType", "Handle", "NumThread", "DeviceCopy",
           "DXGIAdapterIndex", "ExtBuffers"}

\* The first k objects that set p, and the last of them.
Setters(cs, k, p) == {j \in 1..k : p \in DOMAIN cs[j].val}
LastSetter(cs, k, p, j) == j \in Setters(cs, k, p) /\ \A i \in Setters(cs, k, p) : i <= j

LEMMA SpecialFieldsAre ==
    DOMAIN SpecialUnset = Fields /\ IsFcn(SpecialUnset) /\ Passed = Fields \ {"ApiVersion", "ExtBuffers"}
    BY DEF SpecialUnset, Fields, IsFcn, Passed, PassedOn, SpecialFields

LEMMA ObjectsAre ==
    ASSUME NEW cs, Objects(cs), NEW k \in 1..Len(cs)
    PROVE  /\ Len(cs) \in Nat /\ DOMAIN cs = 1..Len(cs)
           /\ cs[k] \in Object /\ Filled(k, cs[k]) /\ DOMAIN cs[k].val \subseteq Property
           /\ \A p : Get(cs[k].val, p) = Unset <=> p \notin DOMAIN cs[k].val
<1>1. cs[k] \in Object /\ Filled(k, cs[k]) /\ Len(cs) \in Nat /\ DOMAIN cs = 1..Len(cs)
    BY DEF Objects
<1>2. PICK D \in SUBSET Property : cs[k].val \in [D -> Value]
    BY <1>1 DEF Object, Values
<1> QED
    BY <1>1, <1>2 DEF Get, Filled

\* What one object changes.
LEMMA OneTaken ==
    ASSUME NEW cs, Objects(cs), NEW k \in 1..Len(cs), NEW sp, DOMAIN sp = Fields
    PROVE  LET v == cs[k].val
               t == TakeSpecial(sp, v)
           IN  /\ DOMAIN t = Fields /\ IsFcn(t)
               /\ t.ApiVersion = sp.ApiVersion
               /\ \A f \in Passed : t[f] = IF Source(f) \in DOMAIN v THEN v[Source(f)] ELSE sp[f]
               /\ t.ExtBuffers = IF Buffer \in DOMAIN v THEN Append(sp.ExtBuffers, v[Buffer])
                                 ELSE sp.ExtBuffers
<1> DEFINE v == cs[k].val
           t == TakeSpecial(sp, v)
<1>1. \A p : Get(v, p) = IF p \in DOMAIN v THEN v[p] ELSE Unset
    BY DEF Get
<1>2. \A p : Get(v, p) = Unset <=> p \notin DOMAIN v
    BY ObjectsAre
<1> HIDE DEF v
<1>3. DOMAIN t = Fields /\ IsFcn(t)
    BY DEF TakeSpecial, IsFcn
<1>4. t.ApiVersion = sp.ApiVersion
    BY SpecialFieldsAre DEF TakeSpecial, Fields, Passed
<1>5. \A f \in Passed : t[f] = IF Source(f) \in DOMAIN v THEN v[Source(f)] ELSE sp[f]
    BY <1>1, <1>2, SpecialFieldsAre DEF TakeSpecial, Passed
<1>6. t.ExtBuffers = IF Buffer \in DOMAIN v THEN Append(sp.ExtBuffers, v[Buffer]) ELSE sp.ExtBuffers
    BY <1>1, <1>2, SpecialFieldsAre DEF TakeSpecial, Fields, Passed, Buffer
<1> QED
    BY <1>3, <1>4, <1>5, <1>6 DEF v

LEMMA BufferTaken ==
    ASSUME NEW cs, Objects(cs), NEW k \in 1..Len(cs), NEW sp, DOMAIN sp = Fields
    PROVE  TakeSpecial(sp, cs[k].val).ExtBuffers =
               IF Buffer \in DOMAIN cs[k].val THEN Append(sp.ExtBuffers, cs[k].val[Buffer])
               ELSE sp.ExtBuffers
    BY OneTaken

\* After k objects each property passed on is the last value set, or as it was.
TakenFields(cs, k, sp, s) ==
    /\ DOMAIN s = Fields /\ IsFcn(s)
    /\ s.ApiVersion = sp.ApiVersion
    /\ \A f \in Passed :
         /\ Setters(cs, k, Source(f)) = {} => s[f] = sp[f]
         /\ \A j : LastSetter(cs, k, Source(f), j) => s[f] = cs[j].val[Source(f)]

LEMMA CollectedFields ==
    ASSUME NEW cs, Objects(cs), NEW sp, DOMAIN sp = Fields, IsFcn(sp)
    PROVE  \A k \in 0..Len(cs) : TakenFields(cs, k, sp, Collected(cs, sp)[k])
<1> DEFINE n == Len(cs)
           C == Collected(cs, sp)
           S == {k \in 0..n : TakenFields(cs, k, sp, C[k])}
<1>1. n \in Nat
    BY DEF Objects
<1>2. 0 \in S
    BY <1>1, CollectedTurn DEF TakenFields, Setters, LastSetter
<1>3. ASSUME NEW k \in 0 .. n - 1, k \in S
      PROVE  k + 1 \in S
    <2> DEFINE s == C[k]
               v == cs[k + 1].val
               t == C[k + 1]
    <2>1. k + 1 \in 1..n /\ k + 1 - 1 = k /\ k \in Nat
        BY <1>1
    <2>2. t = TakeSpecial(s, v)
        BY <1>1, <2>1, CollectedTurn
    <2>3. TakenFields(cs, k, sp, s)
        BY <1>3
    <2> HIDE DEF C
    <2>4. /\ DOMAIN t = Fields /\ IsFcn(t) /\ t.ApiVersion = s.ApiVersion
          /\ \A f \in Passed : t[f] = IF Source(f) \in DOMAIN v THEN v[Source(f)] ELSE s[f]
        <3>1. DOMAIN s = Fields
            BY <2>3 DEF TakenFields
        <3> QED
            BY <2>1, <2>2, <3>1, OneTaken
    <2> HIDE DEF s, t
    <2>5. \A p : Setters(cs, k + 1, p) = IF p \in DOMAIN v THEN Setters(cs, k, p) \cup {k + 1} ELSE Setters(cs, k, p)
        BY <2>1 DEF Setters
    <2>6. ASSUME NEW f \in Passed
          PROVE  /\ Setters(cs, k + 1, Source(f)) = {} => t[f] = sp[f]
                 /\ \A j : LastSetter(cs, k + 1, Source(f), j) => t[f] = cs[j].val[Source(f)]
        <3>1. CASE Source(f) \in DOMAIN v
            <4>1. t[f] = v[Source(f)] /\ k + 1 \in Setters(cs, k + 1, Source(f))
                BY <2>4, <2>5, <3>1
            <4>2. ASSUME NEW j, LastSetter(cs, k + 1, Source(f), j)
                  PROVE  j = k + 1
                BY <2>1, <4>1, <4>2 DEF LastSetter, Setters
            <4> QED
                BY <4>1, <4>2
        <3>2. CASE Source(f) \notin DOMAIN v
            <4>1. t[f] = s[f] /\ Setters(cs, k + 1, Source(f)) = Setters(cs, k, Source(f))
                BY <2>4, <2>5, <3>2
            <4>2. \A j : LastSetter(cs, k + 1, Source(f), j) => LastSetter(cs, k, Source(f), j)
                BY <4>1 DEF LastSetter
            <4> HIDE DEF v
            <4> QED
                BY <2>3, <4>1, <4>2 DEF TakenFields
        <3> QED
            BY <3>1, <3>2
    <2>7. TakenFields(cs, k + 1, sp, t)
        BY <2>3, <2>4, <2>6 DEF TakenFields
    <2> QED
        BY <2>1, <2>7 DEF t
<1>4. n \in Nat /\ 0 \in S /\ \A k \in 0 .. n - 1 : k \in S => k + 1 \in S
    <2> HIDE DEF S
    <2> QED
        BY <1>1, <1>2, <1>3
<1>5. \A k \in 0..n : k \in S
    <2> HIDE DEF S, n
    <2> QED
        BY ONLY <1>4, Counting
<1> QED
    BY <1>5

\* After k objects the buffers are those of the first k, in order.
Gathered(cs, k, b) ==
    /\ b \in Seq(Pointer) /\ Len(b) = Cardinality(Setters(cs, k, Buffer))
    /\ \A j \in Setters(cs, k, Buffer) :
         b[Cardinality(Setters(cs, j, Buffer))] = [config |-> j, gen |-> cs[j].gen]

LEMMA SettersFinite ==
    ASSUME NEW cs, NEW k \in Nat, NEW p
    PROVE  /\ IsFiniteSet(Setters(cs, k, p)) /\ Cardinality(Setters(cs, k, p)) \in Nat
           /\ \A j \in Setters(cs, k, p) :
                Cardinality(Setters(cs, j, p)) \in 1..Cardinality(Setters(cs, k, p))
<1>1. IsFiniteSet(1..k)
    BY FS_Interval
<1>2. IsFiniteSet(Setters(cs, k, p))
    BY <1>1, FS_Subset DEF Setters
<1>3. ASSUME NEW j \in Setters(cs, k, p)
      PROVE  Cardinality(Setters(cs, j, p)) \in 1..Cardinality(Setters(cs, k, p))
    <2>1. Setters(cs, j, p) \subseteq Setters(cs, k, p) /\ j \in Setters(cs, j, p)
        BY DEF Setters
    <2>2. /\ IsFiniteSet(Setters(cs, j, p))
          /\ Cardinality(Setters(cs, j, p)) <= Cardinality(Setters(cs, k, p))
        BY <1>2, <2>1, FS_Subset
    <2>3. Cardinality(Setters(cs, j, p)) # 0
        BY <2>1, <2>2, FS_EmptySet
    <2> QED
        BY <1>2, <2>2, <2>3, FS_CardinalityType
<1> QED
    BY <1>2, <1>3, FS_CardinalityType

LEMMA CollectedBuffers ==
    ASSUME NEW cs, Objects(cs), NEW sp, DOMAIN sp = Fields, IsFcn(sp), sp.ExtBuffers = <<>>
    PROVE  \A k \in 0..Len(cs) : Gathered(cs, k, Collected(cs, sp)[k].ExtBuffers)
<1> DEFINE n == Len(cs)
           C == Collected(cs, sp)
           S == {k \in 0..n : Gathered(cs, k, C[k].ExtBuffers)}
<1>1. n \in Nat
    BY DEF Objects
<1>2. 0 \in S
    <2>1. Setters(cs, 0, Buffer) = {}
        BY DEF Setters
    <2>2. Gathered(cs, 0, <<>>)
        BY <2>1, FS_EmptySet DEF Gathered
    <2> QED
        BY <1>1, <2>2, CollectedTurn
<1>3. ASSUME NEW k \in 0 .. n - 1, k \in S
      PROVE  k + 1 \in S
    <2> DEFINE b == C[k].ExtBuffers
               e == C[k + 1].ExtBuffers
               v == cs[k + 1].val
               x == [config |-> k + 1, gen |-> cs[k + 1].gen]
               before == Setters(cs, k, Buffer)
    <2>1. k + 1 \in 1..n /\ k + 1 - 1 = k /\ k \in Nat
        BY <1>1
    <2>2. C[k + 1] = TakeSpecial(C[k], v)
        BY <1>1, <2>1, CollectedTurn
    <2>3. Gathered(cs, k, b)
        BY <1>3
    <2>4. DOMAIN C[k] = Fields
        BY <1>1, CollectedFields DEF TakenFields
    <2> HIDE DEF C
    <2>5. e = IF Buffer \in DOMAIN v THEN Append(b, v[Buffer]) ELSE b
        BY <2>1, <2>2, <2>4, OneTaken
    <2> HIDE DEF b, e
    <2>6. Setters(cs, k + 1, Buffer) = IF Buffer \in DOMAIN v THEN before \cup {k + 1} ELSE before
        BY <2>1 DEF Setters
    <2>7. ASSUME Buffer \notin DOMAIN v
          PROVE  Gathered(cs, k + 1, e)
        BY <2>3, <2>5, <2>6, <2>7 DEF Gathered
    <2>8. ASSUME Buffer \in DOMAIN v
          PROVE  Gathered(cs, k + 1, e)
        <3>1. v[Buffer] = x /\ x \in Pointer
            BY <2>1, <2>8, ObjectsAre DEF Filled, Buffer, Pointer, Object
        <3>2. IsFiniteSet(before) /\ Cardinality(before) \in Nat /\ k + 1 \notin before
              /\ \A j \in before : Cardinality(Setters(cs, j, Buffer)) \in 1..Cardinality(before)
            <4>1. k + 1 \notin before
                BY <2>1 DEF Setters
            <4> QED
                BY <2>1, <4>1, SettersFinite
        <3>3. Cardinality(Setters(cs, k + 1, Buffer)) = Cardinality(before) + 1
            BY <2>6, <2>8, <3>2, FS_AddElement
        <3> HIDE DEF before, v
        <3>4. b \in Seq(Pointer) /\ Len(b) = Cardinality(before)
            BY <2>3 DEF Gathered, before
        <3> HIDE DEF x
        <3>5. /\ e \in Seq(Pointer) /\ Len(e) = Len(b) + 1
              /\ e[Len(b) + 1] = x /\ \A i \in 1..Len(b) : e[i] = b[i]
            BY <2>5, <2>8, <3>1, <3>4
        <3>6. ASSUME NEW j \in Setters(cs, k + 1, Buffer)
              PROVE  e[Cardinality(Setters(cs, j, Buffer))] = [config |-> j, gen |-> cs[j].gen]
            <4>1. CASE j = k + 1
                BY <3>3, <3>4, <3>5, <4>1 DEF x
            <4>2. CASE j \in before
                <5>1. Cardinality(Setters(cs, j, Buffer)) \in 1..Len(b)
                    BY <3>2, <3>4, <4>2
                <5>2. b[Cardinality(Setters(cs, j, Buffer))] = [config |-> j, gen |-> cs[j].gen]
                    BY <2>3, <4>2 DEF Gathered, before
                <5> QED
                    BY <3>5, <5>1, <5>2
            <4> QED
                BY <2>6, <2>8, <4>1, <4>2
        <3> QED
            BY <3>3, <3>4, <3>5, <3>6 DEF Gathered
    <2>9. Gathered(cs, k + 1, e)
        BY <2>7, <2>8
    <2> QED
        BY <2>1, <2>9 DEF e
<1>4. n \in Nat /\ 0 \in S /\ \A k \in 0 .. n - 1 : k \in S => k + 1 \in S
    <2> HIDE DEF S
    <2> QED
        BY <1>1, <1>2, <1>3
<1>5. \A k \in 0..n : k \in S
    <2> HIDE DEF S, n
    <2> QED
        BY ONLY <1>4, Counting
<1> QED
    BY <1>5

\* Buffers collected do not depend on the other special properties, and a new
\* object adds nothing.
LEMMA SameBuffers ==
    ASSUME NEW cs, Objects(cs), NEW a, NEW b, DOMAIN a = Fields, IsFcn(a), DOMAIN b = Fields, IsFcn(b),
           a.ExtBuffers = b.ExtBuffers
    PROVE  Collected(cs, a)[Len(cs)].ExtBuffers = Collected(cs, b)[Len(cs)].ExtBuffers
<1> DEFINE n == Len(cs)
           A == Collected(cs, a)
           B == Collected(cs, b)
           S == {k \in 0..n : A[k].ExtBuffers = B[k].ExtBuffers}
<1>1. n \in Nat
    BY DEF Objects
<1>2. 0 \in S
    BY <1>1, CollectedTurn
<1>3. ASSUME NEW k \in 0 .. n - 1, k \in S
      PROVE  k + 1 \in S
    <2> DEFINE v == cs[k + 1].val
    <2>1. k + 1 \in 1..n /\ k + 1 - 1 = k /\ k \in Nat
        BY <1>1
    <2>2. A[k + 1] = TakeSpecial(A[k], v) /\ B[k + 1] = TakeSpecial(B[k], v)
        BY <1>1, <2>1, CollectedTurn
    <2>3. DOMAIN A[k] = Fields /\ DOMAIN B[k] = Fields
        BY <1>1, CollectedFields DEF TakenFields
    <2>4. A[k].ExtBuffers = B[k].ExtBuffers
        BY <1>3
    <2> HIDE DEF A, B
    <2>5. A[k + 1].ExtBuffers = IF Buffer \in DOMAIN v THEN Append(A[k].ExtBuffers, v[Buffer])
                                ELSE A[k].ExtBuffers
        BY <2>1, <2>2, <2>3, BufferTaken
    <2>6. B[k + 1].ExtBuffers = IF Buffer \in DOMAIN v THEN Append(B[k].ExtBuffers, v[Buffer])
                                ELSE B[k].ExtBuffers
        BY <2>1, <2>2, <2>3, BufferTaken
    <2> HIDE DEF v
    <2>7. A[k + 1].ExtBuffers = B[k + 1].ExtBuffers
        BY <2>4, <2>5, <2>6
    <2> QED
        BY <2>1, <2>7
<1>4. n \in Nat /\ 0 \in S /\ \A k \in 0 .. n - 1 : k \in S => k + 1 \in S
    <2> HIDE DEF S
    <2> QED
        BY <1>1, <1>2, <1>3
<1>5. \A k \in 0..n : k \in S
    <2> HIDE DEF S, n
    <2> QED
        BY ONLY <1>4, Counting
<1> QED
    BY <1>1, <1>5

LEMMA NewObject ==
    NewConfig \in Object /\ DOMAIN NewConfig.val = {} /\ \A k : Filled(k, NewConfig)
<1>1. NewConfig.val = <<>> /\ DOMAIN NewConfig.val = {}
    BY DEF NewConfig
<1>2. <<>> \in [{} -> Value]
    OBVIOUS
<1>3. NewConfig.val \in Values
    BY <1>1, <1>2 DEF Values
<1> QED
    BY <1>1, <1>3 DEF NewConfig, Object, Filled

LEMMA Appended ==
    ASSUME NEW cs, Objects(cs)
    PROVE  LET more == Append(cs, NewConfig)
           IN  /\ Objects(more) /\ Len(more) = Len(cs) + 1 /\ more[Len(cs) + 1] = NewConfig
               /\ \A k \in 1..Len(cs) : more[k] = cs[k]
               /\ \A p : Setters(more, Len(cs) + 1, p) = Setters(cs, Len(cs), p)
<1> DEFINE more == Append(cs, NewConfig)
<1>1. cs \in Seq(Object) /\ Len(cs) \in Nat
    BY DEF Objects
<1>2. /\ more \in Seq(Object) /\ Len(more) = Len(cs) + 1 /\ more[Len(cs) + 1] = NewConfig
      /\ \A k \in 1..Len(cs) : more[k] = cs[k]
    <2>1. NewConfig \in Object
        BY NewObject
    <2> HIDE DEF NewConfig
    <2> QED
        BY <1>1, <2>1
<1> HIDE DEF more
<1>3. Objects(more)
    BY <1>1, <1>2, NewObject DEF Objects
<1>4. ASSUME NEW p
      PROVE  Setters(more, Len(cs) + 1, p) = Setters(cs, Len(cs), p)
    BY <1>1, <1>2, NewObject DEF Setters
<1> QED
    BY <1>2, <1>3, <1>4 DEF more

LEMMA AppendedBuffers ==
    ASSUME NEW cs, Objects(cs), NEW sp, DOMAIN sp = Fields, IsFcn(sp)
    PROVE  Collected(Append(cs, NewConfig), sp)[Len(cs) + 1].ExtBuffers = Collected(cs, sp)[Len(cs)].ExtBuffers
<1> DEFINE n == Len(cs)
           more == Append(cs, NewConfig)
           A == Collected(more, sp)
           C == Collected(cs, sp)
           S == {k \in 0..n : A[k] = C[k]}
<1>1. /\ n \in Nat /\ Objects(more) /\ Len(more) = n + 1 /\ more[n + 1] = NewConfig
      /\ \A k \in 1..n : more[k] = cs[k]
    BY Appended DEF Objects
<1> HIDE DEF more
<1>2. 0 \in S
    BY <1>1, CollectedTurn
<1>3. ASSUME NEW k \in 0 .. n - 1, k \in S
      PROVE  k + 1 \in S
    <2>1. k + 1 \in 1..n /\ k + 1 \in 1 .. n + 1 /\ k + 1 - 1 = k /\ k \in Nat /\ more[k + 1] = cs[k + 1]
        BY <1>1
    <2>2. A[k + 1] = TakeSpecial(A[k], cs[k + 1].val)
        <3>1. Len(more) \in Nat /\ k + 1 \in 1..Len(more)
            BY <1>1, <2>1
        <3>2. A[k + 1] = TakeSpecial(A[k + 1 - 1], more[k + 1].val)
            BY <3>1, CollectedTurn
        <3> QED
            BY <2>1, <3>2
    <2>3. C[k + 1] = TakeSpecial(C[k], cs[k + 1].val)
        BY <1>1, <2>1, CollectedTurn
    <2>4. A[k] = C[k]
        BY <1>3
    <2> HIDE DEF A, C
    <2> QED
        BY <2>1, <2>2, <2>3, <2>4
<1>4. n \in Nat /\ 0 \in S /\ \A k \in 0 .. n - 1 : k \in S => k + 1 \in S
    <2> HIDE DEF S
    <2> QED
        BY <1>1, <1>2, <1>3
<1>5. \A k \in 0..n : k \in S
    <2> HIDE DEF S, n
    <2> QED
        BY ONLY <1>4, Counting
<1>6. A[n] = C[n] /\ DOMAIN A[n] = Fields
    BY <1>1, <1>5, CollectedFields DEF TakenFields
<1>7. n + 1 \in 1..Len(more) /\ n + 1 - 1 = n /\ Len(more) \in Nat
    BY <1>1
<1>8. A[n + 1] = TakeSpecial(A[n], NewConfig.val)
    BY <1>1, <1>7, CollectedTurn
<1> HIDE DEF A, C, n
<1>9. A[n + 1].ExtBuffers = A[n].ExtBuffers
    <2>1. Objects(more) /\ n + 1 \in 1..Len(more) /\ DOMAIN A[n] = Fields
        BY <1>1, <1>6, <1>7
    <2>2. TakeSpecial(A[n], more[n + 1].val).ExtBuffers =
              IF Buffer \in DOMAIN more[n + 1].val
              THEN Append(A[n].ExtBuffers, more[n + 1].val[Buffer]) ELSE A[n].ExtBuffers
        BY ONLY <2>1, OneTaken
    <2> QED
        BY <1>1, <1>8, <2>2, NewObject
<1> QED
    BY <1>6, <1>9 DEF A, C, n, more

\* Where some object sets p, one of them is the last.
LEMMA SomeLast ==
    ASSUME NEW cs, Len(cs) \in Nat, NEW p
    PROVE  \/ Setters(cs, Len(cs), p) = {}
           \/ \E j : LastSetter(cs, Len(cs), p, j)
<1> DEFINE n == Len(cs)
           S == {k \in 0..n : Setters(cs, k, p) = {} \/ \E j : LastSetter(cs, k, p, j)}
<1>1. 0 \in S
    BY DEF Setters
<1>2. ASSUME NEW k \in 0 .. n - 1, k \in S
      PROVE  k + 1 \in S
    <2>1. Setters(cs, k + 1, p) = IF p \in DOMAIN cs[k + 1].val THEN Setters(cs, k, p) \cup {k + 1}
                                  ELSE Setters(cs, k, p)
        BY DEF Setters
    <2>2. CASE p \in DOMAIN cs[k + 1].val
        <3>1. LastSetter(cs, k + 1, p, k + 1)
            BY <2>1, <2>2 DEF LastSetter, Setters
        <3> QED
            BY <3>1
    <2>3. CASE p \notin DOMAIN cs[k + 1].val
        BY <1>2, <2>1, <2>3 DEF LastSetter
    <2> QED
        BY <2>2, <2>3
<1>3. n \in Nat /\ 0 \in S /\ \A k \in 0 .. n - 1 : k \in S => k + 1 \in S
    <2> HIDE DEF S
    <2> QED
        BY <1>1, <1>2
<1>4. \A k \in 0..n : k \in S
    <2> HIDE DEF S, n
    <2> QED
        BY ONLY <1>3, Counting
<1> QED
    BY <1>3, <1>4

LEMMA LastSetIs ==
    ASSUME NEW cs, Len(cs) \in Nat, DOMAIN cs = 1..Len(cs), NEW p
    PROVE  /\ Setters(cs, Len(cs), p) = {} => LastSet(cs, p) = Unset
           /\ \A j : LastSetter(cs, Len(cs), p, j) => LastSet(cs, p) = cs[j].val[p]
<1> DEFINE setters == {k \in DOMAIN cs : p \in DOMAIN cs[k].val}
<1>1. setters = Setters(cs, Len(cs), p)
    BY DEF Setters
<1>2. LastSet(cs, p) = IF setters = {} THEN Unset
                       ELSE cs[CHOOSE k \in setters : \A j \in setters : j <= k].val[p]
    BY DEF LastSet
<1>3. \A j \in setters : j \in Nat
    BY <1>1 DEF Setters
<1> HIDE DEF setters
<1>4. ASSUME NEW j, LastSetter(cs, Len(cs), p, j)
      PROVE  LastSet(cs, p) = cs[j].val[p]
    <2> DEFINE c == CHOOSE k \in setters : \A i \in setters : i <= k
    <2>1. j \in setters /\ \A i \in setters : i <= j
        BY <1>1, <1>4 DEF LastSetter
    <2>2. c \in setters /\ \A i \in setters : i <= c
        BY <2>1
    <2>3. c = j
        <3> HIDE DEF c
        <3> QED
            BY <1>3, <2>1, <2>2
    <2> QED
        BY <1>2, <2>1, <2>3
<1> QED
    BY <1>1, <1>2, <1>4

\* What both modes leave: the last values set, and the buffers of the objects.
Settled(cs, s) ==
    /\ DOMAIN s = Fields /\ IsFcn(s)
    /\ s.ExtBuffers = Collected(cs, SpecialUnset)[Len(cs)].ExtBuffers
    /\ \A f \in Passed : \A j : LastSetter(cs, Len(cs), Source(f), j) => s[f] = cs[j].val[Source(f)]

LEMMA CollectedSettled ==
    ASSUME NEW cs, Objects(cs), NEW sp, DOMAIN sp = Fields, IsFcn(sp)
    PROVE  LET t == Collected(cs, [sp EXCEPT !.ExtBuffers = <<>>])[Len(cs)]
           IN  /\ Settled(cs, t) /\ t.ApiVersion = sp.ApiVersion
               /\ Settled(cs, sp) => t = sp
<1> DEFINE n == Len(cs)
           e == [sp EXCEPT !.ExtBuffers = <<>>]
           t == Collected(cs, e)[n]
<1>1. n \in Nat /\ n \in 0..n
    BY DEF Objects
<1>2. /\ DOMAIN e = Fields /\ IsFcn(e) /\ e.ExtBuffers = <<>> /\ e.ApiVersion = sp.ApiVersion
      /\ \A f \in Passed : e[f] = sp[f]
    BY SpecialFieldsAre DEF IsFcn, Fields
<1>3. SpecialUnset.ExtBuffers = <<>>
    BY DEF SpecialUnset
<1> HIDE DEF e
<1>4. TakenFields(cs, n, e, t)
    BY <1>1, <1>2, CollectedFields
<1>5. t.ExtBuffers = Collected(cs, SpecialUnset)[n].ExtBuffers
    BY <1>2, <1>3, SpecialFieldsAre, SameBuffers
<1> HIDE DEF t, n
<1>6. Settled(cs, t) /\ t.ApiVersion = sp.ApiVersion
    BY <1>2, <1>4, <1>5 DEF Settled, TakenFields, n
<1>7. ASSUME Settled(cs, sp)
      PROVE  t = sp
    <2>1. t.ApiVersion = sp.ApiVersion /\ t.ExtBuffers = sp.ExtBuffers
        BY <1>5, <1>6, <1>7 DEF Settled, n
    <2>2. ASSUME NEW f \in Passed
          PROVE  t[f] = sp[f]
        <3>1. CASE Setters(cs, n, Source(f)) = {}
            BY <1>2, <1>4, <3>1 DEF TakenFields
        <3>2. CASE \E j : LastSetter(cs, n, Source(f), j)
            BY <1>4, <1>7, <3>2 DEF TakenFields, Settled, n
        <3> QED
            BY <1>1, <3>1, <3>2, SomeLast DEF n
    <2>3. \A f \in Fields : t[f] = sp[f]
        BY <2>1, <2>2, SpecialFieldsAre
    <2>4. t = [f \in Fields |-> t[f]] /\ sp = [f \in Fields |-> sp[f]]
        BY <1>6, <1>7 DEF Settled, IsFcn
    <2> QED
        BY <2>3, <2>4
<1> QED
    BY <1>6, <1>7 DEF t, e, n

-----------------------------------------------------------------------------
(* One turn of the validation                                              *)

Found == {"ok", "asked", "funcs", "version", "major", "minor", "special"}
Start(sp) == [ok |-> TRUE, asked |-> {}, funcs |-> {}, version |-> 0, major |-> FALSE,
              minor |-> FALSE, special |-> [sp EXCEPT !.ExtBuffers = <<>>]]

FunctionName == <<"Func", "FunctionName">>

\* The tests of an object with values v, of the groups in asked.
Tests(d, asked, v) ==
    /\ CheckPropsGeneral(v, d)
    /\ "ExtDev" \in asked => d.ext # None /\ CheckPropsExtDevID(v, d.ext)
    /\ "Surface" \in asked => d.surf # None /\ CheckPropsSurface(v, d)
    /\ d.type # "msdk" =>
         /\ "Dec" \in asked => CheckPropsDec(v, d)
         /\ "Enc" \in asked => CheckPropsEnc(v, d)
         /\ "VPP" \in asked => CheckPropsVPP(v, d)

\* What one turn makes of r.
TurnGives(d, r, cfg, t) ==
    LET w == TakeVersion(r, cfg.val)
        fn == Get(cfg.val, FunctionName)
    IN  /\ DOMAIN t = Found
        /\ t.ok = (r.ok /\ Tests(d, r.asked \cup Asked(cfg.val), cfg.val))
        /\ t.asked = r.asked \cup Asked(cfg.val)
        /\ t.funcs = IF fn = Unset THEN r.funcs ELSE r.funcs \cup {fn}
        /\ t.special = TakeSpecial(r.special, cfg.val)
        /\ t.version = w.version /\ t.major = w.major /\ t.minor = w.minor

LEMMA OneTurn ==
    ASSUME NEW d, NEW r, DOMAIN r = Found, NEW cfg
    PROVE  TurnGives(d, r, cfg, TakeConfig(d, r, cfg))
<1> DEFINE v == cfg.val
           w == TakeVersion(r, v)
           fn == Get(v, FunctionName)
           asked == r.asked \cup Asked(v)
           t == TakeConfig(d, r, cfg)
<1>1. DOMAIN w = Found /\ w.ok = r.ok /\ w.asked = r.asked /\ w.funcs = r.funcs /\ w.special = r.special
    BY DEF TakeVersion, Found
<1>2. t = [w EXCEPT !.asked = asked,
                    !.ok = /\ @ /\ Tests(d, asked, v),
                    !.funcs = IF fn = Unset THEN @ ELSE @ \cup {fn},
                    !.special = TakeSpecial(@, v)]
    BY DEF TakeConfig, Tests, FunctionName
<1> HIDE DEF w, fn, asked, v, t
<1>3. /\ DOMAIN t = Found /\ t.asked = asked
      /\ t.ok = (r.ok /\ Tests(d, asked, v))
      /\ t.funcs = IF fn = Unset THEN r.funcs ELSE r.funcs \cup {fn}
      /\ t.special = TakeSpecial(r.special, v)
      /\ t.version = w.version /\ t.major = w.major /\ t.minor = w.minor
    BY <1>1, <1>2 DEF Found
<1> QED
    BY <1>3 DEF TurnGives, t, asked, fn, w, v

\* The two halves of a version.
LEMMA MinorsType == Minors \in Nat /\ Minors > 0
    BY DEF Minors

LEMMA Parts ==
    ASSUME NEW n \in Nat
    PROVE  n \div Minors \in Nat /\ n % Minors \in 0 .. Minors - 1 /\ n = Minors * (n \div Minors) + (n % Minors)
    BY MinorsType

LEMMA Halves ==
    ASSUME NEW hi \in Nat, NEW lo \in 0 .. Minors - 1, NEW n, n = Minors * hi + lo
    PROVE  n \in Nat /\ n \div Minors = hi /\ n % Minors = lo
<1>1. n \in Nat
    BY MinorsType
<1>2. n \div Minors = hi
    BY MinorsType
<1>3. n = Minors * (n \div Minors) + (n % Minors) /\ n % Minors \in Nat
    BY <1>1, Parts
<1>4. n % Minors = lo
    BY <1>2, <1>3, MinorsType
<1> QED
    BY <1>1, <1>2, <1>4

LEMMA VersionTurn ==
    ASSUME NEW cs, Objects(cs), NEW k \in 1..Len(cs), NEW r, DOMAIN r = Found, r.version \in Nat
    PROVE  LET v == cs[k].val
               w == TakeVersion(r, v)
               major == Half(v, "Major")
               minor == Half(v, "Minor")
           IN  /\ w.version \in Nat
               /\ w.version \div Minors = IF major = Unset THEN r.version \div Minors ELSE major
               /\ w.version % Minors = IF minor = Unset THEN r.version % Minors ELSE minor
               /\ w.major = (r.major \/ major # Unset) /\ w.minor = (r.minor \/ minor # Unset)
<1> DEFINE v == cs[k].val
           w == TakeVersion(r, v)
           version == Get(v, <<"Main", "ApiVersion">>)
           M == Get(v, <<"Main", "Major">>)
           m == Get(v, <<"Main", "Minor">>)
           hi == IF M = Unset THEN r.version \div Minors ELSE M
           lo == IF m = Unset THEN r.version % Minors ELSE m
<1>1. /\ version # Unset => version \in Nat
      /\ M # Unset => M \in Nat
      /\ m # Unset => m \in 0 .. Minors - 1
    <2>1. ASSUME NEW p, Get(v, p) # Unset, p # <<"Special", "ExtBuffer">>
          PROVE  InRange(p, Get(v, p))
        <3>1. p \in DOMAIN v /\ Get(v, p) = v[p]
            BY <2>1, ObjectsAre DEF Get
        <3>2. InRange(p, v[p])
            BY <2>1, <3>1, ObjectsAre DEF Filled
        <3> QED
            BY <3>1, <3>2
    <2> HIDE DEF v
    <2>2. version # Unset => InRange(<<"Main", "ApiVersion">>, version)
        BY <2>1
    <2>3. M # Unset => InRange(<<"Main", "Major">>, M)
        BY <2>1
    <2>4. m # Unset => InRange(<<"Main", "Minor">>, m)
        BY <2>1
    <2> HIDE DEF version, M, m
    <2>5. version # Unset => version \in Nat
        BY <2>2 DEF InRange
    <2>6. M # Unset => M \in Nat
        BY <2>3 DEF InRange
    <2>7. m # Unset => m \in 0 .. Minors - 1
        BY <2>4 DEF InRange
    <2> QED
        BY <2>5, <2>6, <2>7
<1>2. w = IF version # Unset THEN [r EXCEPT !.version = version, !.major = TRUE, !.minor = TRUE]
          ELSE [r EXCEPT !.version = Minors * hi + lo, !.major = @ \/ M # Unset, !.minor = @ \/ m # Unset]
    BY DEF TakeVersion
<1>3. /\ Half(v, "Major") = IF version = Unset THEN M ELSE version \div Minors
      /\ Half(v, "Minor") = IF version = Unset THEN m ELSE version % Minors
    BY DEF Half
<1>4. Unset \notin Nat
    BY ConfigFilterAssumption
<1> HIDE DEF v, w, version, M, m
<1>5. CASE version # Unset
    <2>1. w.version = version /\ w.major = TRUE /\ w.minor = TRUE
        BY <1>2, <1>5 DEF Found
    <2>2. /\ Half(v, "Major") = version \div Minors /\ Half(v, "Minor") = version % Minors
          /\ version \div Minors # Unset /\ version % Minors # Unset
        <3>1. version \div Minors \in Nat /\ version % Minors \in 0 .. Minors - 1
            BY <1>1, <1>5, Parts
        <3> QED
            BY <1>3, <1>4, <1>5, <3>1
    <2> QED
        BY <1>1, <1>5, <2>1, <2>2 DEF w, v
<1>6. CASE version = Unset
    <2>1. hi \in Nat /\ lo \in 0 .. Minors - 1
        <3>1. r.version \div Minors \in Nat /\ r.version % Minors \in 0 .. Minors - 1
            BY Parts
        <3> QED
            BY <1>1, <3>1
    <2>2. /\ w.version = Minors * hi + lo
          /\ w.major = (r.major \/ M # Unset) /\ w.minor = (r.minor \/ m # Unset)
        <3> HIDE DEF hi, lo
        <3> QED
            BY <1>2, <1>6 DEF Found
    <2>3. Half(v, "Major") = M /\ Half(v, "Minor") = m
        BY <1>3, <1>6
    <2>4. w.version \in Nat /\ w.version \div Minors = hi /\ w.version % Minors = lo
        <3> HIDE DEF hi, lo
        <3> QED
            BY <2>1, <2>2, Halves
    <2> QED
        BY <2>2, <2>3, <2>4 DEF w, v
<1> QED
    BY <1>5, <1>6

\* What an object asks for, apart from functions and version.
Meets(d, v) ==
    /\ CheckPropsGeneral(v, d)
    /\ "ExtDev" \in Asked(v) => d.ext # None /\ CheckPropsExtDevID(v, d.ext)
    /\ "Surface" \in Asked(v) => CheckPropsSurface(v, d)
    /\ d.type # "msdk" =>
         /\ "Dec" \in Asked(v) => OneDecoderHas(d, v)
         /\ "Enc" \in Asked(v) => CheckPropsEnc(v, d)
         /\ "VPP" \in Asked(v) => CheckPropsVPP(v, d)

\* The flat description of a decoder has each combination once.
LEMMA DecIsOneDecoder ==
    ASSUME NEW v, NEW d
    PROVE  CheckPropsDec(v, d) <=> OneDecoderHas(d, v)
<1> DEFINE Rec(c, q, m, f) == [CodecID |-> c.CodecID, MaxcodecLevel |-> c.MaxcodecLevel,
                               Profile |-> q.Profile, MemHandleType |-> m.MemHandleType,
                               Width |-> m.Width, Height |-> m.Height, ColorFormat |-> f]
           Has(c, q, m, f) == /\ Same(c.CodecID, Get(v, <<"Dec", "CodecID">>))
                              /\ Same(c.MaxcodecLevel, Get(v, <<"Dec", "MaxcodecLevel">>))
                              /\ Same(q.Profile, Get(v, <<"Dec", "Profile">>))
                              /\ Same(m.MemHandleType, Get(v, <<"Dec", "MemHandleType">>))
                              /\ Same(f, Get(v, <<"Dec", "ColorFormat">>))
                              /\ Within(m.Width, Get(v, <<"Dec", "Width">>))
                              /\ Within(m.Height, Get(v, <<"Dec", "Height">>))
<1>1. ASSUME NEW c, NEW q, NEW m, NEW f
      PROVE  FitsFlat(v, "Dec", Rec(c, q, m, f)) <=> Has(c, q, m, f)
    BY DEF FitsFlat
<1>2. ASSUME NEW x
      PROVE  x \in FlatDec(d) <=> \E c \in d.Dec : \E q \in c.Profiles : \E m \in q.MemDesc :
                                      \E f \in m.ColorFormats : x = Rec(c, q, m, f)
    BY DEF FlatDec
<1>3. OneDecoderHas(d, v) <=> \E c \in d.Dec : \E q \in c.Profiles : \E m \in q.MemDesc :
                                  \E f \in m.ColorFormats : Has(c, q, m, f)
    BY DEF OneDecoderHas
<1> HIDE DEF Rec, Has
<1> QED
    BY <1>1, <1>2, <1>3 DEF CheckPropsDec

\* An object that asks nothing of a group has its test passed by any entry.
LEMMA Unasked ==
    ASSUME NEW v, NEW g \in {"Dec", "Enc", "VPP", "ExtDev", "Surface"}, g \notin Asked(v)
    PROVE  /\ \A f : Get(v, <<g, f>>) = Unset
           /\ \A x : FitsFlat(v, g, x)
           /\ g = "ExtDev" => \A x : CheckPropsExtDevID(v, x)
<1>1. ASSUME NEW f
      PROVE  Get(v, <<g, f>>) = Unset
    BY DEF Asked, Get
<1>2. ASSUME NEW x
      PROVE  FitsFlat(v, g, x)
    BY <1>1 DEF FitsFlat, Same, Within, Includes
<1>3. ASSUME g = "ExtDev", NEW x
      PROVE  CheckPropsExtDevID(v, x)
    BY <1>1, <1>3 DEF CheckPropsExtDevID, Same
<1> QED
    BY <1>1, <1>2, <1>3

\* Testing again what only earlier objects asked for changes nothing.
LEMMA TestedAgain ==
    ASSUME NEW d, NEW v, NEW before, \A g \in before : \E u : g \in Asked(u) /\ Meets(d, u)
    PROVE  Tests(d, before \cup Asked(v), v) <=> Meets(d, v)
<1>1. \A u : /\ CheckPropsDec(u, d) <=> \E x \in FlatDec(d) : FitsFlat(u, "Dec", x)
             /\ CheckPropsEnc(u, d) <=> \E x \in FlatEnc(d) : FitsFlat(u, "Enc", x)
             /\ CheckPropsVPP(u, d) <=> \E x \in FlatVPP(d) : FitsFlat(u, "VPP", x)
             /\ CheckPropsSurface(u, d) <=> \E x \in FlatSurface(d) : FitsFlat(u, "Surface", x)
    BY DEF CheckPropsDec, CheckPropsEnc, CheckPropsVPP, CheckPropsSurface
<1>2. \A u : CheckPropsSurface(u, d) => d.surf # None
    BY <1>1 DEF FlatSurface
<1>3. \A u : OneDecoderHas(d, u) <=> CheckPropsDec(u, d)
    BY DecIsOneDecoder
<1>4. ASSUME d.type # "msdk", "Dec" \in before, "Dec" \notin Asked(v)
      PROVE  CheckPropsDec(v, d)
    <2>1. PICK u : "Dec" \in Asked(u) /\ Meets(d, u)
        BY <1>4
    <2>2. CheckPropsDec(u, d)
        BY <1>3, <1>4, <2>1 DEF Meets
    <2> QED
        BY <1>1, <1>4, <2>2, Unasked
<1>5. ASSUME d.type # "msdk", "Enc" \in before, "Enc" \notin Asked(v)
      PROVE  CheckPropsEnc(v, d)
    <2>1. PICK u : "Enc" \in Asked(u) /\ Meets(d, u)
        BY <1>5
    <2>2. CheckPropsEnc(u, d)
        BY <1>5, <2>1 DEF Meets
    <2> QED
        BY <1>1, <1>5, <2>2, Unasked
<1>6. ASSUME d.type # "msdk", "VPP" \in before, "VPP" \notin Asked(v)
      PROVE  CheckPropsVPP(v, d)
    <2>1. PICK u : "VPP" \in Asked(u) /\ Meets(d, u)
        BY <1>6
    <2>2. CheckPropsVPP(u, d)
        BY <1>6, <2>1 DEF Meets
    <2> QED
        BY <1>1, <1>6, <2>2, Unasked
<1>7. ASSUME "Surface" \in before, "Surface" \notin Asked(v)
      PROVE  CheckPropsSurface(v, d)
    <2>1. PICK u : "Surface" \in Asked(u) /\ Meets(d, u)
        BY <1>7
    <2>2. CheckPropsSurface(u, d)
        BY <2>1 DEF Meets
    <2> QED
        BY <1>1, <1>7, <2>2, Unasked
<1>8. ASSUME "ExtDev" \in before, "ExtDev" \notin Asked(v)
      PROVE  d.ext # None /\ CheckPropsExtDevID(v, d.ext)
    <2>1. PICK u : "ExtDev" \in Asked(u) /\ Meets(d, u)
        BY <1>8
    <2>2. d.ext # None
        BY <2>1 DEF Meets
    <2> QED
        BY <1>8, <2>2, Unasked
<1> QED
    BY <1>2, <1>3, <1>4, <1>5, <1>6, <1>7, <1>8 DEF Tests, Meets

-----------------------------------------------------------------------------
(* The whole validation                                                    *)

\* The last of the first k objects that says what half f of the version is.
HalfSetters(cs, k, f) == {j \in 1..k : Half(cs[j].val, f) # Unset}
LastHalf(cs, k, f, j) == j \in HalfSetters(cs, k, f) /\ \A i \in HalfSetters(cs, k, f) : i <= j

\* What is found after k objects.
FoundAfter(d, cs, k, r, sp) ==
    /\ DOMAIN r = Found /\ r.version \in Nat
    /\ r.special = sp
    /\ r.ok <=> \A j \in 1..k : Meets(d, cs[j].val)
    /\ \A g \in r.asked : \E j \in 1..k : g \in Asked(cs[j].val)
    /\ r.funcs = {cs[j].val[FunctionName] : j \in Setters(cs, k, FunctionName)}
    /\ r.major <=> HalfSetters(cs, k, "Major") # {}
    /\ r.minor <=> HalfSetters(cs, k, "Minor") # {}
    /\ \A j : LastHalf(cs, k, "Major", j) => r.version \div Minors = Half(cs[j].val, "Major")
    /\ \A j : LastHalf(cs, k, "Minor", j) => r.version % Minors = Half(cs[j].val, "Minor")

LEMMA TurnsFind ==
    ASSUME NEW d, NEW cs, Objects(cs), NEW sp, DOMAIN sp = Fields, IsFcn(sp)
    PROVE  LET e == [sp EXCEPT !.ExtBuffers = <<>>]
           IN  \A k \in 0..Len(cs) : FoundAfter(d, cs, k, Turns(d, cs, Start(sp))[k], Collected(cs, e)[k])
<1> DEFINE n == Len(cs)
           e == [sp EXCEPT !.ExtBuffers = <<>>]
           R == Turns(d, cs, Start(sp))
           C == Collected(cs, e)
           S == {k \in 0..n : FoundAfter(d, cs, k, R[k], C[k])}
<1>1. n \in Nat
    BY DEF Objects
<1>2. 0 \in S
    <2>1. R[0] = Start(sp) /\ C[0] = e
        BY <1>1, TurnsTurn, CollectedTurn
    <2>2. /\ \A p : Setters(cs, 0, p) = {}
          /\ \A f : HalfSetters(cs, 0, f) = {}
        BY DEF Setters, HalfSetters
    <2> HIDE DEF e
    <2>3. FoundAfter(d, cs, 0, Start(sp), e)
        BY <2>2 DEF FoundAfter, Start, Found, LastHalf, e
    <2> QED
        BY <1>1, <2>1, <2>3
<1>3. ASSUME NEW k \in 0 .. n - 1, k \in S
      PROVE  k + 1 \in S
    <2> DEFINE r == R[k]
               t == R[k + 1]
               v == cs[k + 1].val
               fn == Get(v, FunctionName)
    <2>1. k + 1 \in 1..n /\ k + 1 - 1 = k /\ k \in Nat /\ 1 .. k + 1 = (1..k) \cup {k + 1}
        BY <1>1
    <2>2. t = TakeConfig(d, r, cs[k + 1]) /\ C[k + 1] = TakeSpecial(C[k], v)
        BY <1>1, <2>1, TurnsTurn, CollectedTurn
    <2>3. FoundAfter(d, cs, k, r, C[k])
        BY <1>3
    <2> HIDE DEF R, C, r, t
    <2>4. DOMAIN r = Found /\ r.version \in Nat
        BY <2>3 DEF FoundAfter
    <2>5. /\ DOMAIN t = Found
          /\ t.ok = (r.ok /\ Tests(d, r.asked \cup Asked(v), v))
          /\ t.asked = r.asked \cup Asked(v)
          /\ t.funcs = IF fn = Unset THEN r.funcs ELSE r.funcs \cup {fn}
          /\ t.special = TakeSpecial(r.special, v)
          /\ t.version = TakeVersion(r, v).version /\ t.major = TakeVersion(r, v).major
          /\ t.minor = TakeVersion(r, v).minor
        <3>1. TurnGives(d, r, cs[k + 1], t)
            BY <2>2, <2>4, OneTurn
        <3> QED
            BY <3>1 DEF TurnGives
    <2>6. /\ t.version \in Nat
          /\ t.version \div Minors = IF Half(v, "Major") = Unset THEN r.version \div Minors ELSE Half(v, "Major")
          /\ t.version % Minors = IF Half(v, "Minor") = Unset THEN r.version % Minors ELSE Half(v, "Minor")
          /\ t.major = (r.major \/ Half(v, "Major") # Unset) /\ t.minor = (r.minor \/ Half(v, "Minor") # Unset)
        BY <2>1, <2>4, <2>5, VersionTurn
    <2>7. /\ fn = Unset <=> FunctionName \notin DOMAIN v
          /\ FunctionName \in DOMAIN v => fn = v[FunctionName]
        BY <2>1, ObjectsAre DEF Get
    <2> HIDE DEF v, fn
    <2>8. t.special = C[k + 1]
        BY <2>2, <2>3, <2>5 DEF FoundAfter
    <2>9. t.ok <=> \A j \in 1 .. k + 1 : Meets(d, cs[j].val)
        <3>1. CASE r.ok
            <4>1. \A g \in r.asked : \E u : g \in Asked(u) /\ Meets(d, u)
                BY <2>3, <3>1 DEF FoundAfter
            <4>2. Tests(d, r.asked \cup Asked(v), v) <=> Meets(d, v)
                BY <4>1, TestedAgain
            <4> QED
                BY <2>1, <2>3, <2>5, <3>1, <4>2 DEF FoundAfter, v
        <3>2. CASE ~r.ok
            BY <2>1, <2>3, <2>5, <3>2 DEF FoundAfter
        <3> QED
            BY <3>1, <3>2
    <2>10. \A g \in t.asked : \E j \in 1 .. k + 1 : g \in Asked(cs[j].val)
        BY <2>1, <2>3, <2>5 DEF FoundAfter, v
    <2>11. t.funcs = {cs[j].val[FunctionName] : j \in Setters(cs, k + 1, FunctionName)}
        <3>1. Setters(cs, k + 1, FunctionName) =
                  IF FunctionName \in DOMAIN v THEN Setters(cs, k, FunctionName) \cup {k + 1}
                  ELSE Setters(cs, k, FunctionName)
            BY <2>1 DEF Setters, v
        <3>2. r.funcs = {cs[j].val[FunctionName] : j \in Setters(cs, k, FunctionName)}
            BY <2>3 DEF FoundAfter
        <3>3. CASE FunctionName \in DOMAIN v
            <4>1. t.funcs = r.funcs \cup {cs[k + 1].val[FunctionName]}
                BY <2>5, <2>7, <3>3 DEF v
            <4> QED
                BY <3>1, <3>2, <3>3, <4>1
        <3>4. CASE FunctionName \notin DOMAIN v
            BY <2>5, <2>7, <3>1, <3>2, <3>4
        <3> QED
            BY <3>3, <3>4
    <2>12. \A f : HalfSetters(cs, k + 1, f) = IF Half(v, f) = Unset THEN HalfSetters(cs, k, f)
                                              ELSE HalfSetters(cs, k, f) \cup {k + 1}
        BY <2>1 DEF HalfSetters, v
    <2>13. /\ t.major <=> HalfSetters(cs, k + 1, "Major") # {}
           /\ t.minor <=> HalfSetters(cs, k + 1, "Minor") # {}
        BY <2>3, <2>6, <2>12 DEF FoundAfter
    <2>14. ASSUME NEW f, NEW j, LastHalf(cs, k + 1, f, j)
           PROVE  IF Half(v, f) = Unset THEN LastHalf(cs, k, f, j) ELSE j = k + 1
        <3>1. CASE Half(v, f) = Unset
            BY <2>12, <2>14, <3>1 DEF LastHalf
        <3>2. CASE Half(v, f) # Unset
            <4>1. k + 1 <= j /\ j \in 1 .. k + 1
                BY <2>12, <2>14, <3>2 DEF LastHalf, HalfSetters
            <4> QED
                BY <2>1, <3>2, <4>1
        <3> QED
            BY <3>1, <3>2
    <2>15. \A j : LastHalf(cs, k + 1, "Major", j) => t.version \div Minors = Half(cs[j].val, "Major")
        BY <2>3, <2>6, <2>14 DEF FoundAfter, v
    <2>16. \A j : LastHalf(cs, k + 1, "Minor", j) => t.version % Minors = Half(cs[j].val, "Minor")
        BY <2>3, <2>6, <2>14 DEF FoundAfter, v
    <2>17. FoundAfter(d, cs, k + 1, t, C[k + 1])
        BY <2>5, <2>6, <2>8, <2>9, <2>10, <2>11, <2>13, <2>15, <2>16 DEF FoundAfter
    <2> QED
        BY <2>1, <2>17 DEF t
<1>4. n \in Nat /\ 0 \in S /\ \A k \in 0 .. n - 1 : k \in S => k + 1 \in S
    <2> HIDE DEF S
    <2> QED
        BY <1>1, <1>2, <1>3
<1>5. \A k \in 0..n : k \in S
    <2> HIDE DEF S, n
    <2> QED
        BY ONLY <1>4, Counting
<1> QED
    BY <1>5

\* The half of the version that is required is what the last object says of it.
LEMMA HalfSetIs ==
    ASSUME NEW cs, Len(cs) \in Nat, DOMAIN cs = 1..Len(cs), NEW f
    PROVE  \/ HalfSetters(cs, Len(cs), f) = {} /\ HalfSet(cs, f) = Unset
           \/ \E j : /\ LastHalf(cs, Len(cs), f, j) /\ HalfSet(cs, f) = Half(cs[j].val, f)
                     /\ HalfSet(cs, f) # Unset
<1> DEFINE n == Len(cs)
           S == {k \in 0..n : HalfSetters(cs, k, f) = {} \/ \E j : LastHalf(cs, k, f, j)}
           setters == {k \in DOMAIN cs : Half(cs[k].val, f) # Unset}
<1>1. 0 \in S
    BY DEF HalfSetters
<1>2. ASSUME NEW k \in 0 .. n - 1, k \in S
      PROVE  k + 1 \in S
    <2>1. HalfSetters(cs, k + 1, f) = IF Half(cs[k + 1].val, f) # Unset THEN HalfSetters(cs, k, f) \cup {k + 1}
                                      ELSE HalfSetters(cs, k, f)
        BY DEF HalfSetters
    <2>2. CASE Half(cs[k + 1].val, f) # Unset
        <3>1. LastHalf(cs, k + 1, f, k + 1)
            BY <2>1, <2>2 DEF LastHalf, HalfSetters
        <3> QED
            BY <3>1
    <2>3. CASE Half(cs[k + 1].val, f) = Unset
        BY <1>2, <2>1, <2>3 DEF LastHalf
    <2> QED
        BY <2>2, <2>3
<1>3. n \in Nat /\ 0 \in S /\ \A k \in 0 .. n - 1 : k \in S => k + 1 \in S
    <2> HIDE DEF S
    <2> QED
        BY <1>1, <1>2
<1>4. \A k \in 0..n : k \in S
    <2> HIDE DEF S, n
    <2> QED
        BY ONLY <1>3, Counting
<1>5. HalfSetters(cs, n, f) = {} \/ \E j : LastHalf(cs, n, f, j)
    BY <1>3, <1>4
<1>6. setters = HalfSetters(cs, n, f)
    BY DEF HalfSetters
<1>7. HalfSet(cs, f) = IF setters = {} THEN Unset
                       ELSE Half(cs[CHOOSE k \in setters : \A j \in setters : j <= k].val, f)
    BY DEF HalfSet
<1>8. \A j \in setters : j \in Nat /\ Half(cs[j].val, f) # Unset
    OBVIOUS
<1> HIDE DEF setters
<1>9. ASSUME NEW j, LastHalf(cs, n, f, j)
      PROVE  HalfSet(cs, f) = Half(cs[j].val, f) /\ HalfSet(cs, f) # Unset
    <2> DEFINE c == CHOOSE k \in setters : \A i \in setters : i <= k
    <2>1. j \in setters /\ \A i \in setters : i <= j
        BY <1>6, <1>9 DEF LastHalf
    <2>2. c \in setters /\ \A i \in setters : i <= c
        BY <2>1
    <2>3. c = j
        <3> HIDE DEF c
        <3> QED
            BY <1>8, <2>1, <2>2
    <2> QED
        BY <1>7, <1>8, <2>1, <2>3
<1> QED
    BY <1>5, <1>6, <1>7, <1>9

\* The loop answers what the objects require one by one, and hands on the
\* special properties that low latency mode collects, but for the version.
LEMMA Validated ==
    ASSUME NEW d, d.ApiVersion \in Nat, NEW cs, Objects(cs), NEW sp, DOMAIN sp = Fields, IsFcn(sp)
    PROVE  LET t == Collected(cs, [sp EXCEPT !.ExtBuffers = <<>>])[Len(cs)]
           IN  /\ ValidateConfig(d, cs, sp).ok <=> Required(d, cs)
               /\ \/ ValidateConfig(d, cs, sp).special = t
                  \/ /\ RequiredMajor(cs) # Unset /\ RequiredMinor(cs) # Unset
                     /\ ValidateConfig(d, cs, sp).special =
                          [t EXCEPT !.ApiVersion = Minors * RequiredMajor(cs) + RequiredMinor(cs)]
<1> DEFINE n == Len(cs)
           t == Collected(cs, [sp EXCEPT !.ExtBuffers = <<>>])[n]
           r == Turns(d, cs, Start(sp))[n]
           RM == RequiredMajor(cs)
           Rm == RequiredMinor(cs)
           versioned == r.major /\ r.minor
<1>1. n \in Nat /\ n \in 0..n /\ DOMAIN cs = 1..n
    BY DEF Objects
<1>2. FoundAfter(d, cs, n, r, t)
    BY <1>1, TurnsFind
<1>3. ValidateConfig(d, cs, sp) =
        [ok |-> /\ r.ok
                /\ versioned => d.ApiVersion >= r.version
                /\ r.funcs # {} => d.funcs # None /\ r.funcs \subseteq d.funcs,
         special |-> IF versioned THEN [r.special EXCEPT !.ApiVersion = r.version] ELSE r.special]
    BY DEF ValidateConfig, Start
<1> HIDE DEF r, t, n
<1>4. \A k \in 1..n : \A p : Get(cs[k].val, p) = Unset <=> p \notin DOMAIN cs[k].val
    BY ObjectsAre DEF n
<1>5. /\ HalfSetters(cs, n, "Major") # {} <=> RM # Unset
      /\ HalfSetters(cs, n, "Minor") # {} <=> Rm # Unset
    BY <1>1, HalfSetIs DEF n, RequiredMajor, RequiredMinor, LastHalf
<1>6. versioned <=> RM # Unset /\ Rm # Unset
    BY <1>2, <1>5 DEF FoundAfter
<1>7. ASSUME versioned
      PROVE  r.version = Minors * RM + Rm
    <2>1. PICK j : LastHalf(cs, n, "Major", j) /\ RM = Half(cs[j].val, "Major")
        BY <1>1, <1>6, <1>7, HalfSetIs DEF n, RequiredMajor
    <2>2. PICK i : LastHalf(cs, n, "Minor", i) /\ Rm = Half(cs[i].val, "Minor")
        BY <1>1, <1>6, <1>7, HalfSetIs DEF n, RequiredMinor
    <2>3. r.version \div Minors = RM /\ r.version % Minors = Rm /\ r.version \in Nat
        BY <1>2, <2>1, <2>2 DEF FoundAfter
    <2> QED
        BY <2>3, Parts
<1>8. (r.funcs # {} => d.funcs # None /\ r.funcs \subseteq d.funcs) <=>
          \A k \in 1..n : Get(cs[k].val, FunctionName) # Unset =>
              d.funcs # None /\ Get(cs[k].val, FunctionName) \in d.funcs
    <2>1. r.funcs = {cs[j].val[FunctionName] : j \in Setters(cs, n, FunctionName)}
        BY <1>2 DEF FoundAfter
    <2>2. \A j : j \in Setters(cs, n, FunctionName) <=> j \in 1..n /\ Get(cs[j].val, FunctionName) # Unset
        BY <1>4 DEF Setters
    <2>3. \A j \in Setters(cs, n, FunctionName) : cs[j].val[FunctionName] = Get(cs[j].val, FunctionName)
        BY DEF Setters, Get
    <2>4. r.funcs = {Get(cs[j].val, FunctionName) : j \in Setters(cs, n, FunctionName)}
        BY <2>1, <2>3
    <2> QED
        BY <2>2, <2>4
<1>9. r.ok <=> \A k \in 1..n : Meets(d, cs[k].val)
    BY <1>2 DEF FoundAfter
<1>10. Required(d, cs) <=>
         /\ \A k \in 1..n : Meets(d, cs[k].val)
         /\ \A k \in 1..n : Get(cs[k].val, FunctionName) # Unset =>
              d.funcs # None /\ Get(cs[k].val, FunctionName) \in d.funcs
         /\ RM # Unset /\ Rm # Unset => d.ApiVersion >= Minors * RM + Rm
    BY <1>1 DEF Required, Meets, FunctionName
<1>11. ValidateConfig(d, cs, sp).ok <=> Required(d, cs)
    <2> HIDE DEF RM, Rm, versioned
    <2>1. ValidateConfig(d, cs, sp).ok <=>
                /\ r.ok
                /\ versioned => d.ApiVersion >= r.version
                /\ r.funcs # {} => d.funcs # None /\ r.funcs \subseteq d.funcs
        BY <1>3
    <2> QED
        BY <1>6, <1>7, <1>8, <1>9, <1>10, <2>1
<1>12. \/ ValidateConfig(d, cs, sp).special = t
       \/ /\ RM # Unset /\ Rm # Unset
          /\ ValidateConfig(d, cs, sp).special = [t EXCEPT !.ApiVersion = Minors * RM + Rm]
    <2>1. r.special = t
        BY <1>2 DEF FoundAfter
    <2>2. ValidateConfig(d, cs, sp).special =
              IF versioned THEN [r.special EXCEPT !.ApiVersion = r.version] ELSE r.special
        BY <1>3
    <2> HIDE DEF versioned, RM, Rm
    <2>3. CASE versioned
        BY <1>6, <1>7, <2>1, <2>2, <2>3
    <2>4. CASE ~versioned
        BY <2>1, <2>2, <2>4
    <2> QED
        BY <2>3, <2>4
<1> QED
    BY <1>11, <1>12 DEF t, n

-----------------------------------------------------------------------------
(* The calls                                                               *)

SettledInv == ret = "NONE" => Settled(configs, special)

IInv == TypeOK /\ ObjectsInv /\ SettledInv

\* The version is not among what both modes must agree on.
LEMMA VersionApart ==
    ASSUME NEW cs, NEW s, Settled(cs, s), NEW x
    PROVE  Settled(cs, [s EXCEPT !.ApiVersion = x])
<1> DEFINE t == [s EXCEPT !.ApiVersion = x]
<1>1. DOMAIN t = Fields /\ IsFcn(t) /\ t.ExtBuffers = s.ExtBuffers /\ \A f \in Passed : t[f] = s[f]
    BY SpecialFieldsAre DEF Settled, IsFcn, Fields
<1> HIDE DEF t
<1>2. Settled(cs, t)
    BY <1>1 DEF Settled
<1> QED
    BY <1>2 DEF t

LEMMA InitIInv == Init => IInv
<1> SUFFICES ASSUME Init
             PROVE  IInv
    OBVIOUS
<1>1. configs = <<>> /\ special = SpecialUnset /\ Len(configs) = 0
    BY DEF Init
<1>2. Objects(configs)
    BY <1>1 DEF Objects
<1>3. TypeOK
    <2>1. DOMAIN configs = {} /\ 0 \in 0..MaxCalls
        BY <1>1, ConfigFilterAssumption
    <2> QED
        BY <1>1, <2>1 DEF Init, TypeOK
<1>4. ObjectsInv
    BY <1>1, <1>2, SpecialFieldsAre, ConfigFilterAssumption DEF ObjectsInv
<1>5. Collected(<<>>, SpecialUnset)[0] = SpecialUnset
    BY CollectedTurn
<1>6. Settled(configs, special)
    BY <1>1, <1>5, SpecialFieldsAre DEF Settled, LastSetter, Setters
<1> QED
    BY <1>3, <1>4, <1>6 DEF IInv, SettledInv

\* What the invariant says of the objects, for the calls.
LEMMA Now ==
    ASSUME IInv
    PROVE  /\ Objects(configs) /\ Len(configs) \in Nat /\ DOMAIN configs = 1..Len(configs)
           /\ DOMAIN special = Fields /\ IsFcn(special)
    BY SpecialFieldsAre DEF IInv, TypeOK, ObjectsInv, Objects

LEMMA TypeOfObjects ==
    ASSUME NEW cs, Objects(cs)
    PROVE  \A k \in DOMAIN cs :
             /\ DOMAIN cs[k].val \subseteq Property
             /\ cs[k].query \subseteq Property
             /\ cs[k].gen \in Nat /\ cs[k].size \in Nat
<1> SUFFICES ASSUME NEW k \in 1..Len(cs)
             PROVE  /\ DOMAIN cs[k].val \subseteq Property
                    /\ cs[k].query \subseteq Property
                    /\ cs[k].gen \in Nat /\ cs[k].size \in Nat
    BY DEF Objects
<1>1. cs[k] \in Object /\ DOMAIN cs[k].val \subseteq Property
    BY ObjectsAre
<1> QED
    BY <1>1 DEF Object

LEMMA CreateKeeps ==
    ASSUME IInv, MFXCreateConfig
    PROVE  IInv'
<1> DEFINE more == Append(configs, NewConfig)
           n == Len(configs)
<1>1. Objects(configs) /\ n \in Nat /\ DOMAIN configs = 1..n /\ DOMAIN special = Fields /\ IsFcn(special)
    BY Now
<1>2. configs' = more /\ n < MaxConfig
      /\ UNCHANGED <<special, lowLatency, queryProps, valid, needUpdate, ret, calls>>
    BY DEF MFXCreateConfig
<1>3. /\ Objects(more) /\ Len(more) = n + 1 /\ \A k \in 1..n : more[k] = configs[k]
      /\ \A p : Setters(more, n + 1, p) = Setters(configs, n, p)
    BY <1>1, Appended
<1> HIDE DEF more
<1>4. TypeOK'
    <2>1. \A k \in DOMAIN more :
             /\ DOMAIN more[k].val \subseteq Property
             /\ more[k].query \subseteq Property
             /\ more[k].gen \in Nat /\ more[k].size \in Nat
        BY <1>3, TypeOfObjects
    <2> QED
        BY <1>2, <2>1 DEF IInv, TypeOK
<1>5. ObjectsInv'
    BY <1>1, <1>2, <1>3, ConfigFilterAssumption DEF ObjectsInv
<1>6. ASSUME Settled(configs, special)
      PROVE  Settled(more, special)
    <2>1. special.ExtBuffers = Collected(more, SpecialUnset)[n + 1].ExtBuffers
        BY <1>1, <1>6, AppendedBuffers, SpecialFieldsAre DEF Settled, more
    <2>2. ASSUME NEW f \in Passed, NEW j, LastSetter(more, n + 1, Source(f), j)
          PROVE  special[f] = more[j].val[Source(f)]
        <3>1. LastSetter(configs, n, Source(f), j)
            BY <1>3, <2>2 DEF LastSetter
        <3>2. j \in 1..n
            BY <3>1 DEF LastSetter, Setters
        <3> QED
            BY <1>3, <1>6, <3>1, <3>2 DEF Settled
    <2> QED
        BY <1>1, <1>3, <2>1, <2>2 DEF Settled
<1> QED
    BY <1>2, <1>4, <1>5, <1>6 DEF IInv, SettledInv

\* What low latency mode makes of the objects.
LEMMA LowLatencySettles ==
    ASSUME NEW cs, Objects(cs), NEW sp, DOMAIN sp = Fields, IsFcn(sp)
    PROVE  /\ Settled(cs, CheckLowLatencyConfig(cs, sp).special)
           /\ CheckLowLatencyConfig(cs, sp).lowLatency \in BOOLEAN
<1> DEFINE t == Collected(cs, [sp EXCEPT !.ExtBuffers = <<>>])[Len(cs)]
           version == LastSet(cs, <<"Main", "ApiVersion">>)
<1>1. Settled(cs, t)
    BY CollectedSettled
<1>2. /\ CheckLowLatencyConfig(cs, sp).special = IF version = Unset THEN t ELSE [t EXCEPT !.ApiVersion = version]
      /\ CheckLowLatencyConfig(cs, sp).lowLatency \in BOOLEAN
    BY DEF CheckLowLatencyConfig
<1> HIDE DEF t, version
<1>3. Settled(cs, [t EXCEPT !.ApiVersion = version])
    BY <1>1, VersionApart
<1> QED
    BY <1>1, <1>2, <1>3

LEMMA SetKeeps ==
    ASSUME IInv, NEW k \in 1..MaxConfig, NEW c \in Call[k], MFXSetConfigFilterProperty(k, c)
    PROVE  IInv'
<1> DEFINE r == SetFilterProperty(configs[k], k, c)
           l == CheckLowLatencyConfig(configs', special)
<1>1. /\ Objects(configs) /\ Len(configs) \in Nat /\ DOMAIN configs = 1..Len(configs)
      /\ DOMAIN special = Fields /\ IsFcn(special)
    BY Now
<1>2. /\ k \in DOMAIN configs /\ calls < MaxCalls /\ calls' = calls + 1
      /\ ret' = r.sts /\ configs' = [configs EXCEPT ![k] = r.cfg]
      /\ valid' = valid
    BY DEF MFXSetConfigFilterProperty
<1>3. configs[k] \in Object /\ Filled(k, configs[k])
    BY <1>1, <1>2, ObjectsAre
<1>4. r.cfg \in Object /\ Filled(k, r.cfg) /\ r.sts \in {"NONE", "NOT_FOUND", "UNSUPPORTED", "NULL_PTR"}
    BY <1>3, SetKeepsObject
<1> HIDE DEF r
<1>5. Objects(configs') /\ Len(configs') = Len(configs)
    BY <1>1, <1>2, <1>4 DEF Objects
<1>6. Settled(configs', l.special) /\ l.lowLatency \in BOOLEAN
    BY <1>1, <1>5, LowLatencySettles
<1>7. IF ret' = "NONE"
      THEN needUpdate' = TRUE /\ lowLatency' = l.lowLatency /\ special' = l.special
           /\ queryProps' = UpdatePropsQueryConfig(configs')
      ELSE UNCHANGED <<needUpdate, lowLatency, special, queryProps>>
    BY DEF MFXSetConfigFilterProperty
<1> HIDE DEF l
<1>8. \A q \in UpdatePropsQueryConfig(configs') : q[1] \in Queryable /\ q[2] # Unset
    <2> SUFFICES ASSUME NEW q \in UpdatePropsQueryConfig(configs')
                 PROVE  q[1] \in Queryable /\ q[2] # Unset
        OBVIOUS
    <2>1. PICK j \in DOMAIN configs' : \E p \in configs'[j].query \cap Queryable \cap DOMAIN configs'[j].val :
                                           q = <<p, configs'[j].val[p]>>
        BY DEF UpdatePropsQueryConfig
    <2>2. Filled(j, configs'[j])
        BY <1>5, <2>1, ObjectsAre DEF Objects
    <2> QED
        BY <2>1, <2>2 DEF Filled
<1>9. IsFcn(special') /\ DOMAIN special' = Fields
    BY <1>1, <1>6, <1>7 DEF Settled
<1>10. TypeOK'
    <2>1. \A j \in DOMAIN configs' :
             /\ DOMAIN configs'[j].val \subseteq Property
             /\ configs'[j].query \subseteq Property
             /\ configs'[j].gen \in Nat /\ configs'[j].size \in Nat
        BY <1>5, TypeOfObjects
    <2>2. calls' \in 0..MaxCalls /\ valid' \subseteq Impl /\ ret' \in {"NONE", "NOT_FOUND", "UNSUPPORTED", "NULL_PTR"}
        BY <1>2, <1>4, ConfigFilterAssumption DEF IInv, TypeOK
    <2>3. lowLatency' \in BOOLEAN /\ needUpdate' \in BOOLEAN
          /\ \A q \in queryProps' : q[1] \in Queryable /\ q[2] # Unset
        BY <1>6, <1>7, <1>8 DEF IInv, TypeOK
    <2> QED
        BY <1>9, <2>1, <2>2, <2>3, SpecialFieldsAre DEF TypeOK
<1>11. ObjectsInv'
    BY <1>5, <1>9 DEF IInv, ObjectsInv
<1>12. SettledInv'
    BY <1>6, <1>7 DEF SettledInv
<1> QED
    BY <1>10, <1>11, <1>12 DEF IInv

\* Validating leaves the special properties as they are when the last call did
\* not fail, the version excepted.
LEMMA UpdateSettles ==
    ASSUME IInv, UpdateValidImplList
    PROVE  /\ DOMAIN special' = Fields /\ IsFcn(special')
           /\ ret = "NONE" => /\ Settled(configs, special')
                              /\ special' = [special EXCEPT !.ApiVersion = special'.ApiVersion]
<1> DEFINE t == Collected(configs, [special EXCEPT !.ExtBuffers = <<>>])[Len(configs)]
<1>1. Objects(configs) /\ DOMAIN special = Fields /\ IsFcn(special)
    BY Now
<1>2. Settled(configs, t) /\ (Settled(configs, special) => t = special)
    BY <1>1, CollectedSettled
<1>3. special' = special \/ \E d \in valid : special' = ValidateConfig(d, configs, special).special
    <2>1. special' = IF valid = {} THEN special
                     ELSE ValidateConfig(CHOOSE d \in valid : TRUE, configs, special).special
        BY DEF UpdateValidImplList
    <2> QED
        BY <2>1
<1>4. \A d \in valid : d.ApiVersion \in Nat
    BY ConfigFilterAssumption DEF IInv, TypeOK
<1>5. special' = special \/ special' = t \/ \E x : special' = [t EXCEPT !.ApiVersion = x]
    <2>1. ASSUME NEW d \in valid
          PROVE  \/ ValidateConfig(d, configs, special).special = t
                 \/ \E x : ValidateConfig(d, configs, special).special = [t EXCEPT !.ApiVersion = x]
        <3> DEFINE x == Minors * RequiredMajor(configs) + RequiredMinor(configs)
        <3>1. \/ ValidateConfig(d, configs, special).special = t
              \/ ValidateConfig(d, configs, special).special = [t EXCEPT !.ApiVersion = x]
            BY <1>1, <1>4, Validated
        <3> HIDE DEF t, x
        <3> QED
            BY <3>1
    <2> HIDE DEF t
    <2> QED
        BY <1>3, <2>1
<1> HIDE DEF t
<1>6. \A x : Settled(configs, [t EXCEPT !.ApiVersion = x])
    BY <1>2, VersionApart
<1>7. DOMAIN special' = Fields /\ IsFcn(special')
    <2>1. \A s : Settled(configs, s) => DOMAIN s = Fields /\ IsFcn(s)
        BY DEF Settled
    <2> QED
        BY <1>1, <1>2, <1>5, <1>6, <2>1
<1>8. ASSUME ret = "NONE"
      PROVE  /\ Settled(configs, special')
             /\ special' = [special EXCEPT !.ApiVersion = special'.ApiVersion]
    <2>1. t = special /\ Settled(configs, special)
        BY <1>2, <1>8 DEF IInv, SettledInv
    <2>2. special' = special \/ \E x : special' = [special EXCEPT !.ApiVersion = x]
        BY <1>5, <2>1
    <2>3. special = [f \in Fields |-> special[f]] /\ "ApiVersion" \in Fields
        BY <1>1 DEF IsFcn, Fields
    <2>4. special' = [special EXCEPT !.ApiVersion = special'.ApiVersion]
        BY <1>1, <2>2, <2>3
    <2> QED
        BY <1>6, <2>1, <2>2, <2>4
<1> QED
    BY <1>7, <1>8

LEMMA UpdateKeeps ==
    ASSUME IInv, UpdateValidImplList
    PROVE  IInv'
<1>1. /\ DOMAIN special' = Fields /\ IsFcn(special')
      /\ ret = "NONE" => Settled(configs, special')
    BY UpdateSettles
<1>2. valid' \subseteq valid /\ needUpdate' = FALSE /\ UNCHANGED <<configs, lowLatency, queryProps, ret, calls>>
    BY DEF UpdateValidImplList
<1> QED
    BY <1>1, <1>2, SpecialFieldsAre DEF IInv, TypeOK, ObjectsInv, SettledInv

LEMMA NextIInv == IInv /\ [Next]_vars => IInv'
<1> SUFFICES ASSUME IInv, [Next]_vars
             PROVE  IInv'
    OBVIOUS
<1>1. CASE MFXCreateConfig
    BY <1>1, CreateKeeps
<1>2. CASE \E k \in 1..MaxConfig : \E c \in Call[k] : MFXSetConfigFilterProperty(k, c)
    BY <1>2, SetKeeps
<1>3. CASE UpdateValidImplList
    BY <1>3, UpdateKeeps
<1>4. CASE UNCHANGED vars
    BY <1>4 DEF vars, IInv, TypeOK, ObjectsInv, SettledInv
<1> QED
    BY <1>1, <1>2, <1>3, <1>4 DEF Next

THEOREM InvariantHolds == Spec => []IInv
    BY InitIInv, NextIInv, PTL DEF Spec

-----------------------------------------------------------------------------
(* Low latency mode                                                        *)

\* The mode is on for these objects.
Entered(cs) ==
    /\ LastSet(cs, <<"Main", "Impl">>) = "HW"
    /\ LastSet(cs, <<"Main", "ImplName">>) = "mfx-gen"
    /\ LastSet(cs, <<"Main", "VendorID">>) = "Intel"
    /\ LastSet(cs, <<"Main", "AccelerationMode">>) # Unset
    /\ \A k \in DOMAIN cs : DOMAIN cs[k].val \subseteq LowLatencyAllowed

\* The version asked for last is the one handed on.
VersionKept(cs, s) == \A j : LastSetter(cs, Len(cs), Version, j) => s.ApiVersion = cs[j].val[Version]

LowLatencyInv == ret = "NONE" /\ lowLatency => Entered(configs) /\ VersionKept(configs, special)

LEMMA AllowedSettersOfHalves ==
    ASSUME NEW cs, Objects(cs), \A k \in DOMAIN cs : DOMAIN cs[k].val \subseteq LowLatencyAllowed,
           RequiredMajor(cs) # Unset, RequiredMinor(cs) # Unset
    PROVE  \E j : /\ LastSetter(cs, Len(cs), Version, j)
                  /\ cs[j].val[Version] = Minors * RequiredMajor(cs) + RequiredMinor(cs)
<1> DEFINE n == Len(cs)
<1>1. n \in Nat /\ DOMAIN cs = 1..n
    BY DEF Objects
<1>2. <<"Main", "Major">> \notin LowLatencyAllowed /\ <<"Main", "Minor">> \notin LowLatencyAllowed
    BY DEF LowLatencyAllowed, LowLatencyRequired, Group
<1>3. ASSUME NEW k \in 1..n
      PROVE  IF Version \in DOMAIN cs[k].val
             THEN /\ cs[k].val[Version] \in Nat
                  /\ Half(cs[k].val, "Major") = cs[k].val[Version] \div Minors
                  /\ Half(cs[k].val, "Minor") = cs[k].val[Version] % Minors
             ELSE Half(cs[k].val, "Major") = Unset /\ Half(cs[k].val, "Minor") = Unset
    <2>1. /\ \A p : Get(cs[k].val, p) = Unset <=> p \notin DOMAIN cs[k].val
          /\ Filled(k, cs[k])
        BY ObjectsAre
    <2>2. <<"Main", "Major">> \notin DOMAIN cs[k].val /\ <<"Main", "Minor">> \notin DOMAIN cs[k].val
        BY <1>1, <1>2
    <2>3. /\ Get(cs[k].val, <<"Main", "Major">>) = Unset /\ Get(cs[k].val, <<"Main", "Minor">>) = Unset
          /\ Get(cs[k].val, Version) = Unset <=> Version \notin DOMAIN cs[k].val
        BY <2>1, <2>2
    <2>4. CASE Version \in DOMAIN cs[k].val
        <3>1. Get(cs[k].val, Version) = cs[k].val[Version] /\ cs[k].val[Version] # Unset
            BY <2>3, <2>4 DEF Get
        <3>2. InRange(Version, cs[k].val[Version])
            BY <2>1, <2>4 DEF Filled, Version
        <3>3. cs[k].val[Version] \in Nat
            BY <3>2 DEF InRange, Version
        <3> QED
            BY <2>4, <3>1, <3>3 DEF Half, Version
    <2>5. CASE Version \notin DOMAIN cs[k].val
        BY <2>3, <2>5 DEF Half, Version
    <2> QED
        BY <2>4, <2>5
<1>4. ASSUME NEW f \in {"Major", "Minor"}
      PROVE  HalfSetters(cs, n, f) = Setters(cs, n, Version)
    <2>1. ASSUME NEW k \in 1..n
          PROVE  Half(cs[k].val, f) # Unset <=> Version \in DOMAIN cs[k].val
        <3>1. CASE Version \in DOMAIN cs[k].val
            <4>1. cs[k].val[Version] \div Minors \in Nat /\ cs[k].val[Version] % Minors \in 0 .. Minors - 1
                BY <1>3, <3>1, Parts
            <4>2. \A x \in 0 .. Minors - 1 : x # Unset
                BY MinorsType, ConfigFilterAssumption
            <4> QED
                BY <1>3, <3>1, <4>1, <4>2, ConfigFilterAssumption
        <3>2. CASE Version \notin DOMAIN cs[k].val
            BY <1>3, <3>2
        <3> QED
            BY <3>1, <3>2
    <2> QED
        BY <2>1 DEF HalfSetters, Setters
<1>5. PICK j : LastHalf(cs, n, "Major", j) /\ RequiredMajor(cs) = Half(cs[j].val, "Major")
    BY <1>1, HalfSetIs DEF RequiredMajor
<1>6. PICK i : LastHalf(cs, n, "Minor", i) /\ RequiredMinor(cs) = Half(cs[i].val, "Minor")
    BY <1>1, HalfSetIs DEF RequiredMinor
<1>7. LastSetter(cs, n, Version, j) /\ LastSetter(cs, n, Version, i)
    BY <1>4, <1>5, <1>6 DEF LastHalf, LastSetter
<1>8. i = j /\ j \in 1..n /\ Version \in DOMAIN cs[j].val
    <2>1. i \in 1..n /\ j \in 1..n /\ i <= j /\ j <= i /\ Version \in DOMAIN cs[j].val
        BY <1>7 DEF LastSetter, Setters
    <2> QED
        BY <2>1
<1>9. cs[j].val[Version] = Minors * RequiredMajor(cs) + RequiredMinor(cs)
    <2>1. /\ cs[j].val[Version] \in Nat /\ RequiredMajor(cs) = cs[j].val[Version] \div Minors
          /\ RequiredMinor(cs) = cs[j].val[Version] % Minors
        BY <1>3, <1>5, <1>6, <1>8
    <2> QED
        BY <2>1, Parts
<1> QED
    BY <1>7, <1>9

LEMMA LowLatencyInvKept ==
    ASSUME IInv, LowLatencyInv, [Next]_vars
    PROVE  LowLatencyInv'
<1> DEFINE n == Len(configs)
<1>1. /\ Objects(configs) /\ n \in Nat /\ DOMAIN configs = 1..n
      /\ DOMAIN special = Fields /\ IsFcn(special)
    BY Now
<1>2. CASE MFXCreateConfig
    <2> DEFINE more == Append(configs, NewConfig)
    <2>1. configs' = more /\ UNCHANGED <<special, lowLatency, ret>>
        BY <1>2 DEF MFXCreateConfig
    <2>2. /\ Objects(more) /\ Len(more) = n + 1 /\ more[n + 1] = NewConfig
          /\ \A k \in 1..n : more[k] = configs[k]
          /\ \A p : Setters(more, n + 1, p) = Setters(configs, n, p)
        BY <1>1, Appended
    <2> HIDE DEF more
    <2>3. DOMAIN more = 1 .. n + 1 /\ n + 1 \in Nat
        BY <1>1, <2>2 DEF Objects
    <2>4. ASSUME NEW p, NEW j
          PROVE  LastSetter(more, n + 1, p, j) <=> LastSetter(configs, n, p, j)
        BY <2>2 DEF LastSetter
    <2>5. ASSUME NEW p
          PROVE  LastSet(more, p) = LastSet(configs, p)
        <3>1. CASE Setters(configs, n, p) = {}
            BY <1>1, <2>2, <2>3, <3>1, LastSetIs
        <3>2. CASE \E j : LastSetter(configs, n, p, j)
            <4>1. PICK j : LastSetter(configs, n, p, j)
                BY <3>2
            <4>2. LastSet(configs, p) = configs[j].val[p]
                BY <1>1, <4>1, LastSetIs
            <4>3. LastSet(more, p) = more[j].val[p]
                BY <2>2, <2>3, <2>4, <4>1, LastSetIs
            <4>4. j \in 1..n
                BY <4>1 DEF LastSetter, Setters
            <4> QED
                BY <2>2, <4>2, <4>3, <4>4
        <3> QED
            BY <1>1, <3>1, <3>2, SomeLast
    <2>6. ASSUME Entered(configs)
          PROVE  Entered(more)
        <3>1. ASSUME NEW k \in 1 .. n + 1
              PROVE  DOMAIN more[k].val \subseteq LowLatencyAllowed
            <4>1. CASE k \in 1..n
                BY <1>1, <2>2, <2>6, <4>1 DEF Entered
            <4>2. CASE k = n + 1
                BY <2>2, <4>2, NewObject
            <4> QED
                BY <4>1, <4>2
        <3> QED
            BY <2>3, <2>5, <2>6, <3>1 DEF Entered
    <2>7. ASSUME VersionKept(configs, special)
          PROVE  VersionKept(more, special)
        <3> SUFFICES ASSUME NEW j, LastSetter(more, n + 1, Version, j)
                     PROVE  special.ApiVersion = more[j].val[Version]
            BY <2>2 DEF VersionKept
        <3>1. LastSetter(configs, n, Version, j)
            BY <2>4
        <3>2. j \in 1..n
            BY <3>1 DEF LastSetter, Setters
        <3> QED
            BY <2>2, <2>7, <3>1, <3>2 DEF VersionKept
    <2> QED
        BY <2>1, <2>6, <2>7 DEF LowLatencyInv
<1>3. ASSUME NEW k \in 1..MaxConfig, NEW c \in Call[k], MFXSetConfigFilterProperty(k, c)
      PROVE  LowLatencyInv'
    <2> SUFFICES ASSUME ret' = "NONE", lowLatency'
                 PROVE  Entered(configs') /\ VersionKept(configs', special')
        BY DEF LowLatencyInv
    <2> DEFINE l == CheckLowLatencyConfig(configs', special)
               t == Collected(configs', [special EXCEPT !.ExtBuffers = <<>>])[Len(configs')]
    <2>1. lowLatency' = l.lowLatency /\ special' = l.special
        BY <1>3 DEF MFXSetConfigFilterProperty
    <2>2. Objects(configs') /\ Len(configs') \in Nat /\ DOMAIN configs' = 1..Len(configs')
        BY <1>3, SetKeeps DEF IInv, ObjectsInv, Objects
    <2>3. l.lowLatency <=> Entered(configs')
        BY DEF CheckLowLatencyConfig, Entered
    <2>4. l.special = IF LastSet(configs', Version) = Unset THEN t
                      ELSE [t EXCEPT !.ApiVersion = LastSet(configs', Version)]
        BY DEF CheckLowLatencyConfig, Version
    <2>5. DOMAIN t = Fields
        BY <1>1, <2>2, CollectedSettled DEF Settled
    <2> HIDE DEF l, t
    <2>6. ASSUME NEW j, LastSetter(configs', Len(configs'), Version, j)
          PROVE  special'.ApiVersion = configs'[j].val[Version]
        <3>1. LastSet(configs', Version) = configs'[j].val[Version]
            BY <2>2, <2>6, LastSetIs
        <3>2. j \in 1..Len(configs') /\ Version \in DOMAIN configs'[j].val
            BY <2>6 DEF LastSetter, Setters
        <3>3. configs'[j].val[Version] # Unset
            BY <2>2, <3>2, ObjectsAre DEF Filled
        <3> QED
            BY <2>1, <2>4, <2>5, <3>1, <3>3 DEF Fields
    <2> QED
        BY <2>1, <2>3, <2>6 DEF VersionKept
<1>4. CASE UpdateValidImplList
    <2>1. UNCHANGED <<configs, lowLatency, ret>>
        BY <1>4 DEF UpdateValidImplList
    <2> SUFFICES ASSUME ret = "NONE", lowLatency
                 PROVE  Entered(configs) /\ VersionKept(configs, special')
        BY <2>1 DEF LowLatencyInv
    <2>2. Entered(configs) /\ VersionKept(configs, special)
        BY DEF LowLatencyInv
    <2>3. CASE valid = {}
        BY <1>4, <2>2, <2>3 DEF UpdateValidImplList
    <2>4. CASE valid # {}
        <3> DEFINE d == CHOOSE e \in valid : TRUE
                   t == Collected(configs, [special EXCEPT !.ExtBuffers = <<>>])[n]
                   x == Minors * RequiredMajor(configs) + RequiredMinor(configs)
        <3>1. special' = ValidateConfig(d, configs, special).special
            BY <1>4, <2>4 DEF UpdateValidImplList
        <3>2. d \in valid /\ d.ApiVersion \in Nat
            BY <2>4, ConfigFilterAssumption DEF IInv, TypeOK
        <3>3. t = special
            BY <1>1, CollectedSettled DEF IInv, SettledInv
        <3> HIDE DEF d
        <3>4. \/ special' = t
              \/ /\ RequiredMajor(configs) # Unset /\ RequiredMinor(configs) # Unset
                 /\ special' = [t EXCEPT !.ApiVersion = x]
            BY <1>1, <3>1, <3>2, Validated
        <3> HIDE DEF t, x
        <3>5. CASE special' = t
            BY <2>2, <3>3, <3>5
        <3>6. CASE /\ RequiredMajor(configs) # Unset /\ RequiredMinor(configs) # Unset
                   /\ special' = [t EXCEPT !.ApiVersion = x]
            <4>1. PICK j : LastSetter(configs, n, Version, j) /\ configs[j].val[Version] = x
                BY <1>1, <2>2, <3>6, AllowedSettersOfHalves DEF Entered, x
            <4>2. special'.ApiVersion = x
                BY <1>1, <3>3, <3>6 DEF Fields
            <4>3. ASSUME NEW i, LastSetter(configs, n, Version, i)
                  PROVE  i = j
                <5>1. i \in 1..n /\ j \in 1..n /\ i <= j /\ j <= i
                    BY <4>1, <4>3 DEF LastSetter, Setters
                <5> QED
                    BY <5>1
            <4> QED
                BY <2>2, <4>1, <4>2, <4>3 DEF VersionKept
        <3> QED
            BY <3>4, <3>5, <3>6
    <2> QED
        BY <2>3, <2>4
<1>5. CASE UNCHANGED vars
    BY <1>5 DEF vars, LowLatencyInv, Entered, VersionKept
<1> QED
    BY <1>2, <1>3, <1>4, <1>5 DEF Next

-----------------------------------------------------------------------------
(* What the runs check                                                     *)

\* Filters of several objects select what meets each of them on its own
\* (LoaderCtxVPL::UpdateValidImplList, ConfigCtxVPL::ValidateConfig).
THEOREM ObjectsAreIndependent == Spec => []ConfigsAreIndependent
<1>1. ASSUME IInv
      PROVE  ConfigsAreIndependent
    <2>1. Objects(configs) /\ DOMAIN special = Fields /\ IsFcn(special)
        BY <1>1, Now
    <2>2. \A d \in Impl : ValidateConfig(d, configs, special).ok <=> Required(d, configs)
        BY <2>1, Validated, ConfigFilterAssumption
    <2> QED
        BY <1>1, <2>2 DEF IInv, ConfigsAreIndependent
<1> QED
    BY <1>1, InvariantHolds, PTL

\* The buffers handed to a session are the objects' own, one each, none stale
\* (ConfigCtxVPL::SetExtBuf, CheckLowLatencyConfig, ValidateConfig).
THEOREM BuffersAreLive == Spec => []ExtBuffersLive
<1>1. ASSUME IInv
      PROVE  ExtBuffersLive
    <2> SUFFICES ASSUME ret = "NONE"
                 PROVE  BuffersOf(configs, special.ExtBuffers)
        BY DEF ExtBuffersLive
    <2> DEFINE n == Len(configs)
               setters == {k \in DOMAIN configs : <<"Special", "ExtBuffer">> \in DOMAIN configs[k].val}
    <2>1. Objects(configs) /\ n \in Nat /\ DOMAIN configs = 1..n
        BY <1>1, Now
    <2>2. special.ExtBuffers = Collected(configs, SpecialUnset)[n].ExtBuffers
        BY <1>1 DEF IInv, SettledInv, Settled
    <2>3. SpecialUnset.ExtBuffers = <<>> /\ n \in 0..n
        BY <2>1 DEF SpecialUnset
    <2>4. Gathered(configs, n, special.ExtBuffers)
        BY <2>1, <2>2, <2>3, SpecialFieldsAre, CollectedBuffers
    <2>5. setters = Setters(configs, n, Buffer)
        BY <2>1 DEF Setters, Buffer
    <2>6. ASSUME NEW k \in setters
          PROVE  {j \in setters : j <= k} = Setters(configs, k, Buffer)
        BY <2>1, <2>5 DEF Setters
    <2> HIDE DEF setters
    <2>7. /\ Len(special.ExtBuffers) = Cardinality(setters)
          /\ \A k \in setters :
                special.ExtBuffers[Cardinality({j \in setters : j <= k})] = [config |-> k, gen |-> configs[k].gen]
        BY <2>4, <2>5, <2>6 DEF Gathered
    <2> QED
        BY <2>7 DEF BuffersOf, setters
<1> QED
    BY <1>1, InvariantHolds, PTL

\* Validating changes nothing that low latency mode had handed on but the
\* version, unless the last call failed.
THEOREM ModesAgree == Spec => ModesShareSpecial
<1>1. ASSUME IInv, [Next]_vars
      PROVE  [needUpdate /\ ~needUpdate' /\ ret = "NONE" =>
                 special' = [special EXCEPT !.ApiVersion = special'.ApiVersion]]_vars
    <2> SUFFICES ASSUME needUpdate, ~needUpdate', ret = "NONE"
                 PROVE  special' = [special EXCEPT !.ApiVersion = special'.ApiVersion]
        OBVIOUS
    <2>1. CASE MFXCreateConfig
        BY <2>1 DEF MFXCreateConfig
    <2>2. CASE \E k \in 1..MaxConfig : \E c \in Call[k] : MFXSetConfigFilterProperty(k, c)
        BY <2>2 DEF MFXSetConfigFilterProperty
    <2>3. CASE UpdateValidImplList
        BY <1>1, <2>3, UpdateSettles
    <2>4. CASE UNCHANGED vars
        BY <2>4 DEF vars
    <2> QED
        BY <1>1, <2>1, <2>2, <2>3, <2>4 DEF Next
<1> QED
    BY <1>1, InvariantHolds, PTL DEF Spec, ModesShareSpecial

\* The session that low latency mode creates without validation is on a runtime
\* that the filters would have let through (LoaderCtxVPL::UpdateLowLatency).
THEOREM LowLatencyMeetsFilters == Spec => []LowLatencySkipsNoFilter
<1>1. ASSUME IInv, LowLatencyInv
      PROVE  LowLatencySkipsNoFilter
    <2> SUFFICES ASSUME lowLatency, ret = "NONE",
                        \A j, k \in DOMAIN configs :
                            j # k => DOMAIN configs[j].val \cap DOMAIN configs[k].val = {},
                        NEW d \in Impl,
                        d.Impl = "HW", d.ImplName = "mfx-gen", d.VendorID = "Intel",
                        special.AccelerationMode \in d.modes,
                        special.ApiVersion # Unset => d.ApiVersion >= special.ApiVersion
                 PROVE  ValidateConfig(d, configs, special).ok
        BY DEF LowLatencySkipsNoFilter
    <2> DEFINE n == Len(configs)
    <2>1. /\ Objects(configs) /\ n \in Nat /\ DOMAIN configs = 1..n
          /\ DOMAIN special = Fields /\ IsFcn(special) /\ Settled(configs, special)
        BY <1>1, Now DEF IInv, SettledInv
    <2>2. Entered(configs) /\ VersionKept(configs, special)
        BY <1>1 DEF LowLatencyInv
    <2>3. ASSUME NEW k \in 1..n, NEW p \in DOMAIN configs[k].val
          PROVE  LastSetter(configs, n, p, k) /\ LastSet(configs, p) = configs[k].val[p]
        <3>1. Setters(configs, n, p) = {k}
            BY <2>1 DEF Setters
        <3>2. LastSetter(configs, n, p, k)
            BY <3>1 DEF LastSetter
        <3> QED
            BY <2>1, <3>2, LastSetIs
    <2>4. ASSUME NEW k \in 1..n
          PROVE  /\ CheckPropsGeneral(configs[k].val, d)
                 /\ Asked(configs[k].val) = {}
                 /\ Get(configs[k].val, FunctionName) = Unset
        <3> DEFINE v == configs[k].val
        <3>1. /\ \A p : Get(v, p) = IF p \in DOMAIN v THEN v[p] ELSE Unset
              /\ DOMAIN v \subseteq LowLatencyAllowed
              /\ \A p \in DOMAIN v : LastSet(configs, p) = v[p]
            BY <2>1, <2>2, <2>3 DEF Get, Entered
        <3>2. <<"Main", "AccelerationMode">> \in DOMAIN v => v[<<"Main", "AccelerationMode">>] = special.AccelerationMode
            BY <2>1, <2>3 DEF Settled, Passed, Source
        <3> HIDE DEF v
        <3>3. \A p \in LowLatencyAllowed : p[1] \in {"Main", "Special"}
            BY DEF LowLatencyAllowed, LowLatencyRequired, Group
        <3>4. Asked(v) = {} /\ Get(v, FunctionName) = Unset
            BY <3>1, <3>3 DEF Asked, FunctionName
        <3>5. \A f \in {"VendorImplID", "DeviceIDStr", "PoolAllocationPolicy", "License", "Keywords", "DeviceID",
                        "MediaAdapterType"} : Get(v, <<"Main", f>>) = Unset
            <4>1. \A f \in {"VendorImplID", "DeviceIDStr", "PoolAllocationPolicy", "License", "Keywords", "DeviceID",
                            "MediaAdapterType"} : <<"Main", f>> \notin LowLatencyAllowed
                BY DEF LowLatencyAllowed, LowLatencyRequired, Group
            <4> QED
                BY <3>1, <4>1
        <3>6. /\ Get(v, <<"Main", "Impl">>) \in {Unset, "HW"}
              /\ Get(v, <<"Main", "ImplName">>) \in {Unset, "mfx-gen"}
              /\ Get(v, <<"Main", "VendorID">>) \in {Unset, "Intel"}
              /\ Get(v, <<"Main", "AccelerationMode">>) \in {Unset, special.AccelerationMode}
            BY <2>2, <3>1, <3>2 DEF Entered
        <3>7. CheckPropsGeneral(v, d)
            BY <3>5, <3>6 DEF CheckPropsGeneral, Same, Includes
        <3> QED
            BY <3>4, <3>7 DEF v
    <2>5. ASSUME RequiredMajor(configs) # Unset, RequiredMinor(configs) # Unset
          PROVE  d.ApiVersion >= Minors * RequiredMajor(configs) + RequiredMinor(configs)
        <3>1. PICK j : /\ LastSetter(configs, n, Version, j)
                       /\ configs[j].val[Version] = Minors * RequiredMajor(configs) + RequiredMinor(configs)
            BY <2>1, <2>2, <2>5, AllowedSettersOfHalves DEF Entered
        <3>2. special.ApiVersion = configs[j].val[Version]
            BY <2>2, <3>1 DEF VersionKept
        <3>3. j \in 1..n /\ Version \in DOMAIN configs[j].val
            BY <3>1 DEF LastSetter, Setters
        <3>4. special.ApiVersion # Unset
            <4>1. Filled(j, configs[j])
                BY <2>1, <3>3, ObjectsAre
            <4> QED
                BY <3>2, <3>3, <4>1 DEF Filled
        <3> QED
            BY <3>1, <3>2, <3>4
    <2>6. Required(d, configs)
        BY <2>1, <2>4, <2>5 DEF Required, FunctionName
    <2> QED
        BY <2>1, <2>6, Validated, ConfigFilterAssumption
<1>2. Init => LowLatencyInv
    BY DEF Init, LowLatencyInv
<1>3. IInv /\ LowLatencyInv /\ [Next]_vars => LowLatencyInv'
    BY LowLatencyInvKept
<1>4. Spec => []LowLatencyInv
    BY <1>2, <1>3, InvariantHolds, PTL DEF Spec
<1> QED
    BY <1>1, <1>4, InvariantHolds, PTL

=============================================================================
