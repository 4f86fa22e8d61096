---------------------------- MODULE ConfigFilter ----------------------------
(***************************************************************************)
(* The configuration objects of a loader (class ConfigCtxVPL): the names   *)
(* of the properties, what MFXSetConfigFilterProperty stores, how the      *)
(* properties of several mfxConfig objects are tested against the          *)
(* description of an implementation, and what they leave for the creation  *)
(* of a session (SpecialConfig).  The module Dispatcher takes six of these *)
(* properties and the outcome of the test; this one has them all.          *)
(***************************************************************************)
EXTENDS Integers, Sequences, FiniteSets

CONSTANTS
    Call,        \* what may be set in the k-th mfxConfig: [name, type, query, data]
    Impl,        \* descriptions of the implementations in m_implInfoList
    Unset,       \* MFX_VARIANT_TYPE_UNSET
    Null,        \* a null pointer
    None,        \* a structure that the runtime does not report
    Windows,     \* DXGIAdapterIndex exists on Windows only
    MaxConfig,   \* bound on the mfxConfig objects
    MaxCalls     \* bound on the calls of MFXSetConfigFilterProperty

VARIABLES
    configs,     \* m_configCtxList
    special,     \* m_specialConfig
    lowLatency,  \* m_bLowLatency
    queryProps,  \* m_queryProps: property-based query is enabled if not empty
    valid,       \* implementations whose validImplIdx is not -1
    needUpdate,  \* m_bNeedUpdateValidImpls
    ret,         \* status of the last call
    calls        \* calls so far

vars == <<configs, special, lowLatency, queryProps, valid, needUpdate, ret, calls>>

-----------------------------------------------------------------------------
(* The properties                                                          *)

DecFields == {"CodecID", "MaxcodecLevel", "Profile", "MemHandleType", "Width", "Height", "ColorFormat"}
EncFields == DecFields \cup {"BiDirectionalPrediction"}
VPPFields == {"FilterFourCC", "MaxDelayInFrames", "MemHandleType", "Width", "Height",
              "InFormat", "OutFormat"}
SurfaceFields == {"SurfaceType", "SurfaceComponent", "SurfaceFlags"}
ExtDevFields == {"VendorID", "DeviceID", "PCIDomain", "PCIBus", "PCIDevice", "PCIFunction",
                 "DeviceLUID", "LUIDDeviceNodeMask", "DRMRenderNodeNum", "DRMPrimaryNodeNum",
                 "RevisionID", "DeviceName"}
MainFields == {"Impl", "AccelerationMode", "ApiVersion", "Major", "Minor", "ImplName", "License",
               "Keywords", "VendorID", "VendorImplID", "PoolAllocationPolicy",
               "DeviceID", "DeviceIDStr", "MediaAdapterType"}
SpecialFields == {"HandleType", "Handle", "NumThread", "DeviceCopy", "ExtBuffer", "DXGIAdapterIndex"}

Group(g, fields) == {g} \X fields
Property ==
    Group("Main", MainFields) \cup Group("Dec", DecFields) \cup Group("Enc", EncFields)
    \cup Group("VPP", VPPFields) \cup Group("ExtDev", ExtDevFields)
    \cup Group("Surface", SurfaceFields) \cup Group("Special", SpecialFields)
    \cup Group("Func", {"FunctionName"}) \cup Group("Query", {"ImplOnly", "AllDec", "AllEnc", "AllVPP"})

\* PropIdxTab; what is neither U16 nor a pointer is U32
U16Property ==
    Group("Main", {"Major", "Minor", "DeviceID", "MediaAdapterType"})
    \cup Group("Dec", {"MaxcodecLevel"}) \cup Group("Enc", {"MaxcodecLevel", "BiDirectionalPrediction"})
    \cup Group("VPP", {"MaxDelayInFrames"}) \cup Group("ExtDev", {"VendorID", "DeviceID", "RevisionID"})
    \cup Group("Special", {"DeviceCopy"})
PtrProperty ==
    Group("Main", {"ImplName", "License", "Keywords", "DeviceIDStr"})
    \cup ({"Dec", "Enc", "VPP"} \X {"Width", "Height"})
    \cup Group("ExtDev", {"DeviceLUID", "DeviceName"}) \cup Group("Special", {"Handle", "ExtBuffer"})
    \cup Group("Func", {"FunctionName"})
TypeOf(p) == IF p \in U16Property THEN "U16" ELSE IF p \in PtrProperty THEN "PTR" ELSE "U32"

\* PropStringMap: the properties a runtime can be queried for one by one
Queryable == Group("Query", {"ImplOnly", "AllDec", "AllEnc", "AllVPP"})
             \cup {<<"Dec", "CodecID">>, <<"Enc", "CodecID">>, <<"VPP", "FilterFourCC">>}

-----------------------------------------------------------------------------
(* Names.  A name is the sequence of its tokens; each table pairs the      *)
(* tokens the parser consumes with the property it ends at.                *)

Named(path, g, fields) == {<<Append(path, f), <<g, f>>>> : f \in fields}

SetFilterPropertyDec ==
    LET mem == <<"decoder", "decprofile", "decmemdesc">>
    IN  {<< <<"">>, <<"Query", "AllDec">> >>}
        \cup Named(<<"decoder">>, "Dec", {"CodecID", "MaxcodecLevel"})
        \cup Named(<<"decoder", "decprofile">>, "Dec", {"Profile"})
        \cup Named(mem, "Dec", {"MemHandleType", "Width", "Height", "ColorFormat"})
        \cup {<<Append(mem, "ColorFormats"), <<"Dec", "ColorFormat">>>>}

SetFilterPropertyEnc ==
    LET mem == <<"encoder", "encprofile", "encmemdesc">>
    IN  {<< <<"">>, <<"Query", "AllEnc">> >>}
        \cup Named(<<"encoder">>, "Enc", {"CodecID", "MaxcodecLevel", "BiDirectionalPrediction"})
        \cup Named(<<"encoder", "encprofile">>, "Enc", {"Profile"})
        \cup Named(mem, "Enc", {"MemHandleType", "Width", "Height", "ColorFormat"})
        \cup {<<Append(mem, "ColorFormats"), <<"Enc", "ColorFormat">>>>}

SetFilterPropertyVPP ==
    LET mem == <<"filter", "memdesc">>
    IN  {<< <<"">>, <<"Query", "AllVPP">> >>}
        \cup Named(<<"filter">>, "VPP", {"FilterFourCC", "MaxDelayInFrames"})
        \cup Named(mem, "VPP", {"MemHandleType", "Width", "Height"})
        \cup Named(Append(mem, "format"), "VPP", {"InFormat", "OutFormat"})
        \cup {<<mem \o <<"format", "OutFormats">>, <<"VPP", "OutFormat">>>>}

SetFilterPropertySurface ==
    Named(<<"surftype">>, "Surface", {"SurfaceType"})
    \cup Named(<<"surftype", "surfcomp">>, "Surface", {"SurfaceComponent", "SurfaceFlags"})

Under(path, names) == {<<path \o n[1], n[2]>> : n \in names}

\* DeviceID is two properties, told apart by the type of the value
DeviceNames(type) ==
    {<< <<"DeviceID">>, <<"Main", IF type = "PTR" THEN "DeviceIDStr" ELSE "DeviceID">> >>,
     << <<"MediaAdapterType">>, <<"Main", "MediaAdapterType">> >>}

Names(type) ==
    LET d == <<"mfxImplDescription">>
    IN  {<< <<"mfxHandleType">>, <<"Special", "HandleType">> >>,
         << <<"mfxHDL">>, <<"Special", "Handle">> >>,
         << <<"mfxImplementedFunctions", "FunctionsName">>, <<"Func", "FunctionName">> >>,
         <<Append(d, ""), <<"Query", "ImplOnly">>>>,
         <<Append(d, "mfxSurfacePoolMode"), <<"Main", "PoolAllocationPolicy">>>>,
         <<d \o <<"ApiVersion", "Version">>, <<"Main", "ApiVersion">>>>}
        \cup Named(<<>>, "Special", {"NumThread", "DeviceCopy", "ExtBuffer"})
        \cup (IF Windows THEN Named(<<>>, "Special", {"DXGIAdapterIndex"}) ELSE {})
        \cup Named(<<"mfxExtendedDeviceId">>, "ExtDev", ExtDevFields)
        \cup Under(<<"mfxSurfaceTypesSupported">>, SetFilterPropertySurface)
        \cup Named(d, "Main", {"Impl", "AccelerationMode", "VendorID", "ImplName", "License",
                               "Keywords", "VendorImplID"})
        \cup Named(Append(d, "ApiVersion"), "Main", {"Major", "Minor"})
        \cup Under(Append(d, "mfxDeviceDescription"), DeviceNames(type))
        \cup Under(d \o <<"mfxDeviceDescription", "device">>, DeviceNames(type))
        \cup Under(Append(d, "mfxDecoderDescription"), SetFilterPropertyDec)
        \cup Under(Append(d, "mfxEncoderDescription"), SetFilterPropertyEnc)
        \cup Under(Append(d, "mfxVPPDescription"), SetFilterPropertyVPP)

\* tokens past the end are empty; those the parser does not consume are ignored
GetNextProp(name, k) == IF k \in DOMAIN name THEN name[k] ELSE ""
Denoted(name, type) ==
    {n[2] : n \in {m \in Names(type) : \A k \in DOMAIN m[1] : GetNextProp(name, k) = m[1][k]}}
\* mfxVersion: the number of a version is Minors * Major + Minor
Minors == 65536

\* what is given for a version is a number, for a buffer a structure with its size
InRange(p, x) ==
    /\ p = <<"Main", "ApiVersion">> => x \in Nat
    /\ p \in {<<"Main", "Major">>, <<"Main", "Minor">>} => x \in 0 .. Minors - 1
    /\ p = <<"Special", "ExtBuffer">> => x.size \in Nat \ {0}

ASSUME ConfigFilterAssumption ==
    /\ MaxConfig \in Nat /\ MaxCalls \in Nat /\ 1..MaxConfig \subseteq DOMAIN Call
    /\ \A k \in DOMAIN Call : \A c \in Call[k] :
         /\ c.data # Unset
         /\ \A p \in Denoted(c.name, c.type) :
              c.type = TypeOf(p) /\ ~(c.type = "PTR" /\ c.data = Null) => InRange(p, c.data)
    /\ \A d \in Impl : d.ApiVersion \in Nat
    /\ Unset \notin Nat \cup [config : Nat, gen : Nat]

Properties == [c \in UNION {Call[k] : k \in DOMAIN Call} |-> Denoted(c.name, c.type)]

-----------------------------------------------------------------------------
(* Setting a property.  An mfxConfig keeps a value per property, the       *)
(* properties flagged for a query, and a copy of its extension buffer: the *)
(* value of ExtBuffer points into it, and is stale once the copy has moved *)

\* a property that is not in the domain of val is MFX_VARIANT_TYPE_UNSET
Get(v, p) == IF p \in DOMAIN v THEN v[p] ELSE Unset

NewConfig == [val |-> <<>>, query |-> {}, gen |-> 0, size |-> 0]

Put(v, p, x) == [q \in DOMAIN v \cup {p} |-> IF q = p THEN x ELSE v[q]]
Drop(v, p) == [q \in DOMAIN v \ {p} |-> v[q]]

\* the copy moves when it has to grow
SetExtBuf(cfg, k, buf) ==
    LET gen == IF buf.size > cfg.size THEN cfg.gen + 1 ELSE cfg.gen
    IN  [cfg EXCEPT !.gen = gen, !.size = IF buf.size > @ THEN buf.size ELSE @,
                    !.val = Put(@, <<"Special", "ExtBuffer">>, [config |-> k, gen |-> gen])]

\* ValidateAndSetProp on configuration object cfg, the k-th of the list: the
\* status and the object afterwards
ValidateAndSetProp(cfg, k, p, c) ==
    LET flagged == [cfg EXCEPT !.query = IF c.query THEN @ \cup {p} ELSE @ \ {p}]
    IN  IF \/ p[1] = "Query" /\ ~c.query
           \/ c.query /\ p \notin Queryable
           \/ c.type # TypeOf(p)
        THEN [sts |-> "UNSUPPORTED", cfg |-> flagged]
        ELSE IF c.type = "PTR" /\ c.data = Null
        THEN [sts |-> "NULL_PTR", cfg |-> [flagged EXCEPT !.val = Drop(@, p)]]
        ELSE [sts |-> "NONE",
              cfg |-> IF p = <<"Special", "ExtBuffer">> THEN SetExtBuf(flagged, k, c.data)
                      ELSE [flagged EXCEPT !.val = Put(@, p, c.data)]]

SetFilterProperty(cfg, k, c) ==
    LET found == Properties[c]
    IN  IF found = {} THEN [sts |-> "NOT_FOUND", cfg |-> cfg]
        ELSE ValidateAndSetProp(cfg, k, CHOOSE p \in found : TRUE, c)

\* UpdatePropsQueryConfig, for each mfxConfig in turn
UpdatePropsQueryConfig(cs) ==
    UNION {{<<p, cs[k].val[p]>> : p \in cs[k].query \cap Queryable \cap DOMAIN cs[k].val}
            : k \in DOMAIN cs}

-----------------------------------------------------------------------------
(* The flat descriptions: one per combination of codec, profile, memory    *)
(* type and color format.  A list without elements hides what is above it. *)

FlatDec(d) ==
    UNION {UNION {UNION {{[CodecID |-> c.CodecID, MaxcodecLevel |-> c.MaxcodecLevel,
                           Profile |-> q.Profile, MemHandleType |-> m.MemHandleType,
                           Width |-> m.Width, Height |-> m.Height, ColorFormat |-> f]
        : f \in m.ColorFormats} : m \in q.MemDesc} : q \in c.Profiles} : c \in d.Dec}

FlatEnc(d) ==
    UNION {UNION {UNION {{[CodecID |-> c.CodecID, MaxcodecLevel |-> c.MaxcodecLevel,
                           BiDirectionalPrediction |-> c.BiDirectionalPrediction,
                           Profile |-> q.Profile, MemHandleType |-> m.MemHandleType,
                           Width |-> m.Width, Height |-> m.Height, ColorFormat |-> f]
        : f \in m.ColorFormats} : m \in q.MemDesc} : q \in c.Profiles} : c \in d.Enc}

FlatVPP(d) ==
    UNION {UNION {UNION {{[FilterFourCC |-> v.FilterFourCC, MaxDelayInFrames |-> v.MaxDelayInFrames,
                           MemHandleType |-> m.MemHandleType, Width |-> m.Width, Height |-> m.Height,
                           InFormat |-> i.InFormat, OutFormat |-> o]
        : o \in i.OutFormats} : i \in m.Formats} : m \in v.MemDesc} : v \in d.VPP}

FlatSurface(d) ==
    IF d.surf = None THEN {}
    ELSE UNION {{[SurfaceType |-> t.SurfaceType, SurfaceComponent |-> s.SurfaceComponent,
                  SurfaceFlags |-> s.SurfaceFlags] : s \in t.SurfaceComponents} : t \in d.surf}

-----------------------------------------------------------------------------
(* One mfxConfig (v: its values) against one description                   *)

Same(x, wanted) == wanted = Unset \/ wanted = x

\* a range that is asked for lies within the range that is supported
Within(range, wanted) ==
    wanted = Unset \/ (wanted.Max <= range.Max /\ wanted.Min >= range.Min /\ wanted.Step >= range.Step)

Includes(tokens, wanted) == wanted = Unset \/ wanted \subseteq tokens

FitsFlat(v, g, x) ==
    /\ \A f \in DOMAIN x \ {"Width", "Height", "SurfaceFlags"} : Same(x[f], Get(v, <<g, f>>))
    /\ \A f \in DOMAIN x \cap {"Width", "Height"} : Within(x[f], Get(v, <<g, f>>))
    /\ \A f \in DOMAIN x \cap {"SurfaceFlags"} : Includes(x[f], Get(v, <<g, f>>))

\* mutant: each property may be met by another codec, profile or format
CheckPropsDecApart(v, d) ==
    \A f \in DecFields \ {"Width", "Height"} : \E x \in FlatDec(d) : Same(x[f], Get(v, <<"Dec", f>>))

CheckPropsDec(v, d) == \E x \in FlatDec(d) : FitsFlat(v, "Dec", x)

CheckPropsEnc(v, d) == \E x \in FlatEnc(d) : FitsFlat(v, "Enc", x)

CheckPropsVPP(v, d) == \E x \in FlatVPP(d) : FitsFlat(v, "VPP", x)

CheckPropsSurface(v, d) == \E x \in FlatSurface(d) : FitsFlat(v, "Surface", x)

\* structure versions are 10 * Major + Minor, API versions Minors * Major + Minor
CheckPropsGeneral(v, d) ==
    /\ \A f \in {"Impl", "VendorID", "VendorImplID", "ImplName", "DeviceIDStr"} :
         Same(d[f], Get(v, <<"Main", f>>))
    /\ IF d.modes # {} THEN Get(v, <<"Main", "AccelerationMode">>) \in d.modes \cup {Unset}
       ELSE Same(d.AccelerationMode, Get(v, <<"Main", "AccelerationMode">>))
    /\ Get(v, <<"Main", "PoolAllocationPolicy">>) \in {Unset} \cup (IF d.version >= 12 THEN d.policies ELSE {})
    /\ \A f \in {"License", "Keywords"} : Includes(d[f], Get(v, <<"Main", f>>))
    /\ Get(v, <<"Main", "DeviceID">>) # Unset => d.DeviceID # None /\ d.DeviceID = Get(v, <<"Main", "DeviceID">>)
    /\ d.ApiVersion >= 2 * Minors /\ Get(v, <<"Main", "MediaAdapterType">>) # Unset =>
         d.devVersion >= 11 /\ d.MediaAdapterType = Get(v, <<"Main", "MediaAdapterType">>)

NoRenderNode == 0
NoPrimaryNode == 2147483647

CheckPropsExtDevID(v, x) ==
    /\ \A f \in ExtDevFields : Same(x[f], Get(v, <<"ExtDev", f>>))
    /\ \A f \in {"DeviceLUID", "LUIDDeviceNodeMask"} : Get(v, <<"ExtDev", f>>) # Unset => x.LUIDValid
    /\ Get(v, <<"ExtDev", "DRMRenderNodeNum">>) # Unset => x.DRMRenderNodeNum # NoRenderNode
    /\ Get(v, <<"ExtDev", "DRMPrimaryNodeNum">>) # Unset => x.DRMRenderNodeNum # NoPrimaryNode

-----------------------------------------------------------------------------
(* All mfxConfig objects against one description                           *)

SpecialUnset == [AccelerationMode |-> Unset, ApiVersion |-> Unset, HandleType |-> Unset,
                 Handle |-> Unset, NumThread |-> Unset, DeviceCopy |-> Unset,
                 DXGIAdapterIndex |-> Unset, ExtBuffers |-> <<>>]
PassedOn == (SpecialFields \ {"ExtBuffer"})
Source(f) == IF f = "AccelerationMode" THEN <<"Main", f>> ELSE <<"Special", f>>

\* what the values v of one mfxConfig change in sp
TakeSpecial(sp, v) ==
    [f \in DOMAIN sp |->
        IF f \in PassedOn \cup {"AccelerationMode"}
        THEN IF Get(v, Source(f)) = Unset THEN sp[f] ELSE Get(v, Source(f))
        ELSE IF f = "ExtBuffers" /\ Get(v, <<"Special", "ExtBuffer">>) # Unset
        THEN Append(sp[f], Get(v, <<"Special", "ExtBuffer">>))
        ELSE sp[f]]

\* the groups of capabilities that v asks for
Asked(v) == {p[1] : p \in DOMAIN v} \cap {"Dec", "Enc", "VPP", "ExtDev", "Surface"}

\* reqVersion and its two halves, which several mfxConfig objects may set
TakeVersion(r, v) ==
    LET version == Get(v, <<"Main", "ApiVersion">>)
        major == Get(v, <<"Main", "Major">>)
        minor == Get(v, <<"Main", "Minor">>)
        hi == IF major = Unset THEN r.version \div Minors ELSE major
        lo == IF minor = Unset THEN r.version % Minors ELSE minor
    IN  IF version # Unset THEN [r EXCEPT !.version = version, !.major = TRUE, !.minor = TRUE]
        ELSE [r EXCEPT !.version = Minors * hi + lo,
                       !.major = @ \/ major # Unset, !.minor = @ \/ minor # Unset]

\* one turn of the loop of ValidateConfig; a group asked for by an earlier
\* mfxConfig is tested again with the values of this one
TakeConfig(d, r, cfg) ==
    LET v == cfg.val
        asked == r.asked \cup Asked(v)
        fn == Get(v, <<"Func", "FunctionName">>)
    IN  [TakeVersion(r, v) EXCEPT
            !.asked = asked,
            !.ok = /\ @
                   /\ CheckPropsGeneral(v, d)
                   /\ "ExtDev" \in asked => d.ext # None /\ CheckPropsExtDevID(v, d.ext)
                   /\ "Surface" \in asked => d.surf # None /\ CheckPropsSurface(v, d)
                   /\ d.type # "msdk" =>
                        /\ "Dec" \in asked => CheckPropsDec(v, d)
                        /\ "Enc" \in asked => CheckPropsEnc(v, d)
                        /\ "VPP" \in asked => CheckPropsVPP(v, d),
            !.funcs = IF fn = Unset THEN @ ELSE @ \cup {fn},
            !.special = TakeSpecial(@, v)]

\* what is found after each of them
Turns(d, cs, start) ==
    LET r[k \in 0..Len(cs)] == IF k = 0 THEN start ELSE TakeConfig(d, r[k - 1], cs[k])
    IN  r

ValidateConfig(d, cs, sp) ==
    LET start == [ok |-> TRUE, asked |-> {}, funcs |-> {}, version |-> 0, major |-> FALSE,
                  minor |-> FALSE, special |-> [sp EXCEPT !.ExtBuffers = <<>>]]
        r == Turns(d, cs, start)[Len(cs)]
        versioned == r.major /\ r.minor
    IN  [ok |-> /\ r.ok
                /\ versioned => d.ApiVersion >= r.version
                /\ r.funcs # {} => d.funcs # None /\ r.funcs \subseteq d.funcs,
         special |-> IF versioned THEN [r.special EXCEPT !.ApiVersion = r.version] ELSE r.special]

\* the value of p in the last mfxConfig of the list that sets it
LastSet(cs, p) ==
    LET setters == {k \in DOMAIN cs : p \in DOMAIN cs[k].val}
    IN  IF setters = {} THEN Unset
        ELSE cs[CHOOSE k \in setters : \A j \in setters : j <= k].val[p]

LowLatencyRequired == {<<"Main", "Impl">>, <<"Main", "ImplName">>, <<"Main", "VendorID">>,
                       <<"Main", "AccelerationMode">>}

LowLatencyAllowed ==
    LowLatencyRequired \cup Group("Special", SpecialFields) \cup {<<"Main", "ApiVersion">>}

\* the special properties, sp at first, after each of the objects
Collected(cs, sp) ==
    LET s[k \in 0..Len(cs)] == IF k = 0 THEN sp ELSE TakeSpecial(s[k - 1], cs[k].val)
    IN  s

\* mutant: the acceleration mode is not handed on
CheckLowLatencyConfigNoMode(cs, sp) ==
    LET taken == Collected(cs, [sp EXCEPT !.ExtBuffers = <<>>])[Len(cs)]
    IN  [lowLatency |-> FALSE, special |-> [taken EXCEPT !.AccelerationMode = sp.AccelerationMode]]

\* mutant: the extension buffers of the call before are kept
CheckLowLatencyConfigBuffersKept(cs, sp) ==
    [lowLatency |-> FALSE, special |-> Collected(cs, sp)[Len(cs)]]

\* mutant: other filters do not end the mode
CheckLowLatencyConfigOthersIgnored(cs, sp) ==
    [lowLatency |-> /\ LastSet(cs, <<"Main", "Impl">>) = "HW"
                    /\ LastSet(cs, <<"Main", "ImplName">>) = "mfx-gen"
                    /\ LastSet(cs, <<"Main", "VendorID">>) = "Intel"
                    /\ LastSet(cs, <<"Main", "AccelerationMode">>) # Unset,
     special |-> Collected(cs, [sp EXCEPT !.ExtBuffers = <<>>])[Len(cs)]]

\* CheckLowLatencyConfig: whether the mode is entered, and the special
\* properties, of which the session takes what it needs without validation
CheckLowLatencyConfig(cs, sp) ==
    LET taken == Collected(cs, [sp EXCEPT !.ExtBuffers = <<>>])[Len(cs)]
        version == LastSet(cs, <<"Main", "ApiVersion">>)
    IN  [lowLatency |-> /\ LastSet(cs, <<"Main", "Impl">>) = "HW"
                        /\ LastSet(cs, <<"Main", "ImplName">>) = "mfx-gen"
                        /\ LastSet(cs, <<"Main", "VendorID">>) = "Intel"
                        /\ LastSet(cs, <<"Main", "AccelerationMode">>) # Unset
                        /\ \A k \in DOMAIN cs : DOMAIN cs[k].val \subseteq LowLatencyAllowed,
         special |-> IF version = Unset THEN taken ELSE [taken EXCEPT !.ApiVersion = version]]

-----------------------------------------------------------------------------
(* The calls                                                               *)

Init ==
    /\ configs = <<>>
    /\ special = SpecialUnset
    /\ lowLatency = FALSE
    /\ queryProps = {}
    /\ valid = Impl
    /\ needUpdate = TRUE
    /\ ret = "NONE"
    /\ calls = 0

MFXCreateConfig ==
    /\ Len(configs) < MaxConfig
    /\ configs' = Append(configs, NewConfig)
    /\ UNCHANGED <<special, lowLatency, queryProps, valid, needUpdate, ret, calls>>

\* a call that fails has changed the object, and nothing is updated after it
MFXSetConfigFilterProperty(k, c) ==
    /\ k \in DOMAIN configs /\ c \in Call[k]
    /\ calls < MaxCalls
    /\ calls' = calls + 1
    /\ LET r == SetFilterProperty(configs[k], k, c)
       IN  /\ ret' = r.sts
           /\ configs' = [configs EXCEPT ![k] = r.cfg]
    /\ IF ret' = "NONE"
       THEN LET l == CheckLowLatencyConfig(configs', special)
            IN  /\ needUpdate' = TRUE
                /\ lowLatency' = l.lowLatency
                /\ special' = l.special
                /\ queryProps' = UpdatePropsQueryConfig(configs')
       ELSE UNCHANGED <<needUpdate, lowLatency, special, queryProps>>
    /\ UNCHANGED valid

\* UpdateValidImplList, by the next call that uses the list
UpdateValidImplList ==
    /\ needUpdate
    /\ LET result(d) == ValidateConfig(d, configs, special)
           sp == IF valid = {} THEN special ELSE result(CHOOSE d \in valid : TRUE).special
       IN  /\ special' = sp
           /\ valid' = {d \in valid : /\ result(d).ok
                                      /\ sp.DXGIAdapterIndex \in {Unset, d.adapterIdx}}
    /\ needUpdate' = FALSE
    /\ UNCHANGED <<configs, lowLatency, queryProps, ret, calls>>

Next ==
    \/ MFXCreateConfig
    \/ \E k \in 1..MaxConfig : \E c \in Call[k] : MFXSetConfigFilterProperty(k, c)
    \/ UpdateValidImplList

Spec == Init /\ [][Next]_vars

-----------------------------------------------------------------------------
(* Properties                                                              *)

\* Every mfxConfig has a value, or none, for each property, and the special
\* properties are complete.
TypeOK ==
    /\ \A k \in DOMAIN configs :
         /\ DOMAIN configs[k].val \subseteq Property
         /\ configs[k].query \subseteq Property
         /\ configs[k].gen \in Nat /\ configs[k].size \in Nat
    /\ DOMAIN special = DOMAIN SpecialUnset
    /\ lowLatency \in BOOLEAN /\ needUpdate \in BOOLEAN
    /\ \A q \in queryProps : q[1] \in Queryable /\ q[2] # Unset
    /\ valid \subseteq Impl
    /\ ret \in {"NONE", "NOT_FOUND", "UNSUPPORTED", "NULL_PTR"}
    /\ calls \in 0..MaxCalls

\* What a version half is in the last mfxConfig that gives one, as Version or apart
Half(v, f) ==
    LET version == Get(v, <<"Main", "ApiVersion">>)
    IN  IF version = Unset THEN Get(v, <<"Main", f>>)
        ELSE IF f = "Major" THEN version \div Minors ELSE version % Minors
HalfSet(cs, f) ==
    LET setters == {k \in DOMAIN cs : Half(cs[k].val, f) # Unset}
    IN  IF setters = {} THEN Unset
        ELSE Half(cs[CHOOSE k \in setters : \A j \in setters : j <= k].val, f)
RequiredMajor(cs) == HalfSet(cs, "Major")
RequiredMinor(cs) == HalfSet(cs, "Minor")

\* The requirement as a relation: each mfxConfig is met on its own, what it
\* asks of a decoder by one codec, profile, memory type and format together;
\* the version by its two halves; the functions all together.
OneDecoderHas(d, v) ==
    \E c \in d.Dec : \E q \in c.Profiles : \E m \in q.MemDesc : \E f \in m.ColorFormats :
        /\ Same(c.CodecID, Get(v, <<"Dec", "CodecID">>))
        /\ Same(c.MaxcodecLevel, Get(v, <<"Dec", "MaxcodecLevel">>))
        /\ Same(q.Profile, Get(v, <<"Dec", "Profile">>))
        /\ Same(m.MemHandleType, Get(v, <<"Dec", "MemHandleType">>))
        /\ Same(f, Get(v, <<"Dec", "ColorFormat">>))
        /\ Within(m.Width, Get(v, <<"Dec", "Width">>)) /\ Within(m.Height, Get(v, <<"Dec", "Height">>))
Required(d, cs) ==
    /\ \A k \in DOMAIN cs :
         LET v == cs[k].val
         IN  /\ CheckPropsGeneral(v, d)
             /\ "ExtDev" \in Asked(v) => d.ext # None /\ CheckPropsExtDevID(v, d.ext)
             /\ "Surface" \in Asked(v) => CheckPropsSurface(v, d)
             /\ d.type # "msdk" =>
                  /\ "Dec" \in Asked(v) => OneDecoderHas(d, v)
                  /\ "Enc" \in Asked(v) => CheckPropsEnc(v, d)
                  /\ "VPP" \in Asked(v) => CheckPropsVPP(v, d)
             /\ Get(v, <<"Func", "FunctionName">>) # Unset =>
                  d.funcs # None /\ Get(v, <<"Func", "FunctionName">>) \in d.funcs
    /\ RequiredMajor(cs) # Unset /\ RequiredMinor(cs) # Unset =>
         d.ApiVersion >= Minors * RequiredMajor(cs) + RequiredMinor(cs)

\* Filters set in several mfxConfig objects, in any order and with failed calls
\* between them, select exactly the implementations that meet each object on
\* its own: no property leaks from one object into the test of another.
ConfigsAreIndependent ==
    TypeOK /\ \A d \in Impl : ValidateConfig(d, configs, special).ok <=> Required(d, configs)

\* Low latency sessions never validate, so what CheckLowLatencyConfig hands on
\* must be what ValidateConfig would: unless the last call failed, validating
\* changes the version at most.
ModesShareSpecial ==
    [][needUpdate /\ ~needUpdate' /\ ret = "NONE" =>
           special' = [special EXCEPT !.ApiVersion = special'.ApiVersion]]_vars

\* The extension buffers that a session is created with are those of the
\* mfxConfig objects, one each in order, and none is a copy that has moved.
BuffersOf(cs, buffers) ==
    LET setters == {k \in DOMAIN cs : <<"Special", "ExtBuffer">> \in DOMAIN cs[k].val}
    IN  /\ Len(buffers) = Cardinality(setters)
        /\ \A k \in setters :
             buffers[Cardinality({j \in setters : j <= k})] = [config |-> k, gen |-> cs[k].gen]
ExtBuffersLive == ret = "NONE" => BuffersOf(configs, special.ExtBuffers)

\* The two modes agree where no property is set in two objects: when low latency
\* mode is entered, the GPU runtime it loads would pass the full validation as
\* far as it has the version and the acceleration mode that were asked for;
\* unless the last call failed, which changes an object and leaves the mode on.
LowLatencySkipsNoFilter ==
    lowLatency /\ ret = "NONE"
    /\ (\A j, k \in DOMAIN configs : j # k => DOMAIN configs[j].val \cap DOMAIN configs[k].val = {}) =>
        \A d \in Impl :
            /\ d.Impl = "HW" /\ d.ImplName = "mfx-gen" /\ d.VendorID = "Intel"
            /\ special.AccelerationMode \in d.modes
            /\ special.ApiVersion # Unset => d.ApiVersion >= special.ApiVersion
            => ValidateConfig(d, configs, special).ok
=============================================================================
