---------------------------- MODULE StringParam ----------------------------
(***************************************************************************)
(* mfxConfigInterface::SetParameter: the dispatcher writes one field of    *)
(* an mfxVideoParam, or of an extension buffer attached to it, from a key  *)
(* and a text, or names the buffer that the application has to attach      *)
(* first.  The application is the one of the programming guide, which      *)
(* attaches the buffer whose header it was given, and may do in between    *)
(* what C code does with the structure.                                    *)
(*                                                                         *)
(* A text is what the conversions look at: its length, the characters of   *)
(* a text of four as a number, and its comma separated parts, each with a  *)
(* sign ("inner" is a minus after the number) and the number it starts     *)
(* with.  A field has a conversion, a type it is stored as, a width and,   *)
(* for an array, a size.                                                   *)
(***************************************************************************)
EXTENDS Integers, Sequences, FiniteSets, FiniteSetsExt, TLC

CONSTANTS
    Keys,          \* [length, type (NoType: no prefix), field]
    Texts,         \* [length, code, parts], a part being [sign, n]
    MaxLength,     \* MAX_PARAM_STRING_LENGTH
    ByteBits,      \* bits of a byte: 8, fewer where TLC counts
    MaxBuffers,    \* bound: entries of the array of extension buffers
    NoType, NoDigits

ASSUME BoundAssumption == {MaxLength, ByteBits, MaxBuffers} \subseteq Nat \ {0}
ASSUME TextAssumption == \A x \in Texts : \A i \in DOMAIN x.parts : x.parts[i].n \in Nat \cup {NoDigits}

VARIABLES
    video,    \* the fields of the mfxVideoParam, each a sequence of its elements
    bufs,     \* ExtParam: [type, value], or a null entry (type NoType)
    out       \* the type whose header the application's ext_buffer holds

vars == <<video, bufs, out>>

(***************************************************************************)
(* The fields.  Fields of one kind in one structure are treated alike, so  *)
(* one stands for all of them; NumExtParam is one of its own.              *)
(***************************************************************************)
Scalar(conv, bytes) ==
    [conv |-> conv, stored |-> conv, bytes |-> bytes, size |-> 1, array |-> FALSE, name |-> "any"]
Array(f, size) == [f EXCEPT !.size = size, !.array = TRUE]
U8 == Scalar("unsigned", 1)
U16 == Scalar("unsigned", 2)
U32 == Scalar("unsigned", 4)
U64 == Scalar("unsigned", 8)
I16 == Scalar("signed", 2)
I32 == Scalar("signed", 4)
F64 == Scalar("float", 8)
FourCC == Scalar("fourcc", 4)
String(bytes) == Scalar("string", bytes)
\* mfxU16 NumRefActiveP[8], ...BL0, ...BL1: written through a pointer to mfxI16
NumRefActive == [Array(I16, 8) EXCEPT !.stored = "unsigned"]
Count == [U16 EXCEPT !.name = "NumExtParam"]

VideoFields == {Count, U16, U32, U64, FourCC, Array(U8, 4)}

Each(types, fields) == [t \in types |-> fields]

\* the fields of each buffer, in the order of the source
FieldsFrom587 ==
    Each({"VPPFrameRateConversion", "VPPImageStab"}, {U16}) @@
    [HEVCParam |-> {U16, U64}, CodingOption2 |-> {U8, U16, U32, I16}, CodingOption |-> {U16, I16},
     CodingOption3 |-> {U16, U32, Array(I16, 8), NumRefActive}, VPPDoNotUse |-> {U32},
     MasteringDisplayColourVolume |-> {U16, U32, Array(U16, 3)}]
FieldsFrom744 ==
    Each({"ContentLightLevelInfo", "VPPComposite", "VPPVideoSignalInfo", "VPPDeinterlacing",
          "VPPFieldProcessing", "ChromaLocInfo", "HEVCTiles", "VPPRotation", "VPPScaling", "VPPMirroring",
          "VPPColorFill", "ColorConversion"}, {U16}) @@
    [AvcTemporalLayers |-> {U16, Array(U16, 8)}, AVCRefLists |-> {U16, Array(U16, 32), Array(U32, 32)},
     DecVideoProcessing |-> {U16, FourCC}, VP9Segmentation |-> {U16, U32, Array(U16, 8), Array(I16, 8)},
     VP9TemporalLayers |-> {Array(U16, 8)}]
FieldsFrom892 ==
    Each({"AV1TileParam", "AVCRoundingOffset", "EncodedSlicesInfo", "InCrops", "InsertHeaders",
          "MVOverPicBoundaries"}, {U16}) @@
    [AV1FilmGrainParam |-> {U8, U16} \cup {Array(U8, n) : n \in {10, 14, 24, 25}},
     AV1ResolutionParam |-> {U32}, AV1Segmentation |-> {U8, U16, U32, Array(U16, 8), Array(I16, 8)},
     AVCEncodedFrameInfo |-> {U16, U32, Array(U16, 32), Array(U32, 32)},
     AVCRefListCtrl |-> {U16} \cup {Array(f, n) : f \in {U16, U32}, n \in {16, 32}},
     HEVCRegion |-> {U16, U32}, VP9Param |-> {U16, I16}]
FieldsFrom1049 ==
    Each({"TimeCode", "CodingOptionSPSPPS", "CodingOptionVPS", "VideoSignalInfo", "VppMctf", "TemporalLayers",
          "EncodedUnitsInfo", "AV1BitstreamParam", "DecodedFrameInfo"}, {U16}) @@
    Each({"MBQP", "VppAuxData", "PartialBitstreamParam"}, {U16, U32}) @@
    Each({"DecodeErrorReport", "EncoderCapability"}, {U32}) @@
    [PredWeightTable |-> {U16, Array(U16, 64), Array(I16, 384)},
     EncoderROI |-> {U16, Array(U32, 256), Array(I16, 256)}, DeviceAffinityMask |-> {U32, String(128)}]
FieldsFrom1185 ==
    Each({"EncoderIPCMArea", "EncoderResetOption", "VPPDenoise", "VPPDetail"}, {U16}) @@
    Each({"MBDisableSkipMap", "MBForceIntra", "VPPDoUse"}, {U32}) @@
    Each({"DirtyRect", "MoveRect"}, {U16, Array(U32, 256)}) @@
    [VPPProcAmp |-> {F64}, ThreadsParam |-> {U16, I32}, HyperModeParam |-> {I32}, VPPDenoise2 |-> {U16, I32},
     VPP3DLut |-> {I32, Array(I32, 3), Array(U32, 3)}, PictureTimingSEI |-> {Array(U16, 3), Array(U32, 3)}]

UpdateSingleExtBuf ==
    FieldsFrom587 @@ FieldsFrom744 @@ FieldsFrom892 @@ FieldsFrom1049 @@ FieldsFrom1185

\* two types of the table have no case in SetExtBufParam.  HEVCRegion stands for the
\* number it is registered and dispatched under, MFX_HEVC_REGION_SLICE, which is 0 and
\* not the id of mfxExtHEVCRegion: no real buffer has the header handed out for it
extBufTypeTab == DOMAIN UpdateSingleExtBuf \cup {"VPPAISuperResolution", "VPPAIFrameInterpolation"}

BufferFields(t) == IF t \in DOMAIN UpdateSingleExtBuf THEN UpdateSingleExtBuf[t] ELSE {}

NullEntry == [type |-> NoType, value |-> <<>>]
Zero(fields) == [f \in fields |-> [i \in 1 .. f.size |-> 0]]
NewBuffer(t) == [type |-> t, value |-> Zero(BufferFields(t))]
NumExtParam(v) == v[Count][1]

(***************************************************************************)
(* The conversions.                                                        *)
(***************************************************************************)
Bits(f) == f.bytes * ByteBits
Number(p) == IF p.sign = "minus" THEN -p.n ELSE p.n

\* mutant: no test of the range of an unsigned field
AcceptsWide(f, p) ==
    /\ p.n # NoDigits
    /\ f.conv \in {"unsigned", "fourcc"} => p.sign \notin {"minus", "inner"} /\ p.n < 2 ^ (8 * ByteBits)
    /\ f.conv = "signed" => Number(p) \in -(2 ^ (Bits(f) - 1)) .. 2 ^ (Bits(f) - 1) - 1
    /\ f.conv = "float" => p.n < 2 ^ Bits(f)

\* what str_to_value accepts: stoull wraps a minus, so a minus anywhere is refused
Accepts(f, p) ==
    /\ p.n # NoDigits
    /\ f.conv \in {"unsigned", "fourcc"} => p.sign \notin {"minus", "inner"} /\ p.n < 2 ^ (8 * ByteBits)
    /\ f.conv = "unsigned" => p.n < 2 ^ Bits(f)
    /\ f.conv = "signed" => Number(p) \in -(2 ^ (Bits(f) - 1)) .. 2 ^ (Bits(f) - 1) - 1
    /\ f.conv = "float" => p.n < 2 ^ Bits(f)

\* mutant: every number is converted as an unsigned one
ValueUnsigned(f, p) == p.n % 2 ^ Bits(f)

\* a FourCC given as a number is truncated, and what is stored as another type than it
\* was converted to is reinterpreted
Wraps(f) == f.conv = "fourcc" \/ f.stored # f.conv
Value(f, p) == IF Wraps(f) THEN Number(p) % 2 ^ Bits(f) ELSE Number(p)

\* a scalar field is given the whole text: the first number, and every minus in it
Whole(x) ==
    LET minus == \E i \in 2 .. Len(x.parts) : x.parts[i].sign \in {"minus", "inner"}
    IN  IF x.parts = <<>> THEN [sign |-> "none", n |-> NoDigits]
        ELSE IF minus /\ x.parts[1].sign # "minus" THEN [x.parts[1] EXCEPT !.sign = "inner"]
        ELSE x.parts[1]

StrToValue(f, old, x) ==
    IF Accepts(f, Whole(x)) THEN [status |-> "NONE", value |-> <<Value(f, Whole(x))>>]
    ELSE [status |-> "UNSUPPORTED", value |-> old]

\* four characters are the code itself, blanks included
ConvertStrToFourCC(f, old, x) ==
    IF x.length = 4 THEN [status |-> "NONE", value |-> <<x.code>>] ELSE StrToValue(f, old, x)

\* elements are written as they are read, up to the first that is refused
ConvertStrToArray(f, old, x) ==
    LET stops == {i \in DOMAIN x.parts : i > f.size \/ ~Accepts(f, x.parts[i])}
        stop == Min(stops \cup {Len(x.parts) + 1})
    IN  [status |-> IF stop \in DOMAIN x.parts
                    THEN IF stop > f.size THEN "TOO_MANY" ELSE "UNSUPPORTED"
                    ELSE IF Len(x.parts) = f.size THEN "NONE" ELSE "TOO_FEW",
         value |-> [i \in 1 .. f.size |-> IF i < stop THEN Value(f, x.parts[i]) ELSE old[i]]]

\* as many characters as there is room for, and a null
ConvertStrToStr(f, x) == [status |-> "NONE", value |-> <<Min({x.length, f.bytes - 1})>>]

Convert(f, old, x) ==
    IF f.conv = "string" THEN ConvertStrToStr(f, x)
    ELSE IF f.array THEN ConvertStrToArray(f, old, x)
    ELSE IF f.conv = "fourcc" THEN ConvertStrToFourCC(f, old, x)
    ELSE StrToValue(f, old, x)

(***************************************************************************)
(* The call, on a structure v with the entries b: the status, the          *)
(* structure and entries it leaves, and the header it hands out.           *)
(***************************************************************************)
ValidateKVPair(key, x) == key.length \in 1 .. MaxLength - 1 /\ x.length \in 1 .. MaxLength - 1

Answer(s, v, b) == [status |-> s, video |-> v, bufs |-> b, out |-> NoType]
MoreExtBuffer(t, v, b) == [Answer("MORE_EXTBUFFER", v, b) EXCEPT !.out = t]

UpdateVideoParam(v, b, key, x) ==
    IF key.field \notin VideoFields THEN Answer("NOT_FOUND", v, b)
    ELSE LET r == Convert(key.field, v[key.field], x)
         IN  Answer(r.status, [v EXCEPT ![key.field] = r.value], b)

\* the fields of entry i; a type of the table may have no case
SetExtBufParam(i, v, b, key, x) ==
    IF key.type \notin DOMAIN UpdateSingleExtBuf THEN Answer("NOT_FOUND", v, b)
    ELSE IF key.field \notin UpdateSingleExtBuf[key.type] THEN Answer("INVALID_VIDEO_PARAM", v, b)
    ELSE LET r == Convert(key.field, b[i].value[key.field], x)
         IN  Answer(r.status, v, [b EXCEPT ![i].value[key.field] = r.value])

\* mutant: the last entry is not looked at
EndsShort(v, b, t) == {i \in 1 .. NumExtParam(v) - 1 : b[i].type \in {t, NoType}}

\* the entries that end the walk: a null one, or a buffer of the type
Ends(v, b, t) == {i \in 1 .. NumExtParam(v) : b[i].type \in {t, NoType}}

UpdateExtBufParam(v, b, key, x) ==
    IF key.type \notin extBufTypeTab THEN Answer("NOT_FOUND", v, b)
    ELSE IF NumExtParam(v) = 0 THEN MoreExtBuffer(key.type, v, b)
    ELSE IF b = <<>> THEN Answer("NULL_PTR", v, b)
    ELSE LET ends == Ends(v, b, key.type)
         IN  IF ends = {} THEN MoreExtBuffer(key.type, v, b)
             ELSE IF b[Min(ends)].type = NoType THEN Answer("NULL_PTR", v, b)
             ELSE SetExtBufParam(Min(ends), v, b, key, x)

SetParameter(v, b, key, x) ==
    IF ~ValidateKVPair(key, x) THEN Answer("INVALID_VIDEO_PARAM", v, b)
    ELSE IF key.type = NoType THEN UpdateVideoParam(v, b, key, x)
    ELSE UpdateExtBufParam(v, b, key, x)

(***************************************************************************)
(* The application.  Calls with a null argument, or for a structure of     *)
(* another type, return before anything, the header included, is changed.  *)
(***************************************************************************)

\* NumExtParam may be set by name, but not to more entries than there are when a
\* buffer is looked for (a null array is noticed)
MayPass(key, b) == key.type # NoType => b = <<>> \/ NumExtParam(video) <= Len(b)

ExtSetParameter ==
    \E key \in Keys, x \in Texts :
        /\ MayPass(key, bufs)
        /\ \E r \in {SetParameter(video, bufs, key, x)} :
              video' = r.video /\ bufs' = r.bufs /\ out' = r.out

Grown(v, b) == [v EXCEPT ![Count] = <<Len(b) + 1>>]

\* a buffer of the size and with the header that was handed out
Attach ==
    /\ out # NoType /\ Len(bufs) < MaxBuffers
    /\ bufs' = Append(bufs, NewBuffer(out)) /\ video' = Grown(video, bufs)
    /\ UNCHANGED out

\* room for a buffer that is made later, and that buffer
Reserve ==
    /\ Len(bufs) < MaxBuffers
    /\ bufs' = Append(bufs, NullEntry) /\ video' = Grown(video, bufs)
    /\ UNCHANGED out
Fill ==
    /\ \E i \in DOMAIN bufs, t \in {k.type : k \in Keys} \cap extBufTypeTab :
           bufs[i].type = NoType /\ bufs' = [bufs EXCEPT ![i] = NewBuffer(t)]
    /\ UNCHANGED <<video, out>>

\* the array is given up, its count cleared or left as it is
Detach ==
    /\ bufs # <<>> /\ bufs' = <<>>
    /\ video' \in {video, [video EXCEPT ![Count] = <<0>>]}
    /\ UNCHANGED out

Init == video = Zero(VideoFields) /\ bufs = <<>> /\ out = NoType

Next == ExtSetParameter \/ Attach \/ Reserve \/ Fill \/ Detach

Spec == Init /\ [][Next]_vars

(***************************************************************************)
(* Properties: of every call in every state.                               *)
(***************************************************************************)
High(f) == CASE f.stored = "signed" -> 2 ^ (Bits(f) - 1) - 1
             [] f.stored = "string" -> f.bytes - 1
             [] OTHER -> 2 ^ Bits(f) - 1
Low(f) == CASE f.stored = "signed" -> -(2 ^ (Bits(f) - 1))
            [] f.stored = "float" -> -High(f)
            [] OTHER -> 0
Holds(fields, values) ==
    /\ DOMAIN values = fields
    /\ \A f \in fields :
           /\ Len(values[f]) = f.size
           /\ \A i \in DOMAIN values[f] : values[f][i] \in Low(f) .. High(f)

\* Every element of every field is a value of the type it is stored as: the tests of
\* the range leave nothing that the field has no room for.
TypeOK ==
    /\ Holds(VideoFields, video)
    /\ \A i \in DOMAIN bufs : bufs[i] = NullEntry \/ Holds(BufferFields(bufs[i].type), bufs[i].value)
    /\ out \in extBufTypeTab \cup {NoType}

\* The buffer that is asked for is the one the key needs: once it is attached the same
\* call is not answered by asking again, whatever other buffers, null entries and
\* counts set from a text are in the structure (VPL_prg_config.rst:59), and the
\* application's ext_buffer names it exactly then (mfxvideo.h:232).
AttachSuffices ==
    \A key \in {k \in Keys : MayPass(k, bufs)}, x \in Texts :
        LET r == SetParameter(video, bufs, key, x)
            again == SetParameter(Grown(video, bufs), Append(bufs, NewBuffer(r.out)), key, x)
        IN  /\ (r.status = "MORE_EXTBUFFER") = (r.out # NoType)
            /\ r.status = "MORE_EXTBUFFER" => again.status # "MORE_EXTBUFFER"

\* the first buffer of a type
FirstOf(b, t) == Min({i \in DOMAIN b : b[i].type = t})

\* What a field holds of a text.  A number is stored as it is, but a FourCC and a field
\* of another type than its conversion hold it modulo 2^Bits: "-1" makes NumRefActiveP
\* 65535.  Four characters are a FourCC themselves.  Of a string as many characters are
\* stored as there is room for, and of a text longer than a scalar its first number.
Represents(f, v, n) == IF Wraps(f) THEN (v - n) % 2 ^ Bits(f) = 0 ELSE v = n
Tells(f, value, x) ==
    CASE f.conv = "string" -> value = <<IF x.length < f.bytes THEN x.length ELSE f.bytes - 1>>
      [] f.conv = "fourcc" /\ x.length = 4 -> value = <<x.code>>
      [] OTHER -> /\ f.array => Len(x.parts) = f.size
                  /\ \A i \in 1 .. f.size : Represents(f, value[i], Number(x.parts[i]))

\* the state of every field, those of a buffer by its entry
Fields(v, b) == [e \in 0 .. Len(b) |-> IF e = 0 THEN v ELSE b[e].value]

\* A call that returns MFX_ERR_NONE has stored what the text says in the field that the
\* key names, in mfxVideoParam or in the first buffer of the type: none of its numbers is
\* out of place, none but those that Tells excepts is narrowed, and no other buffer is
\* taken for it.  No call changes another field, and one that fails changes none but an
\* array, of which it may have written a part (against mfxvideo.h:228, which has the
\* structure updated if and only if the call succeeds).
StoresWhatIsWritten ==
    \A key \in {k \in Keys : MayPass(k, bufs)}, x \in Texts :
        LET r == SetParameter(video, bufs, key, x)
            value == IF key.type = NoType THEN r.video ELSE r.bufs[FirstOf(bufs, key.type)].value
            old == Fields(video, bufs)
            new == Fields(r.video, r.bufs)
            changed == {ef \in UNION {{e} \X DOMAIN old[e] : e \in DOMAIN old} :
                           old[ef[1]][ef[2]] # new[ef[1]][ef[2]]}
        IN  /\ r.status = "NONE" => Tells(key.field, value[key.field], x)
            /\ Cardinality(changed) <= 1
            /\ \A ef \in changed :
                  /\ ef[2] = key.field /\ (ef[1] = 0) = (key.type = NoType)
                  /\ r.status = "NONE" \/ key.field.array
=============================================================================
