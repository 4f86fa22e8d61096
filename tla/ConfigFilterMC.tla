-------------------------- MODULE ConfigFilterMC --------------------------
(***************************************************************************)
(* Descriptions of three runtimes and calls of an application, for TLC.    *)
(***************************************************************************)
EXTENDS ConfigFilter, TLC

Set(name, type, data) == [name |-> name, type |-> type, query |-> FALSE, data |-> data]
Query(name, type, data) == [name |-> name, type |-> type, query |-> TRUE, data |-> data]
Main(f) == <<"mfxImplDescription", f>>
DecCodecID == <<"mfxImplDescription", "mfxDecoderDescription", "decoder", "CodecID">>
DecMem(f) == <<"mfxImplDescription", "mfxDecoderDescription", "decoder", "decprofile", "decmemdesc", f>>

Sizes(min, max) == [Min |-> min, Max |-> max, Step |-> 16]
Mem(type, max, formats) ==
    [MemHandleType |-> type, Width |-> Sizes(16, max), Height |-> Sizes(16, max), ColorFormats |-> formats]
Codec(id, mems) ==
    [CodecID |-> id, MaxcodecLevel |-> 5, Profiles |-> {[Profile |-> "main", MemDesc |-> mems]}]
Device(node) ==
    [VendorID |-> 32902, DeviceID |-> 22176, PCIDomain |-> 0, PCIBus |-> 0, PCIDevice |-> 2,
     PCIFunction |-> 0, DeviceLUID |-> "none", LUIDDeviceNodeMask |-> 0, DRMRenderNodeNum |-> node,
     DRMPrimaryNodeNum |-> node - 128, RevisionID |-> 1, DeviceName |-> "GPU", LUIDValid |-> FALSE]

Runtime ==
    [VendorImplID |-> 0, version |-> 12, policies |-> {}, License |-> {"MIT"}, Keywords |-> {},
     DeviceID |-> 22176, DeviceIDStr |-> "56a0/0", devVersion |-> 11, MediaAdapterType |-> 2,
     Enc |-> {}, VPP |-> {}, surf |-> None, adapterIdx |-> 0, VendorID |-> "Intel"]
Runtimes ==
    {Runtime @@ [Impl |-> "HW", ImplName |-> "mfx-gen", modes |-> {"VAAPI"}, AccelerationMode |-> "VAAPI",
                 ApiVersion |-> 2 * 65536 + 9, type |-> "vpl", ext |-> Device(128),
                 funcs |-> {"MFXMemory_GetSurfaceForVPP"},
                 Dec |-> {Codec("HEVC", {Mem("VA", 4096, {"NV12"}), Mem("SYSTEM", 64, {"I420"})}),
                          Codec("AVC", {Mem("SYSTEM", 64, {"NV12"})}), Codec("VP9", {})}],
     Runtime @@ [Impl |-> "SW", ImplName |-> "cpu", modes |-> {}, AccelerationMode |-> "NA",
                 ApiVersion |-> 2 * 65536 + 5, type |-> "vpl", ext |-> None, funcs |-> None,
                 Dec |-> {Codec("AVC", {Mem("SYSTEM", 64, {"NV12"})})}],
     Runtime @@ [Impl |-> "HW", ImplName |-> "mfxhw64", modes |-> {"VAAPI"}, AccelerationMode |-> "VAAPI",
                 ApiVersion |-> 65536 + 35, type |-> "msdk", ext |-> Device(129), funcs |-> None,
                 Dec |-> {}]}

\* The four filters of low latency mode, two of them in each object; capabilities
\* whose combinations the GPU runtime has or has not; a version and half of one;
\* extension buffers of two sizes; calls that fail and have changed the object.
Capabilities(codec) ==
    {Set(DecCodecID, "U32", codec), Set(DecMem("MemHandleType"), "U32", "VA"),
     Set(<<"ExtBuffer">>, "PTR", [size |-> 1])}
Calls ==
    <<Capabilities("AVC") \cup
      {Set(Main("Impl"), "U32", "HW"), Set(Main("ImplName"), "PTR", "mfx-gen"),
       Set(Main("ApiVersion") \o <<"Version">>, "U32", 2 * 65536 + 6),
       Set(<<"ExtBuffer">>, "PTR", [size |-> 2]), Query(DecCodecID, "U16", 5)},
      Capabilities("VP9") \cup
      {Set(Main("VendorID"), "U32", "Intel"), Set(Main("AccelerationMode"), "U32", "VAAPI"),
       Set(Main("ApiVersion") \o <<"Minor">>, "U16", 5), Set(Main("ImplName"), "PTR", Null),
       Set(<<"ExtBuffer">>, "PTR", Null)}>>
=============================================================================
