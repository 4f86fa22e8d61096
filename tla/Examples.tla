------------------------------ MODULE Examples ------------------------------
(***************************************************************************)
(* The example programs: each is a loop around the asynchronous functions  *)
(* of a runtime, which runs concurrently.  A program is a row of the table *)
(* Program; the actions interpret the row.  The runtime is external: it    *)
(* takes frames, delays some of them, keeps the last as a reference, and   *)
(* completes one task at a time.                                           *)
(***************************************************************************)
EXTENDS Integers, Sequences, FiniteSets, SequencesExt

CONSTANTS
    Programs,    \* the programs that run, by name
    NFrames,     \* frames of the input
    Start,       \* where each of them starts in an encoded stream, and where the last ends
    Trailing,    \* what follows the last of them: a partial start code
    BufferSize,  \* BITSTREAM_BUFFER_SIZE
    Surfaces,    \* surfaces that the runtime suggests on each side (NumFrameSuggested)
    Delay,       \* frames a component keeps before its first output
    MaxBusy,     \* bound on the calls refused before the runtime does its work again
    MaxTimeouts, \* MAX_TIMEOUT_COUNT
    Faults,      \* what may fail: a subset of AnyFault
    None

\* what the functions of each component return besides their work: mfxvideo.h
\* and the comments of the loops; ERROR stands for any other status
MayRefuse ==
    [decode |-> {"BUSY", "LOST", "ERROR", "MORE_SURFACE", "VIDEO_PARAM_CHANGED", "INCOMPATIBLE_VIDEO_PARAM",
                 "REALLOC_SURFACE"},
     encode |-> {"BUSY", "LOST", "ERROR", "NOT_ENOUGH_BUFFER"},
     vpp |-> {"BUSY", "LOST", "ERROR", "MORE_SURFACE"}]
Refusal == UNION {MayRefuse[c] : c \in {"decode", "encode", "vpp"}}
AnyFault == {"SETUP", "SURFACE", "READ", "WRITE", "SYNC", "TIMEOUT"} \cup Refusal
Frame == 1..NFrames

ASSUME ExamplesAssumption ==
    /\ NFrames \in Nat \ {0} /\ BufferSize \in Nat \ {0} /\ Trailing \in 0..1
    /\ Start \in [1..NFrames + 1 -> Nat] /\ Start[1] = 0
    /\ \A f, g \in 1..NFrames + 1 : f < g => Start[f] < Start[g]
    /\ Delay \in [{"decode", "encode", "vpp"} -> Nat] /\ Delay["vpp"] = 0
    /\ Surfaces \in Nat /\ Surfaces >= Delay["decode"] + Delay["encode"] + 2
    /\ MaxBusy \in Nat /\ MaxTimeouts \in Nat /\ None \notin Nat
    /\ Faults \subseteq AnyFault

VARIABLES
    prog,        \* the program that runs
    ctl,         \* its control: where it is, isDraining, isFailed, the last status
    held,        \* what it has opened, allocated or initialised
    input,       \* the source: position in the file, frames decoded, the bitstream
    surf,        \* surfaces: references of the program, contents, the ones in use
    rt,          \* the runtime: frames kept, references, the running task, what it only answers
    unhandled,   \* the runtime gave an answer that the program does not handle
    out          \* the sink: frames written

vars == <<prog, ctl, held, input, surf, rt, unhandled, out>>

-----------------------------------------------------------------------------
(* The programs.  stages: the components a frame passes.  reads: an        *)
(* encoded stream or raw frames.  surfaces: allocated by the runtime, by   *)
(* the program (pool) or imported.  release: when an input surface is      *)
(* given back.  waits: what follows when Synchronize reports an error      *)
(* (drop the frame, or end) or a timeout (once: end).  goesOn: the answers *)
(* without output after which the loop goes round again, draining or not;  *)
(* the others end it.  verify: VERIFY jumps to the clean up, or exits.     *)

DecodeLoop ==
    {"BUSY", "LOST", "MORE_SURFACE", "VIDEO_PARAM_CHANGED", "INCOMPATIBLE_VIDEO_PARAM", "REALLOC_SURFACE"}
EncodeLoop == {"BUSY", "LOST", "NOT_ENOUGH_BUFFER"}
VPPLoop == {"BUSY", "LOST", "MORE_SURFACE"}

HelloDecode ==
    [stages |-> <<"decode">>, reads |-> "stream", surfaces |-> "internal", release |-> "sync",
     waits |-> "drop", goesOn |-> DecodeLoop, verify |-> "end",
     setup |-> <<"source", "sink", "loader", "config", "session", "bitstream", "header", "codec">>,
     cleanup |-> <<"source", "sink", "codec", "session", "bitstream", "loader">>]

HelloDecVPP ==
    [HelloDecode EXCEPT
        !.waits = "end",
        !.setup = <<"source", "sink", "loader", "config", "session", "bitstream", "header", "params", "codec">>,
        !.cleanup = <<"codec", "session", "params", "source", "sink", "bitstream", "loader">>]

LegacyDecode ==
    [HelloDecode EXCEPT
        !.surfaces = "pool",
        !.setup = <<"source", "sink", "loader", "config", "session", "accel", "bitstream", "header",
                    "codec", "surfaces">>,
        !.cleanup = <<"codec", "session", "bitstream", "surfaces", "source", "sink", "accel", "loader">>]

SharingVAAPIExport ==
    [HelloDecode EXCEPT
        !.verify = "exit",
        !.setup = <<"source", "sink", "loader", "config", "session", "bitstream", "header", "device", "codec">>,
        !.cleanup = <<"source", "sink", "codec", "session", "loader", "device", "bitstream">>]
SharingDX11Export == SharingVAAPIExport
SharingOCLExport ==
    [SharingVAAPIExport EXCEPT
        !.setup = <<"source", "sink", "loader", "config", "session", "bitstream", "header", "device",
                    "context", "codec">>,
        !.cleanup = <<"source", "sink", "codec", "session", "loader", "context", "device", "bitstream">>]

HelloEncode ==
    [stages |-> <<"encode">>, reads |-> "frames", surfaces |-> "internal", release |-> "submit",
     waits |-> "drop", goesOn |-> EncodeLoop, verify |-> "end",
     setup |-> <<"source", "sink", "loader", "config", "session", "query", "codec", "output">>,
     cleanup |-> <<"source", "sink", "codec", "session", "output", "loader">>]
HelloEncodeJPEG == HelloEncode

\* mutant: the surfaces are freed before the encoder is closed
LegacyEncodeSurfacesFirst ==
    [HelloEncode EXCEPT
        !.surfaces = "pool", !.waits = "end",
        !.setup = <<"source", "sink", "loader", "config", "session", "accel", "query", "codec", "output", "surfaces">>,
        !.cleanup = <<"surfaces", "codec", "session", "output", "source", "sink", "accel", "loader">>]

LegacyEncode ==
    [HelloEncode EXCEPT
        !.surfaces = "pool", !.waits = "end",
        !.setup = <<"source", "sink", "loader", "config", "session", "accel", "query", "codec", "output", "surfaces">>,
        !.cleanup = <<"codec", "session", "output", "surfaces", "source", "sink", "accel", "loader">>]

SharingDX11Import ==
    [HelloEncode EXCEPT
        !.surfaces = "imported", !.verify = "exit",
        !.setup = <<"source", "sink", "loader", "config", "session", "device", "codec", "output", "interface">>,
        !.cleanup = <<"source", "sink", "codec", "session", "output", "loader", "device">>]
SharingOCLImport ==
    [SharingDX11Import EXCEPT
        !.setup = <<"source", "sink", "loader", "config", "session", "device", "context", "codec", "output",
                    "interface">>,
        !.cleanup = <<"source", "sink", "codec", "session", "output", "loader", "context", "device">>]
SharingVAAPIImport ==
    [SharingDX11Import EXCEPT
        !.release = "sync",
        !.cleanup = <<"source", "sink", "codec", "session", "output", "loader", "device", "imported">>]

HelloVPP ==
    [HelloEncode EXCEPT
        !.stages = <<"vpp">>, !.goesOn = VPPLoop,
        !.setup = <<"source", "sink", "loader", "config", "session", "codec">>,
        !.cleanup = <<"source", "sink", "codec", "session", "loader">>]

LegacyVPP ==
    [HelloVPP EXCEPT
        !.surfaces = "pool", !.waits = "once",
        !.setup = <<"source", "sink", "loader", "config", "session", "accel", "codec", "query", "surfaces">>,
        !.cleanup = <<"codec", "session", "surfaces", "source", "sink", "accel", "loader">>]

HelloTranscode ==
    [HelloDecode EXCEPT
        !.stages = <<"decode", "encode">>, !.release = "submit", !.waits = "once", !.goesOn = {},
        !.setup = <<"source", "sink", "loader", "config", "session", "bitstream", "header", "codec",
                    "output", "query", "encoder">>,
        !.cleanup = <<"output", "bitstream", "source", "sink", "loader">>]

Program ==
    [hello_decode |-> HelloDecode, hello_decvpp |-> HelloDecVPP, legacy_decode |-> LegacyDecode,
     sharing_vaapi_export |-> SharingVAAPIExport, sharing_dx11_export |-> SharingDX11Export,
     sharing_ocl_export |-> SharingOCLExport, hello_encode |-> HelloEncode,
     hello_encode_jpeg |-> HelloEncodeJPEG, legacy_encode |-> LegacyEncode,
     sharing_vaapi_import |-> SharingVAAPIImport, sharing_dx11_import |-> SharingDX11Import,
     sharing_ocl_import |-> SharingOCLImport, hello_vpp |-> HelloVPP, legacy_vpp |-> LegacyVPP,
     hello_transcode |-> HelloTranscode]
ASSUME ProgramsAssumption == Programs \subseteq DOMAIN Program
P == Program[prog]

\* steps of the set up whose result is not tested
Unchecked == {"accel", "output"}
-----------------------------------------------------------------------------
(* Surfaces: 1..Surfaces on the side of the input, the others of the output *)

InSide == 1..Surfaces
OutSide == Surfaces + 1 .. 2 * Surfaces
Slot == InSide \cup OutSide
Stage == 1..Len(P.stages)

\* Data.Locked: the surfaces the runtime works on or keeps as references
Locked ==
    UNION {ToSet(rt.queue[s]) \cup rt.ref[s] : s \in Stage}
    \cup (IF rt.task = None THEN {} ELSE {rt.task.from, rt.task.to} \ {None})
Lowest(S) == IF S = {} THEN None ELSE CHOOSE i \in S : \A j \in S : i <= j

\* mutant: any surface of the pool, also one that is locked
GetAnySurfaceIndex(side) == Lowest(side)

\* None stands for MFX_ERR_NOT_FOUND, which the programs use as an index
GetFreeSurfaceIndex(side) == Lowest(side \ Locked)

GetSurface(side) == Lowest(side \ (Locked \cup surf.app))

-----------------------------------------------------------------------------
(* The source                                                              *)

StreamSize == Start[NFrames + 1] + Trailing

\* moves the rest to the front of the buffer and fills it up
ReadEncodedStream(i) ==
    LET b == i.bs
        rest == StreamSize - i.file
        n == IF BufferSize - b.length < rest THEN BufferSize - b.length ELSE rest
    IN  IF b.offset > BufferSize - 1 \/ b.length + b.offset > BufferSize
        THEN [sts |-> "NOT_ENOUGH_BUFFER", input |-> i]
        ELSE [sts |-> IF b.length + n = 0 THEN "MORE_DATA" ELSE "NONE",
              input |-> [i EXCEPT !.file = @ + n, !.bs = [offset |-> 0, length |-> b.length + n]]]

\* a frame that is not complete counts as none
ReadRawFrame(i) ==
    IF i.file = NFrames THEN [sts |-> "MORE_DATA", input |-> i]
    ELSE [sts |-> "NONE", input |-> [i EXCEPT !.file = @ + 1]]

-----------------------------------------------------------------------------
(* Control                                                                 *)

Goto(c, pc) == [c EXCEPT !.pc = pc]
CleanUp(c) == [c EXCEPT !.pc = "cleanup", !.step = 1]
Fail(c) == [CleanUp(c) EXCEPT !.failed = TRUE, !.pc = IF P.verify = "end" THEN @ ELSE "done"]
IsDraining == ctl.draining > 0
NullInput == ctl.draining >= ctl.stage
Component == P.stages[ctl.stage]

Init ==
    /\ prog \in Programs
    /\ ctl = [pc |-> "setup", step |-> 1, stage |-> 1, draining |-> 0, sts |-> "NONE",
              timeouts |-> 0, failed |-> FALSE]
    /\ held = {}
    /\ input = [file |-> 0, parsed |-> 0, bs |-> [offset |-> 0, length |-> 0]]
    /\ surf = [app |-> {}, content |-> [i \in Slot |-> 0], given |-> None, work |-> None]
    /\ rt = [queue |-> [s \in Stage |-> <<>>], ref |-> [s \in Stage |-> {}], task |-> None,
             busy |-> 0, refuses |-> None]
    /\ unhandled = FALSE
    /\ out = <<>>

-----------------------------------------------------------------------------
(* Set up                                                                  *)

SetupStep ==
    /\ ctl.pc = "setup"
    /\ LET step == P.setup[ctl.step]
           last == ctl.step = Len(P.setup)
       IN  /\ held' = held \cup {step}
           /\ IF step = "header" THEN input' = ReadEncodedStream(input).input ELSE UNCHANGED input
           /\ ctl' = IF last THEN Goto(ctl, "load") ELSE [ctl EXCEPT !.step = @ + 1]
           /\ surf' = IF last /\ prog = "legacy_decode"
                      THEN [surf EXCEPT !.work = GetFreeSurfaceIndex(OutSide)] ELSE surf
    /\ UNCHANGED <<prog, rt, unhandled, out>>

SetupFails ==
    /\ ctl.pc = "setup" /\ "SETUP" \in Faults
    /\ P.setup[ctl.step] \notin Unchecked
    /\ ctl' = Fail(ctl)
    /\ UNCHANGED <<prog, held, input, surf, rt, unhandled, out>>

-----------------------------------------------------------------------------
(* The loop: load, call the component, wait for its output                 *)

\* mutant: the end of the input is not noticed
DrainNever(c) == c

Drain(c) == [c EXCEPT !.draining = 1]

LoadNothing ==
    /\ ctl.pc = "load" /\ IsDraining
    /\ ctl' = [Goto(ctl, "call") EXCEPT !.stage = ctl.draining, !.timeouts = 0]
    /\ surf' = IF prog = "legacy_vpp" THEN [surf EXCEPT !.work = GetFreeSurfaceIndex(OutSide)] ELSE surf
    /\ UNCHANGED <<prog, held, input, rt, unhandled, out>>

\* draining starts whatever the reason why nothing was read
LoadStream ==
    /\ ctl.pc = "load" /\ ~IsDraining /\ P.reads = "stream"
    /\ LET r == ReadEncodedStream(input)
           c == [Goto(ctl, "call") EXCEPT !.stage = 1, !.timeouts = 0]
       IN  /\ input' = r.input
           /\ ctl' = IF r.sts = "NONE" THEN c ELSE Drain(c)
           /\ unhandled' = (unhandled \/ r.sts = "NOT_ENOUGH_BUFFER")
    /\ UNCHANGED <<prog, held, surf, rt, out>>

\* VPP has an output surface also if there is no input frame
OutputSurface(s) ==
    IF Component # "vpp" THEN s
    ELSE IF P.surfaces = "pool" THEN [s EXCEPT !.work = GetFreeSurfaceIndex(OutSide)]
    ELSE LET w == GetSurface(OutSide) IN [s EXCEPT !.work = w, !.app = @ \cup {w}]

\* a surface of the runtime is acquired before the frame is read into it, and
\* kept when there is none; an imported one is made of the frame
LoadFrame ==
    /\ ctl.pc = "load" /\ ~IsDraining /\ P.reads = "frames"
    /\ LET r == ReadRawFrame(input)
           in == IF P.surfaces = "pool" THEN GetFreeSurfaceIndex(InSide) ELSE GetSurface(InSide)
           acquired == P.surfaces = "internal" \/ (P.surfaces = "imported" /\ r.sts = "NONE")
           c == Goto(ctl, "call")
       IN  /\ acquired => in # None
           /\ input' = r.input
           /\ ctl' = IF r.sts = "NONE" THEN c ELSE Drain(c)
           /\ surf' = OutputSurface(
                [surf EXCEPT !.given = in,
                             !.app = IF acquired THEN @ \cup {in} ELSE @,
                             !.content = [i \in Slot |-> IF r.sts = "NONE" /\ i = in THEN r.input.file ELSE @[i]]])
           /\ surf'.work # None \/ prog # "hello_vpp"
    /\ UNCHANGED <<prog, held, rt, unhandled, out>>

\* the runtime has no surface for the program, or does not import one
LoadFails ==
    /\ ctl.pc = "load" /\ ~IsDraining /\ P.reads = "frames" /\ P.surfaces # "pool"
    /\ \/ "SURFACE" \in Faults \/ GetSurface(InSide) = None
       \/ (prog = "hello_vpp" /\ GetSurface(OutSide) = None)
    /\ ctl' = Fail(ctl)
    /\ UNCHANGED <<prog, held, input, surf, rt, unhandled, out>>

\* the surface cannot be mapped: hello-vpp ends, the others drain
ReadFails ==
    /\ ctl.pc = "load" /\ ~IsDraining /\ "READ" \in Faults
    /\ P.reads = "frames" /\ P.surfaces = "internal" /\ GetSurface(InSide) # None
    /\ surf' = [surf EXCEPT !.given = GetSurface(InSide), !.app = @ \cup {GetSurface(InSide)}]
    /\ ctl' = IF prog = "hello_vpp" THEN Fail(ctl) ELSE Drain(Goto(ctl, "call"))
    /\ unhandled' = (unhandled \/ prog # "hello_vpp")
    /\ UNCHANGED <<prog, held, input, rt, out>>

-----------------------------------------------------------------------------
(* What the runtime answers (external).  A call returns at once; the       *)
(* output it announces is there when the task is done.                     *)

Answer(s) == [ctl EXCEPT !.pc = "answer", !.sts = s]
Called == ctl.pc = "call" /\ rt.refuses = None

\* the call after slot has entered the queue q of the component
Emit(r, q, to) ==
    [r EXCEPT !.queue[ctl.stage] = Tail(q), !.ref[ctl.stage] = {Head(q)},
              !.task = [from |-> Head(q), to |-> to, frame |-> 0, done |-> FALSE]]
Keep(r, q) == [r EXCEPT !.queue[ctl.stage] = q]
Announces(q) == Len(q) > IF NullInput THEN 0 ELSE Delay[Component]

\* the decoder has taken what is before the bitstream; with n more from it,
\* it can decode its next frame
Consumed(n) == input.file - input.bs.length + n
CanDecode(n) == input.parsed < NFrames /\ Start[input.parsed + 2] <= Consumed(n)
Consume(n) == [input EXCEPT !.bs = [offset |-> @.offset + n, length |-> @.length - n]]
WorkSurface == IF P.surfaces = "pool" THEN surf.work ELSE GetSurface(OutSide)

\* "the function decodes until the buffer is consumed" (mfxvideo.h:703), or
\* until the frame is complete
RtDecode ==
    /\ Called /\ Component = "decode"
    /\ LET all == IF NullInput THEN 0 ELSE input.bs.length
           slot == WorkSurface
           q == Append(rt.queue[ctl.stage], slot)
       IN  /\ CanDecode(all)
           /\ slot # None /\ slot \notin Locked
           /\ \E n \in 0..all : /\ CanDecode(n) /\ (n \in {0, all} \/ ~CanDecode(n - 1))
                                /\ input' = [Consume(n) EXCEPT !.parsed = @ + 1]
           /\ surf' = [surf EXCEPT !.content[slot] = input.parsed + 1,
                                   !.app = IF Announces(q) /\ P.surfaces # "pool" THEN @ \cup {Head(q)} ELSE @]
           /\ IF Announces(q) THEN rt' = Emit(rt, q, Head(q)) /\ ctl' = Answer("NONE")
              ELSE /\ rt' = Keep(rt, q)
                   /\ \E s \in {"MORE_DATA"} \cup IF P.surfaces = "pool" THEN {"MORE_SURFACE"} ELSE {} :
                        ctl' = Answer(s)
    /\ UNCHANGED <<prog, held, unhandled, out>>

\* the surface to work on is still locked
RtWorkLocked ==
    /\ Called /\ Component = "decode" /\ P.surfaces = "pool"
    /\ surf.work \in Locked
    /\ CanDecode(IF NullInput THEN 0 ELSE input.bs.length)
    /\ ctl' = Answer("MORE_SURFACE")
    /\ UNCHANGED <<prog, held, input, surf, rt, unhandled, out>>

\* mfxExtAllocationHints: no surface within the time
RtTimeout ==
    /\ Called /\ Component = "decode" /\ P.surfaces = "internal"
    /\ "TIMEOUT" \in Faults \/ WorkSurface = None
    /\ ctl' = Answer("ALLOC_TIMEOUT_EXPIRED")
    /\ unhandled' = (unhandled \/ prog # "hello_transcode" \/ ctl.timeouts > MaxTimeouts)
    /\ UNCHANGED <<prog, held, input, surf, rt, out>>

RtProcess ==
    /\ Called /\ Component # "decode" /\ ~NullInput
    /\ LET q == Append(rt.queue[ctl.stage], surf.given)
       IN  IF Announces(q)
           THEN /\ rt' = Emit(rt, q, IF Component = "vpp" THEN surf.work ELSE None)
                /\ ctl' = Answer("NONE")
           ELSE rt' = Keep(rt, q) /\ ctl' = Answer("MORE_DATA")
    /\ UNCHANGED <<prog, held, input, surf, unhandled, out>>

\* without input, what was kept comes out
RtDrain ==
    /\ Called /\ NullInput /\ (Component = "decode" => ~CanDecode(0))
    /\ LET q == rt.queue[ctl.stage]
       IN  IF q = <<>> THEN ctl' = Answer("MORE_DATA") /\ UNCHANGED <<rt, surf>>
           ELSE /\ rt' = Emit(rt, q, IF Component = "decode" THEN Head(q) ELSE None)
                /\ surf' = IF Component = "decode" /\ P.surfaces # "pool"
                           THEN [surf EXCEPT !.app = @ \cup {Head(q)}] ELSE surf
                /\ ctl' = Answer("NONE")
    /\ UNCHANGED <<prog, held, input, unhandled, out>>

\* "consumes all input bits except if a partial start code ... is at the end of
\* the buffer.  In this case, the function leaves the last few bytes" (mfxvideo.h:695)
RtNeedsData ==
    /\ Called /\ Component = "decode" /\ ~NullInput
    /\ ~CanDecode(input.bs.length)
    /\ \/ input' = Consume(input.bs.length) /\ (Trailing = 0 \/ input.file < StreamSize)
       \/ input' = Consume(input.bs.length - 1) /\ (Trailing = 1 \/ input.file < StreamSize)
    /\ ctl' = Answer("MORE_DATA")
    /\ UNCHANGED <<prog, held, surf, rt, unhandled, out>>

\* The runtime takes nothing and announces nothing; it may go on like this, and
\* does when the device is lost.  A decoder is given the same bitstream again.
RtRefuses ==
    /\ ctl.pc = "call"
    /\ \E s \in MayRefuse[Component], forever \in BOOLEAN :
         /\ IF rt.refuses = None THEN s \in Faults ELSE s = rt.refuses /\ forever
         /\ IF forever THEN TRUE ELSE rt.busy < MaxBusy /\ s \in P.goesOn \ {"LOST"}
         /\ ctl' = Answer(s)
         /\ rt' = [rt EXCEPT !.busy = IF forever THEN @ ELSE @ + 1, !.refuses = IF forever THEN s ELSE None]
         /\ unhandled' = (unhandled \/ forever \/ Component # "decode")
    /\ UNCHANGED <<prog, held, input, surf, out>>

RtCompletes ==
    /\ rt.task # None /\ ~rt.task.done
    /\ rt' = [rt EXCEPT !.task.done = TRUE, !.task.frame = surf.content[rt.task.from]]
    /\ UNCHANGED <<prog, ctl, held, input, surf, unhandled, out>>

RtAnswers == RtDecode \/ RtWorkLocked \/ RtTimeout \/ RtProcess \/ RtDrain \/ RtNeedsData \/ RtRefuses

-----------------------------------------------------------------------------
(* The switch on the answer.  The input surface is given back first.       *)

\* mutant: the input surface is not released
AfterCallKept(s) == s

AfterCall(s) ==
    IF P.release = "submit" /\ Component # "decode" /\ ~NullInput
    THEN [s EXCEPT !.app = @ \ {s.given}] ELSE s

HandleOutput ==
    /\ ctl.pc = "answer" /\ ctl.sts = "NONE"
    /\ IF ctl.stage < Len(P.stages)
       THEN /\ ctl' = [Goto(ctl, "call") EXCEPT !.stage = @ + 1]
            /\ surf' = [surf EXCEPT !.given = rt.task.to]
            /\ rt' = [rt EXCEPT !.task = None]
       ELSE /\ ctl' = Goto(ctl, "sync")
            /\ surf' = AfterCall(surf)
            /\ UNCHANGED rt
    /\ UNCHANGED <<prog, held, input, unhandled, out>>

\* the end of draining one component begins that of the next
HandleMoreData ==
    /\ ctl.pc = "answer" /\ ctl.sts = "MORE_DATA"
    /\ ctl' = CASE ~NullInput -> Goto(ctl, "load")
                [] NullInput /\ ctl.stage < Len(P.stages) ->
                     [Goto(ctl, "call") EXCEPT !.stage = @ + 1, !.draining = ctl.stage + 1]
                [] OTHER -> CleanUp(ctl)
    /\ surf' = AfterCall(surf)
    /\ UNCHANGED <<prog, held, input, rt, unhandled, out>>

\* legacy-decode looks for another surface to work on
AnotherSurface == prog = "legacy_decode" /\ ctl.sts = "MORE_SURFACE"
HandleMoreSurface ==
    /\ ctl.pc = "answer" /\ AnotherSurface
    /\ ctl' = Goto(ctl, "load")
    /\ surf' = [surf EXCEPT !.work = GetFreeSurfaceIndex(OutSide)]
    /\ UNCHANGED <<prog, held, input, rt, unhandled, out>>

\* "Wait a few milliseconds then try again", "Cleanup if device is lost", "should
\* close the component and then reinitialize it": the switch does none of it
HandleIgnored ==
    /\ ctl.pc = "answer" /\ ctl.sts \in P.goesOn /\ ~AnotherSurface
    /\ ctl' = Goto(ctl, "load")
    /\ surf' = AfterCall(surf)
    /\ UNCHANGED <<prog, held, input, rt, unhandled, out>>

HandleTimeout ==
    /\ ctl.pc = "answer" /\ ctl.sts = "ALLOC_TIMEOUT_EXPIRED"
    /\ ctl' = IF prog = "hello_transcode" /\ ctl.timeouts <= MaxTimeouts
              THEN [Goto(ctl, "call") EXCEPT !.timeouts = @ + 1] ELSE CleanUp(ctl)
    /\ UNCHANGED <<prog, held, input, surf, rt, unhandled, out>>

\* unknown status: the loop ends, and the program has not failed
HandleUnknown ==
    /\ ctl.pc = "answer"
    /\ ctl.sts \in Refusal \ P.goesOn
    /\ ctl' = CleanUp(ctl)
    /\ surf' = AfterCall(surf)
    /\ UNCHANGED <<prog, held, input, rt, unhandled, out>>

-----------------------------------------------------------------------------
(* Synchronize, write, release                                             *)

\* ReleaseFreeSurfaces, or the release of the surface that was written
AfterSync(s) ==
    LET free == [s EXCEPT !.app = @ \cap (UNION {ToSet(rt.queue[k]) \cup rt.ref[k] : k \in Stage})]
    IN  IF prog = "sharing_vaapi_import" THEN free
        ELSE IF P.release = "sync" \/ prog = "hello_vpp" THEN [s EXCEPT !.app = @ \ {rt.task.to}]
        ELSE s

SyncDone ==
    /\ ctl.pc = "sync" /\ rt.task.done
    /\ out' = Append(out, rt.task.frame)
    /\ surf' = AfterSync(surf)
    /\ rt' = [rt EXCEPT !.task = None]
    /\ ctl' = Goto(ctl, "load")
    /\ UNCHANGED <<prog, held, input, unhandled>>

SyncError ==
    /\ ctl.pc = "sync" /\ "SYNC" \in Faults /\ ~rt.task.done
    /\ IF P.waits = "drop"
       THEN ctl' = Goto(ctl, "load") /\ surf' = AfterSync(surf) /\ unhandled' = TRUE
       ELSE ctl' = Fail(ctl) /\ UNCHANGED <<surf, unhandled>>
    /\ rt' = [rt EXCEPT !.task = None]
    /\ UNCHANGED <<prog, held, input, out>>

\* the task goes on
SyncTimeout ==
    /\ ctl.pc = "sync" /\ P.waits = "once" /\ ~rt.task.done
    /\ ctl' = Fail(ctl)
    /\ UNCHANGED <<prog, held, input, surf, rt, unhandled, out>>

\* encoded output, and that of legacy-decode, is written unchecked
WriteFails ==
    /\ ctl.pc = "sync" /\ rt.task.done /\ "WRITE" \in Faults
    /\ P.stages[Len(P.stages)] # "encode" /\ prog # "legacy_decode"
    /\ ctl' = Fail(ctl)
    /\ rt' = [rt EXCEPT !.task = None]
    /\ UNCHANGED <<prog, held, input, surf, unhandled, out>>

-----------------------------------------------------------------------------
(* The clean up releases what is there; closing a component ends its work  *)

Cleanup ==
    /\ ctl.pc = "cleanup"
    /\ LET step == P.cleanup[ctl.step]
       IN  /\ held' = held \ {step}
           /\ rt' = IF step = "codec"
                    THEN [rt EXCEPT !.queue = [s \in Stage |-> <<>>], !.ref = [s \in Stage |-> {}], !.task = None]
                    ELSE rt
           /\ surf' = IF step = "imported" THEN [surf EXCEPT !.app = {}] ELSE surf
    /\ ctl' = IF ctl.step = Len(P.cleanup) THEN Goto(ctl, "done") ELSE [ctl EXCEPT !.step = @ + 1]
    /\ UNCHANGED <<prog, input, unhandled, out>>

-----------------------------------------------------------------------------
Runs ==
    \/ SetupStep \/ SetupFails
    \/ LoadNothing \/ LoadStream \/ LoadFrame \/ LoadFails \/ ReadFails
    \/ HandleOutput \/ HandleMoreData \/ HandleMoreSurface \/ HandleIgnored \/ HandleTimeout \/ HandleUnknown
    \/ SyncDone \/ SyncError \/ SyncTimeout \/ WriteFails
    \/ Cleanup

Next == Runs \/ RtAnswers \/ RtCompletes

\* the program runs, and the runtime answers its calls and completes its tasks
Fairness == WF_vars(Runs) /\ WF_vars(RtAnswers) /\ WF_vars(RtCompletes)

Spec == Init /\ [][Next]_vars /\ Fairness

-----------------------------------------------------------------------------
(* Properties                                                              *)

Step == UNION {ToSet(Program[p].setup) : p \in DOMAIN Program}

\* Control, resources, surfaces and the state of the runtime keep their types.
TypeOK ==
    /\ prog \in Programs
    /\ ctl \in [pc : {"setup", "load", "call", "answer", "sync", "cleanup", "done"},
                step : 1..12, stage : Stage, draining : 0..2, failed : BOOLEAN, timeouts : 0..MaxTimeouts + 1,
                sts : {"NONE", "MORE_DATA", "ALLOC_TIMEOUT_EXPIRED"} \cup Refusal]
    /\ held \subseteq Step
    /\ input.file \in Nat /\ input.parsed \in 0..NFrames
    /\ input.bs.offset \in 0..BufferSize /\ input.bs.length \in 0..BufferSize
    /\ surf.app \subseteq Slot /\ surf.content \in [Slot -> 0..NFrames]
    /\ surf.given \in Slot \cup {None} /\ surf.work \in Slot \cup {None}
    /\ rt.queue \in [Stage -> Seq(Slot)] /\ rt.ref \in [Stage -> SUBSET Slot]
    /\ rt.task = None \/ rt.task \in [from : Slot, to : Slot \cup {None}, frame : 0..NFrames, done : BOOLEAN]
    /\ rt.busy \in 0..MaxBusy /\ rt.refuses \in Refusal \cup {None}
    /\ unhandled \in BOOLEAN /\ out \in Seq(Frame)

\* The memory that the runtime works on is there: whatever fails, and wherever
\* the program jumps from, a component is closed before its output buffer, the
\* surfaces it has locked, its session, the session's loader and its device go.
MemoryOutlivesTasks ==
    LET running == rt.task # None /\ ~rt.task.done
        uses(r) == (r = "surfaces" /\ P.surfaces = "pool" /\ Locked # {})
                   \/ (r = "output" /\ Component = "encode" /\ running)
                   \/ (r \in {"loader", "session"} /\ {"codec", "encoder"} \cap held # {})
                   \/ (r = "loader" /\ "session" \in held)
                   \/ (r \in {"device", "context"} /\ "codec" \in held)
    IN  \A r \in ToSet(P.setup) : uses(r) => r \in held

\* The programs whose clean up closes what it has opened.
Closing == {p \in Programs : {"codec", "session"} \subseteq ToSet(Program[p].cleanup)}
ClosingOutlivesTasks == prog \in Closing => MemoryOutlivesTasks

\* As long as the runtime answers what the program handles, the program holds
\* no surface from one round of the loop to the next that the runtime does not
\* work on, and it always finds a free one, however few are suggested.  While
\* it drains, only the latter is claimed: hello-encode, hello-encode-jpeg and
\* hello-vpp acquire a surface before they find that there is no frame for it,
\* and keep it then (hello-encode.cpp:164-178, hello-vpp.cpp:131-150).
SurfacesReturned ==
    TypeOK /\ (~unhandled =>
        /\ ctl.pc = "load" /\ ~IsDraining => surf.app \subseteq Locked
        /\ ctl.pc = "call" /\ P.reads = "frames" /\ ~NullInput => surf.given # None
        /\ ctl.pc = "call" /\ P.surfaces = "pool" /\ Component # "encode" => surf.work # None)

\* Each program implements FrameCopy: frames are written in order and once; all
\* of them unless it fails or the runtime's answer is one it does not handle.
\* The stream is one that ends with a frame (Trailing = 0).
Copy == INSTANCE FrameCopy WITH
    status <- IF ctl.failed THEN "failed" ELSE IF ctl.pc \in {"cleanup", "done"} THEN "ok" ELSE "running"
CopiesFrames == Copy!Spec

\* Every program ends, also when frames are lost or calls are refused, unless
\* the runtime from some call on only gives an answer after which the loop goes
\* round again: a lost or busy device, an output buffer that is too small, a
\* stream whose parameters have changed.  Then the loops of all programs but
\* hello-transcode may go round for ever, also when they drain
\* (hello-encode.cpp:197, hello-decode.cpp:201).
\* A stream that ends within a frame (Trailing = 1) is excepted, too.
Terminates == Trailing = 0 => <>(ctl.pc = "done" \/ rt.refuses \in P.goesOn)
=============================================================================
