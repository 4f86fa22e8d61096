--------------------------- MODULE Examples_proofs ---------------------------
(***************************************************************************)
(* Examples: wherever a program ends, and whatever failed, what the        *)
(* runtime works on is released after the component that uses it; the      *)
(* frames are written in order, each once, as FrameCopy promises; and the  *)
(* surfaces are given back in each round of the loop; for any number of    *)
(* frames and surfaces, and any delay of the components.                   *)
(***************************************************************************)
EXTENDS Examples, FiniteSetTheorems, WellFoundedInduction, TLAPS

-----------------------------------------------------------------------------
(* The rows of the table                                                   *)

\* in the sequence s, b comes only after a
Follows(s, b, a) == \A j \in DOMAIN s : s[j] = b => \E i \in 1..(j - 1) : s[i] = a

\* What a closing row has in order: a component is set up after what it is made
\* with, and whatever it uses is released after it.
Orderly(row) ==
    LET s == row.setup
        c == row.cleanup
    IN  /\ Len(s) \in Nat \ {0} /\ DOMAIN s = 1..Len(s)
        /\ Len(c) \in Nat \ {0} /\ DOMAIN c = 1..Len(c)
        /\ Follows(s, "session", "loader") /\ Follows(s, "codec", "session")
        /\ Follows(s, "codec", "loader")
        /\ \A r \in {"device", "context"} :
              (\A i \in DOMAIN s : s[i] # r) \/ Follows(s, "codec", r)
        /\ \A i \in DOMAIN s : s[i] # "encoder"
        /\ Follows(c, "loader", "session")
        /\ \A r \in {"surfaces", "output", "session", "loader", "device", "context"} :
              Follows(c, r, "codec")

LEMMA OrderlyHelloDecode == Orderly(HelloDecode)
BY DEF Orderly, Follows, HelloDecode

LEMMA OrderlyHelloDecVPP == Orderly(HelloDecVPP)
BY DEF Orderly, Follows, HelloDecVPP, HelloDecode

LEMMA OrderlyLegacyDecode == Orderly(LegacyDecode)
BY DEF Orderly, Follows, LegacyDecode, HelloDecode

LEMMA OrderlySharingVAAPIExport == Orderly(SharingVAAPIExport)
BY DEF Orderly, Follows, SharingVAAPIExport, HelloDecode

LEMMA OrderlySharingOCLExport == Orderly(SharingOCLExport)
BY DEF Orderly, Follows, SharingOCLExport, SharingVAAPIExport, HelloDecode

LEMMA OrderlyHelloEncode == Orderly(HelloEncode)
BY DEF Orderly, Follows, HelloEncode

LEMMA OrderlyLegacyEncode == Orderly(LegacyEncode)
BY DEF Orderly, Follows, LegacyEncode, HelloEncode

LEMMA OrderlySharingDX11Import == Orderly(SharingDX11Import)
BY DEF Orderly, Follows, SharingDX11Import, HelloEncode

LEMMA OrderlySharingOCLImport == Orderly(SharingOCLImport)
BY DEF Orderly, Follows, SharingOCLImport, SharingDX11Import, HelloEncode

LEMMA OrderlySharingVAAPIImport == Orderly(SharingVAAPIImport)
BY DEF Orderly, Follows, SharingVAAPIImport, SharingDX11Import, HelloEncode

LEMMA OrderlyHelloVPP == Orderly(HelloVPP)
BY DEF Orderly, Follows, HelloVPP, HelloEncode

LEMMA OrderlyLegacyVPP == Orderly(LegacyVPP)
BY DEF Orderly, Follows, LegacyVPP, HelloVPP, HelloEncode

\* hello-transcode is not a closing program: it never releases a component.
LEMMA TranscodeDoesNotClose == "codec" \notin ToSet(HelloTranscode.cleanup)
BY DEF ToSet, HelloTranscode, HelloDecode

LEMMA TranscodeLengths ==
    /\ Len(HelloTranscode.setup) \in Nat \ {0} /\ DOMAIN HelloTranscode.setup = 1..Len(HelloTranscode.setup)
    /\ Len(HelloTranscode.cleanup) \in Nat \ {0}
    /\ DOMAIN HelloTranscode.cleanup = 1..Len(HelloTranscode.cleanup)
BY DEF HelloTranscode, HelloDecode

\* The rows by their names.
LEMMA Rows ==
    ASSUME NEW p \in Programs
    PROVE  \/ Program[p] = HelloTranscode
           \/ Orderly(Program[p])
<1>1. p \in DOMAIN Program
  BY ProgramsAssumption
<1>2. Program[p] \in {HelloDecode, HelloDecVPP, LegacyDecode, SharingVAAPIExport, SharingDX11Export,
                     SharingOCLExport, HelloEncode, HelloEncodeJPEG, LegacyEncode, SharingVAAPIImport,
                     SharingDX11Import, SharingOCLImport, HelloVPP, LegacyVPP, HelloTranscode}
  BY <1>1 DEF Program
<1> QED
  BY <1>2, OrderlyHelloDecode, OrderlyHelloDecVPP, OrderlyLegacyDecode, OrderlySharingVAAPIExport,
     OrderlySharingOCLExport, OrderlyHelloEncode, OrderlyLegacyEncode, OrderlySharingDX11Import,
     OrderlySharingOCLImport, OrderlySharingVAAPIImport, OrderlyHelloVPP, OrderlyLegacyVPP
     DEF SharingDX11Export, HelloEncodeJPEG

LEMMA RowLengths ==
    ASSUME NEW p \in Programs
    PROVE  LET s == Program[p].setup
               c == Program[p].cleanup
           IN  /\ Len(s) \in Nat \ {0} /\ DOMAIN s = 1..Len(s)
               /\ Len(c) \in Nat \ {0} /\ DOMAIN c = 1..Len(c)
BY Rows, TranscodeLengths DEF Orderly

LEMMA ClosingOrderly ==
    ASSUME NEW p \in Closing
    PROVE  p \in Programs /\ Orderly(Program[p])
BY Rows, TranscodeDoesNotClose DEF Closing

-----------------------------------------------------------------------------
(* The inductive invariant                                                 *)

\* what the first m steps of the set up make, and the first n of the clean up free
Up(m) == {P.setup[k] : k \in 1..m}
Down(n) == {P.cleanup[k] : k \in 1..n}

\* the runtime works on nothing
Idle ==
    /\ rt.task = None
    /\ \A s \in Stage : rt.queue[s] = <<>> /\ rt.ref[s] = {}

InLoop == {"load", "call", "answer", "sync"}

\* What is held at each place of the program: steps of the set up in their order,
\* less those of the clean up; the runtime has work only between the last step of
\* the set up and the step that closes the component.  The program may be done
\* at any place, as VERIFY exits in some.
ResourcesAt(m, n) ==
    /\ m \in 0..Len(P.setup) /\ n \in 0..Len(P.cleanup)
    /\ held = Up(m) \ Down(n)
    /\ m < Len(P.setup) \/ "codec" \in Down(n) => Idle
    /\ ctl.pc = "setup" => m = ctl.step - 1 /\ n = 0 /\ m < Len(P.setup) /\ ctl.step \in Nat
    /\ ctl.pc \in InLoop => m = Len(P.setup) /\ n = 0
    /\ ctl.pc = "cleanup" => n = ctl.step - 1 /\ n < Len(P.cleanup) /\ ctl.step \in Nat

\* the fields of the control and of the runtime
Shapes ==
    /\ DOMAIN ctl = {"pc", "step", "stage", "draining", "sts", "timeouts", "failed"}
    /\ DOMAIN rt = {"queue", "ref", "task", "busy", "refuses"}

Resources ==
    /\ prog \in Programs /\ Shapes
    /\ ctl.pc \in {"setup", "cleanup", "done"} \cup InLoop
    /\ \E m, n : ResourcesAt(m, n)

-----------------------------------------------------------------------------
(* The steps                                                               *)

LEMMA Lengths ==
    ASSUME Resources
    PROVE  /\ prog \in Programs
           /\ Len(P.setup) \in Nat \ {0} /\ Len(P.cleanup) \in Nat \ {0}
BY RowLengths DEF Resources, P

LEMMA NothingFreed == Down(0) = {}
<1>1. 1..0 = {}
  OBVIOUS
<1> QED
  BY <1>1 DEF Down

LEMMA ResourcesInit == Init => Resources
<1> SUFFICES ASSUME Init PROVE Resources
  OBVIOUS
<1>1. prog \in Programs /\ ctl.pc = "setup" /\ ctl.step = 1 /\ held = {}
  BY DEF Init
<1>2. Len(P.setup) \in Nat \ {0} /\ Len(P.cleanup) \in Nat \ {0}
  BY <1>1, RowLengths DEF P
<1>3. Up(0) = {}
  <2>1. 1..0 = {}
    OBVIOUS
  <2> QED
    BY <2>1 DEF Up
<1>4. Idle
  BY DEF Init, Idle
<1>5. ResourcesAt(0, 0)
  BY <1>1, <1>2, <1>3, <1>4 DEF ResourcesAt, InLoop
<1>6. Shapes
  BY DEF Init, Shapes
<1> QED
  BY <1>1, <1>5, <1>6 DEF Resources

\* A step of the loop leaves what is held, wherever it goes; it may go on, begin
\* the clean up, or exit.
LEMMA LoopKeeps ==
    ASSUME Resources, Shapes', ctl.pc \in InLoop, UNCHANGED <<prog, held>>,
           \/ ctl'.pc \in InLoop \cup {"done"}
           \/ ctl'.pc = "cleanup" /\ ctl'.step = 1
    PROVE  Resources'
<1>1. PICK m, n : ResourcesAt(m, n)
  BY DEF Resources
<1>2. m = Len(P.setup) /\ n = 0 /\ held = Up(m) \ Down(n)
  BY <1>1 DEF ResourcesAt
<1>3. P' = P /\ Up(m)' = Up(m) /\ Down(n)' = Down(n)
  BY DEF P, Up, Down
<1>4. Len(P.setup) \in Nat \ {0} /\ Len(P.cleanup) \in Nat \ {0}
  BY Lengths
<1>5. ResourcesAt(m, n)'
  BY <1>2, <1>3, <1>4, NothingFreed DEF ResourcesAt, InLoop
<1> QED
  BY <1>5 DEF Resources

\* Where Fail and CleanUp go.
LEMMA Ends ==
    ASSUME Shapes
    PROVE  /\ CleanUp(ctl).pc = "cleanup" /\ CleanUp(ctl).step = 1
           /\ DOMAIN CleanUp(ctl) = DOMAIN ctl /\ DOMAIN Fail(ctl) = DOMAIN ctl
           /\ Fail(ctl).pc \in {"cleanup", "done"} /\ Fail(ctl).step = 1
BY DEF Shapes, Fail, CleanUp

\* The set up makes one thing after the other.
LEMMA SetupKeeps == Resources /\ SetupStep => Resources'
<1> SUFFICES ASSUME Resources, SetupStep PROVE Resources'
  OBVIOUS
<1>1. PICK m, n : ResourcesAt(m, n)
  BY DEF Resources
<1>2. /\ ctl.pc = "setup" /\ held' = held \cup {P.setup[ctl.step]}
      /\ ctl' = IF ctl.step = Len(P.setup) THEN Goto(ctl, "load") ELSE [ctl EXCEPT !.step = @ + 1]
      /\ prog' = prog /\ rt' = rt
  BY DEF SetupStep
<1>3. m = ctl.step - 1 /\ n = 0 /\ m < Len(P.setup) /\ ctl.step \in Nat /\ m \in Nat
  BY <1>1, <1>2, Lengths DEF ResourcesAt
<1>4. P' = P /\ Down(0)' = Down(0) /\ \A k : Up(k)' = Up(k)
  BY <1>2 DEF P, Up, Down
<1>5. Up(m + 1) = Up(m) \cup {P.setup[ctl.step]}
  <2>1. 1..(m + 1) = 1..m \cup {ctl.step}
    BY <1>3
  <2> QED
    BY <2>1 DEF Up
<1>6. held' = Up(m + 1) \ Down(0)
  BY <1>1, <1>2, <1>3, <1>5, NothingFreed DEF ResourcesAt
<1>7. Idle'
  BY <1>1, <1>2, <1>3 DEF ResourcesAt, Idle, Stage, P
<1>8. Len(P.setup) \in Nat \ {0} /\ Len(P.cleanup) \in Nat \ {0}
  BY Lengths
<1>9. /\ ctl.step = Len(P.setup) => ctl'.pc = "load"
      /\ ctl.step # Len(P.setup) => ctl'.pc = "setup" /\ ctl'.step = ctl.step + 1
      /\ Shapes'
  BY <1>2 DEF Goto, Resources, Shapes
<1>10. ResourcesAt(m + 1, 0)'
  BY <1>3, <1>4, <1>6, <1>7, <1>8, <1>9, SMTT(30) DEF ResourcesAt, InLoop
<1>11. prog' \in Programs /\ ctl'.pc \in {"setup"} \cup InLoop
  BY <1>2, <1>9 DEF Resources, InLoop
<1> QED
  BY <1>9, <1>10, <1>11 DEF Resources

\* A set up that fails leaves what is made.
LEMMA SetupFailsKeeps == Resources /\ SetupFails => Resources'
<1> SUFFICES ASSUME Resources, SetupFails PROVE Resources'
  OBVIOUS
<1>1. PICK m, n : ResourcesAt(m, n)
  BY DEF Resources
<1>2. /\ ctl.pc = "setup" /\ ctl' = Fail(ctl)
      /\ UNCHANGED <<prog, held, rt>>
  BY DEF SetupFails
<1>3. m \in 0..Len(P.setup) /\ n = 0 /\ held = Up(m) \ Down(n) /\ Idle
  BY <1>1, <1>2 DEF ResourcesAt
<1>4. P' = P /\ Up(m)' = Up(m) /\ Down(n)' = Down(n) /\ Idle'
  BY <1>2, <1>3 DEF P, Up, Down, Idle, Stage
<1>5. Shapes' /\ ctl'.pc \in {"cleanup", "done"} /\ ctl'.step = 1
  BY <1>2, Ends DEF Resources, Shapes
<1>6. Len(P.cleanup) \in Nat \ {0}
  BY Lengths
<1>7. ResourcesAt(m, n)'
  BY <1>2, <1>3, <1>4, <1>5, <1>6 DEF ResourcesAt, InLoop
<1> QED
  BY <1>2, <1>5, <1>7 DEF Resources

\* The clean up frees one thing after the other; closing the component ends the
\* work of the runtime.
LEMMA CleanupKeeps == Resources /\ Cleanup => Resources'
<1> SUFFICES ASSUME Resources, Cleanup PROVE Resources'
  OBVIOUS
<1> DEFINE step == P.cleanup[ctl.step]
<1>1. PICK m, n : ResourcesAt(m, n)
  BY DEF Resources
<1>2. /\ ctl.pc = "cleanup" /\ held' = held \ {step}
      /\ rt' = IF step = "codec"
               THEN [rt EXCEPT !.queue = [s \in Stage |-> <<>>], !.ref = [s \in Stage |-> {}], !.task = None]
               ELSE rt
      /\ ctl' = IF ctl.step = Len(P.cleanup) THEN Goto(ctl, "done") ELSE [ctl EXCEPT !.step = @ + 1]
      /\ prog' = prog
  BY DEF Cleanup
<1>3. /\ m \in 0..Len(P.setup) /\ n = ctl.step - 1 /\ n < Len(P.cleanup) /\ ctl.step \in Nat
      /\ n \in Nat /\ held = Up(m) \ Down(n)
      /\ m < Len(P.setup) \/ "codec" \in Down(n) => Idle
  BY <1>1, <1>2, Lengths DEF ResourcesAt
<1>4. P' = P /\ \A k : Up(k)' = Up(k) /\ Down(k)' = Down(k)
  BY <1>2 DEF P, Up, Down
<1>5. Down(n + 1) = Down(n) \cup {step}
  <2>1. 1..(n + 1) = 1..n \cup {ctl.step}
    BY <1>3
  <2> QED
    BY <2>1 DEF Down
<1> HIDE DEF step
<1>6. held' = Up(m) \ Down(n + 1)
  BY <1>2, <1>3, <1>5
<1>7. step = "codec" => Idle'
  BY <1>2 DEF Idle, Stage, P, Resources, Shapes
<1>8. m < Len(P.setup) \/ "codec" \in Down(n + 1) => Idle'
  <2>1. CASE step = "codec"
    BY <1>7, <2>1
  <2>2. CASE step # "codec"
    <3>1. Idle => Idle'
      BY <1>2, <2>2 DEF Idle, Stage, P
    <3> QED
      BY <1>3, <1>5, <2>2, <3>1
  <2> QED
    BY <2>1, <2>2
<1>9. /\ ctl.step = Len(P.cleanup) => ctl'.pc = "done"
      /\ ctl.step # Len(P.cleanup) => ctl'.pc = "cleanup" /\ ctl'.step = ctl.step + 1
      /\ Shapes'
  BY <1>2 DEF Goto, Resources, Shapes
<1>10. n + 1 \in 0..Len(P.cleanup) /\ (ctl.step # Len(P.cleanup) => n + 1 < Len(P.cleanup))
  BY <1>3, Lengths
<1>11. ResourcesAt(m, n + 1)'
  BY <1>3, <1>4, <1>6, <1>8, <1>9, <1>10, SMTT(30) DEF ResourcesAt, InLoop
<1>12. prog' \in Programs /\ ctl'.pc \in {"cleanup", "done"}
  BY <1>2, <1>9 DEF Resources
<1> QED
  BY <1>9, <1>11, <1>12 DEF Resources

\* A task that completes was one that the runtime had.
LEMMA CompletesKeeps == Resources /\ RtCompletes => Resources'
<1> SUFFICES ASSUME Resources, RtCompletes PROVE Resources'
  OBVIOUS
<1>1. PICK m, n : ResourcesAt(m, n)
  BY DEF Resources
<1>2. ~Idle /\ UNCHANGED <<prog, ctl, held>> /\ Shapes'
  BY DEF RtCompletes, Idle, Resources, Shapes
<1>3. P' = P /\ Up(m)' = Up(m) /\ Down(n)' = Down(n)
  BY <1>2 DEF P, Up, Down
<1>4. ResourcesAt(m, n)'
  BY <1>1, <1>2, <1>3 DEF ResourcesAt, InLoop
<1> QED
  BY <1>2, <1>4 DEF Resources

\* A step that reads goes on to the call, or ends the program.
LEMMA LoadKeeps ==
    ASSUME Resources, LoadNothing \/ LoadStream \/ LoadFrame \/ LoadFails \/ ReadFails
    PROVE  Resources'
<1>1. ctl.pc \in InLoop /\ UNCHANGED <<prog, held, rt>>
  BY DEF LoadNothing, LoadStream, LoadFrame, LoadFails, ReadFails, InLoop
<1>2. \/ ctl' = Fail(ctl)
      \/ DOMAIN ctl' = DOMAIN ctl /\ ctl'.pc = "call"
  BY DEF LoadNothing, LoadStream, LoadFrame, LoadFails, ReadFails, Drain, Goto, Resources, Shapes
<1>3. Shapes'
  BY <1>1, <1>2, Ends DEF Resources, Shapes
<1> QED
  BY <1>1, <1>2, <1>3, Ends, LoopKeeps DEF Resources, InLoop

\* What the runtime takes on changes the values of its fields.
LEMMA RtShapes ==
    ASSUME NEW q, NEW to
    PROVE  DOMAIN Emit(rt, q, to) = DOMAIN rt /\ DOMAIN Keep(rt, q) = DOMAIN rt
BY DEF Emit, Keep

\* The runtime answers.
LEMMA AnswerKeeps == Resources /\ RtAnswers => Resources'
<1> SUFFICES ASSUME Resources, RtAnswers PROVE Resources'
  OBVIOUS
<1>1. ctl.pc = "call" /\ UNCHANGED <<prog, held>>
  BY DEF RtAnswers, RtDecode, RtWorkLocked, RtTimeout, RtProcess, RtDrain, RtNeedsData, RtRefuses, Called
<1>2. \E s : ctl' = Answer(s)
  BY DEF RtAnswers, RtDecode, RtWorkLocked, RtTimeout, RtProcess, RtDrain, RtNeedsData, RtRefuses
<1>3. DOMAIN rt' = DOMAIN rt
  <2>1. \/ \E q, to : rt' = Emit(rt, q, to)
        \/ \E q : rt' = Keep(rt, q)
        \/ rt' = rt
        \/ \E b, l : rt' = [rt EXCEPT !.busy = b, !.refuses = l]
    <3>1. CASE RtDecode
      BY <3>1 DEF RtDecode
    <3>2. CASE RtProcess
      BY <3>2 DEF RtProcess
    <3>3. CASE RtDrain
      BY <3>3 DEF RtDrain
    <3>4. CASE RtRefuses
      BY <3>4 DEF RtRefuses
    <3>5. CASE RtWorkLocked \/ RtTimeout \/ RtNeedsData
      BY <3>5 DEF RtWorkLocked, RtTimeout, RtNeedsData
    <3> QED
      BY <3>1, <3>2, <3>3, <3>4, <3>5 DEF RtAnswers
  <2> QED
    BY <2>1, RtShapes
<1>4. ctl'.pc = "answer" /\ Shapes'
  BY <1>2, <1>3 DEF Answer, Resources, Shapes
<1> QED
  BY <1>1, <1>4, LoopKeeps DEF InLoop

\* The switch on the answer.
LEMMA HandleKeeps ==
    ASSUME Resources,
           \/ HandleOutput \/ HandleMoreData \/ HandleMoreSurface
           \/ HandleIgnored \/ HandleTimeout \/ HandleUnknown
    PROVE  Resources'
<1>1. /\ ctl.pc \in InLoop /\ UNCHANGED <<prog, held>>
      /\ rt' = rt \/ rt' = [rt EXCEPT !.task = None]
  BY DEF HandleOutput, HandleMoreData, HandleMoreSurface, HandleIgnored, HandleTimeout, HandleUnknown, InLoop
<1>2. \/ ctl' = CleanUp(ctl)
      \/ DOMAIN ctl' = DOMAIN ctl /\ ctl'.pc \in InLoop
  BY DEF HandleOutput, HandleMoreData, HandleMoreSurface, HandleIgnored, HandleTimeout, HandleUnknown, Goto,
         Resources, Shapes, InLoop
<1>3. Shapes'
  BY <1>1, <1>2, Ends DEF Resources, Shapes
<1> QED
  BY <1>1, <1>2, <1>3, Ends, LoopKeeps DEF Resources

\* Waiting for the output, and writing it.
LEMMA SyncKeeps ==
    ASSUME Resources, SyncDone \/ SyncError \/ SyncTimeout \/ WriteFails
    PROVE  Resources'
<1>1. /\ ctl.pc \in InLoop /\ UNCHANGED <<prog, held>>
      /\ rt' = rt \/ rt' = [rt EXCEPT !.task = None]
  BY DEF SyncDone, SyncError, SyncTimeout, WriteFails, InLoop
<1>2. ctl' = Goto(ctl, "load") \/ ctl' = Fail(ctl)
  BY DEF SyncDone, SyncError, SyncTimeout, WriteFails
<1>3. Shapes'
  BY <1>1, <1>2, Ends DEF Resources, Shapes, Goto
<1>4. ctl' = Goto(ctl, "load") => ctl'.pc = "load"
  BY DEF Goto, Resources, Shapes
<1> QED
  BY <1>1, <1>2, <1>3, <1>4, Ends, LoopKeeps DEF Resources, InLoop

LEMMA ResourcesKept == Resources /\ [Next]_vars => Resources'
<1> SUFFICES ASSUME Resources, [Next]_vars PROVE Resources'
  OBVIOUS
<1>1. CASE UNCHANGED vars
  <2>1. PICK m, n : ResourcesAt(m, n)
    BY DEF Resources
  <2>2. UNCHANGED <<prog, ctl, held, rt>>
    BY <1>1 DEF vars
  <2>3. P' = P /\ Up(m)' = Up(m) /\ Down(n)' = Down(n) /\ (Idle <=> Idle') /\ Shapes'
    BY <2>2 DEF P, Up, Down, Idle, Stage, Resources, Shapes
  <2>4. ResourcesAt(m, n)'
    BY <2>1, <2>2, <2>3 DEF ResourcesAt, InLoop
  <2> QED
    BY <2>2, <2>3, <2>4 DEF Resources
<1>2. CASE Runs
  BY <1>2, SetupKeeps, SetupFailsKeeps, LoadKeeps, HandleKeeps, SyncKeeps, CleanupKeeps DEF Runs
<1>3. CASE RtAnswers
  BY <1>3, AnswerKeeps
<1>4. CASE RtCompletes
  BY <1>4, CompletesKeeps
<1> QED
  BY <1>1, <1>2, <1>3, <1>4 DEF Next

-----------------------------------------------------------------------------
(* What is held outlives what uses it                                      *)

\* What b is made with is held as long as b is.
LEMMA HeldWith ==
    ASSUME NEW m \in 0..Len(P.setup), NEW n \in 0..Len(P.cleanup), NEW a, NEW b,
           Len(P.setup) \in Nat, Len(P.cleanup) \in Nat,
           DOMAIN P.setup = 1..Len(P.setup), DOMAIN P.cleanup = 1..Len(P.cleanup),
           Follows(P.setup, b, a), Follows(P.cleanup, a, b), b \in Up(m) \ Down(n)
    PROVE  a \in Up(m) \ Down(n)
<1>1. PICK j \in 1..m : P.setup[j] = b
  BY DEF Up
<1>2. \E i \in 1..(j - 1) : P.setup[i] = a
  BY <1>1 DEF Follows
<1>3. a \in Up(m)
  BY <1>2 DEF Up
<1>4. ASSUME a \in Down(n) PROVE FALSE
  <2>1. PICK i \in 1..n : P.cleanup[i] = a
    BY <1>4 DEF Down
  <2>2. PICK k \in 1..(i - 1) : P.cleanup[k] = b
    BY <2>1 DEF Follows
  <2>3. k \in 1..n
    BY <2>1, <2>2
  <2>4. b \in Down(n)
    BY <2>2, <2>3 DEF Down
  <2> QED
    BY <2>4
<1> QED
  BY <1>3, <1>4

\* What is released after b is not released before b is.
LEMMA NotYetReleased ==
    ASSUME NEW n \in 0..Len(P.cleanup), NEW a, NEW b, Len(P.cleanup) \in Nat,
           DOMAIN P.cleanup = 1..Len(P.cleanup), Follows(P.cleanup, a, b), b \notin Down(n)
    PROVE  a \notin Down(n)
<1> SUFFICES ASSUME a \in Down(n) PROVE FALSE
  OBVIOUS
<1>1. PICK i \in 1..n : P.cleanup[i] = a
  BY DEF Down
<1>2. PICK k \in 1..(i - 1) : P.cleanup[k] = b
  BY <1>1 DEF Follows
<1>3. k \in 1..n
  BY <1>1, <1>2
<1> QED
  BY <1>2, <1>3 DEF Down

LEMMA ResourcesSuffice == Resources => ClosingOutlivesTasks
<1> SUFFICES ASSUME Resources, prog \in Closing PROVE MemoryOutlivesTasks
  BY DEF ClosingOutlivesTasks
<1>1. PICK m, n : ResourcesAt(m, n)
  BY DEF Resources
<1>2. Orderly(P)
  BY ClosingOrderly DEF P
<1>3. /\ m \in 0..Len(P.setup) /\ n \in 0..Len(P.cleanup)
      /\ held = Up(m) \ Down(n)
      /\ m < Len(P.setup) \/ "codec" \in Down(n) => Idle
  BY <1>1 DEF ResourcesAt
<1>4. /\ Len(P.setup) \in Nat /\ Len(P.cleanup) \in Nat
      /\ DOMAIN P.setup = 1..Len(P.setup) /\ DOMAIN P.cleanup = 1..Len(P.cleanup)
  BY <1>2 DEF Orderly
<1>5. "encoder" \notin held
  <2>1. \A k \in 1..m : P.setup[k] # "encoder"
    BY <1>2, <1>3, <1>4 DEF Orderly
  <2> QED
    BY <1>3, <2>1 DEF Up
<1>6. "session" \in held => "loader" \in held
  BY <1>2, <1>3, <1>4, HeldWith DEF Orderly
<1>7. "codec" \in held => "session" \in held /\ "loader" \in held
  BY <1>2, <1>3, <1>4, HeldWith DEF Orderly
<1>8. ASSUME NEW r \in {"device", "context"}, r \in ToSet(P.setup), "codec" \in held
      PROVE  r \in held
  <2>1. Follows(P.setup, "codec", r)
    BY <1>2, <1>8 DEF Orderly, ToSet
  <2>2. Follows(P.cleanup, r, "codec")
    BY <1>2 DEF Orderly
  <2> QED
    BY <1>3, <1>4, <1>8, <2>1, <2>2, HeldWith
<1>9. Idle => Locked = {} /\ rt.task = None
  BY DEF Idle, Locked, ToSet
<1>10. ASSUME NEW r \in {"surfaces", "output"}, r \in ToSet(P.setup), ~Idle
       PROVE  r \in held
  <2>1. m = Len(P.setup) /\ "codec" \notin Down(n)
    BY <1>3, <1>10
  <2>2. r \in Up(m)
    BY <1>4, <1>10, <2>1 DEF Up, ToSet
  <2>3. r \notin Down(n)
    BY <1>2, <1>3, <1>4, <1>10, <2>1, NotYetReleased DEF Orderly
  <2> QED
    BY <1>3, <2>2, <2>3
<1> DEFINE running == rt.task # None /\ ~rt.task.done
<1>11. running => ~Idle
  BY DEF Idle
<1> HIDE DEF running
<1> SUFFICES ASSUME NEW r \in ToSet(P.setup),
                    \/ r = "surfaces" /\ P.surfaces = "pool" /\ Locked # {}
                    \/ r = "output" /\ Component = "encode" /\ running
                    \/ r \in {"loader", "session"} /\ {"codec", "encoder"} \cap held # {}
                    \/ r = "loader" /\ "session" \in held
                    \/ r \in {"device", "context"} /\ "codec" \in held
             PROVE  r \in held
  BY DEF MemoryOutlivesTasks, running
<1>12. CASE r = "surfaces" /\ Locked # {}
  BY <1>9, <1>10, <1>12
<1>13. CASE r = "output" /\ running
  BY <1>10, <1>11, <1>13
<1>14. CASE r \in {"loader", "session"} /\ {"codec", "encoder"} \cap held # {}
  <2>1. "codec" \in held
    BY <1>5, <1>14
  <2> QED
    BY <1>7, <1>14, <2>1
<1>15. CASE r = "loader" /\ "session" \in held
  BY <1>6, <1>15
<1>16. CASE r \in {"device", "context"} /\ "codec" \in held
  BY <1>8, <1>16
<1> QED
  BY <1>12, <1>13, <1>14, <1>15, <1>16

-----------------------------------------------------------------------------
\* At each place of each program, what is held is what the set up has made so
\* far, less what the clean up has released.
THEOREM ResourcesInvariance == Spec => []Resources
<1>1. Init => Resources
  BY ResourcesInit
<1>2. Resources /\ [Next]_vars => Resources'
  BY ResourcesKept
<1> QED
  BY <1>1, <1>2, PTL DEF Spec

\* In a program whose clean up closes what it opened, a component is closed
\* before its output buffer, the surfaces it has locked, its session, the
\* session's loader and its device go; whatever step of the set up or of the
\* loop fails, and from wherever it jumps to the clean up.
THEOREM MemoryOfClosingPrograms == Spec => []ClosingOutlivesTasks
BY ResourcesInvariance, ResourcesSuffice, PTL

-----------------------------------------------------------------------------
(* The frames on their way from the source to the sink                     *)

\* A frame m comes after lo; it is the next one, unless some may be missing.
Follower(lo, m, missing) == lo < m /\ (~missing => m = lo + 1)

\* The slots of q hold frames after lo, up to hi, in order; all of them, unless
\* some may be missing.
Part(content, q, lo, hi, missing) ==
    /\ lo <= hi
    /\ \A k \in DOMAIN q : lo < content[q[k]] /\ content[q[k]] <= hi
    /\ \A j, k \in DOMAIN q : j < k => content[q[j]] < content[q[k]]
    /\ ~missing => Len(q) = hi - lo /\ \A k \in DOMAIN q : content[q[k]] = lo + k

\* Between two parts there may be one frame more, m.
Link(lo, present, m, hi, missing) ==
    IF present THEN hi = m /\ Follower(lo, m, missing)
    ELSE lo <= hi /\ (~missing => lo = hi)

\* From the sink to the source: what was written up to lo, the output e that is
\* announced, the queue qn of the last component, the frame h that the program
\* hands on, the queue q1 of the component before; last left the source.
Chain(content, lo, end, e, qn, hand, h, q1, last, missing) ==
    \E a, b, c \in Nat :
        /\ Link(lo, end, e, a, missing)
        /\ Part(content, qn, a, b, missing)
        /\ Link(b, hand, h, c, missing)
        /\ Part(content, q1, c, last, missing)

Running == ctl.pc = "setup" \/ ctl.pc \in InLoop
Stages == Len(P.stages)

LastRead == IF P.reads = "stream" THEN input.parsed ELSE input.file

\* the runtime has announced an output that the program has not dealt with yet
HasTask == ctl.pc = "sync" \/ (ctl.pc = "answer" /\ ctl.sts = "NONE")

\* the program calls a component with a frame
Carries == ctl.pc = "call" /\ ~NullInput /\ Component # "decode"

\* the output of the last component is announced
AtEnd == HasTask /\ ctl.stage = Stages
Announced == surf.content[rt.task.from]

\* a frame is between the source or the first component and the next component
InHand == Carries \/ (HasTask /\ ctl.stage < Stages)
Hand == surf.content[IF Carries THEN surf.given ELSE rt.task.from]

\* the queue of the component before the last one
FirstQueue == IF Stages = 1 THEN <<>> ELSE rt.queue[1]

Chained ==
    Chain(surf.content, Copy!LastOut,
          AtEnd, Announced, rt.queue[Stages], InHand, Hand, FirstQueue, LastRead, unhandled)

Written == ~unhandled => Len(out) = Copy!LastOut

\* the fields of the source and their ranges
Source ==
    /\ DOMAIN input = {"file", "parsed", "bs"} /\ DOMAIN input.bs = {"offset", "length"}
    /\ input.parsed \in 0..NFrames /\ input.bs.length \in 0..BufferSize
    /\ input.file \in 0..(IF P.reads = "stream" THEN StreamSize ELSE NFrames)

\* those of the surfaces, of the runtime and of the control
Fields ==
    /\ DOMAIN surf = {"app", "content", "given", "work"} /\ surf.content \in [Slot -> Nat]
    /\ surf.work \in Slot \cup {None}
    /\ rt.queue \in [Stage -> Seq(Slot)] /\ DOMAIN rt.ref = Stage
    /\ out \in Seq(Nat) /\ unhandled \in BOOLEAN
    /\ ctl.stage \in Stage /\ ctl.draining \in 0..Stages /\ ctl.timeouts \in Nat

\* A task is there exactly when its output is awaited.
Tasks ==
    /\ ctl.pc = "sync" => ctl.stage = Stages
    /\ IF HasTask
       THEN /\ DOMAIN rt.task = {"from", "to", "frame", "done"} /\ rt.task.from \in Slot
            /\ rt.task.done \in BOOLEAN
            /\ rt.task.done => rt.task.frame = surf.content[rt.task.from]
            /\ ctl.stage < Stages => rt.task.to = rt.task.from
       ELSE rt.task = None
    /\ Carries => surf.given \in Slot

\* The program drains only at the end of the source, and the second component
\* only once the first is empty.
Drains ==
    /\ ctl.pc = "setup" => ctl.draining = 0
    /\ ctl.draining > 0 /\ ~unhandled =>
          IF P.reads = "stream" THEN input.file = StreamSize /\ input.bs.length = 0 ELSE input.file = NFrames
    /\ ctl.draining = 2 =>
          ctl.stage = 2 /\ rt.queue[1] = <<>> /\ (unhandled \/ input.parsed = NFrames)
    /\ ctl.pc = "call" \/ (ctl.pc = "answer" /\ ctl.sts = "ALLOC_TIMEOUT_EXPIRED") =>
          (Component = "decode" /\ ~NullInput => input.bs.length > 0)

\* What an answer means: the runtime has nothing left when it asks for more data
\* at the end, and the answers that end or shorten the copying are recorded.
Answers ==
    ctl.pc = "answer" =>
        /\ ctl.sts = "MORE_DATA" /\ NullInput =>
              rt.queue[ctl.stage] = <<>> /\ (Component = "decode" => unhandled \/ input.parsed = NFrames)
        /\ ctl.sts \in {"BUSY", "LOST", "ERROR", "MORE_SURFACE", "VIDEO_PARAM_CHANGED", "INCOMPATIBLE_VIDEO_PARAM",
                       "REALLOC_SURFACE", "NOT_ENOUGH_BUFFER"} =>
              unhandled \/ (Component = "decode" /\ ctl.sts \in P.goesOn)
        /\ ctl.sts = "ALLOC_TIMEOUT_EXPIRED" =>
              /\ Component = "decode"
              /\ unhandled \/ (prog = "hello_transcode" /\ ctl.timeouts <= MaxTimeouts)

\* A component of raw frames keeps no more than its delay, and one reference.
FewKept ==
    P.reads = "frames" =>
        Len(rt.queue[1]) <= Delay[P.stages[1]] /\ \E x : rt.ref[1] \subseteq {x}

Flow == Running => /\ ctl.failed = FALSE
                   /\ Source /\ Fields /\ Tasks /\ Drains /\ Answers /\ FewKept /\ Chained /\ Written

-----------------------------------------------------------------------------
(* Parts of the way                                                        *)

LEMMA PartOfNothing ==
    ASSUME NEW content, NEW lo \in Nat, NEW missing \in BOOLEAN
    PROVE  Part(content, <<>>, lo, lo, missing)
BY DEF Part

\* Only the contents of the slots in the queue count.
LEMMA PartContent ==
    ASSUME NEW S, NEW content, NEW new, NEW q \in Seq(S), NEW lo \in Nat, NEW hi \in Nat, NEW missing \in BOOLEAN,
           Part(content, q, lo, hi, missing), \A k \in DOMAIN q : new[q[k]] = content[q[k]]
    PROVE  Part(new, q, lo, hi, missing)
BY DEF Part

LEMMA PartRelaxed ==
    ASSUME NEW S, NEW content \in [S -> Nat], NEW q \in Seq(S), NEW lo \in Nat, NEW hi \in Nat,
           NEW missing \in BOOLEAN, NEW l \in Nat, l <= lo,
           Part(content, q, lo, hi, missing)
    PROVE  Part(content, q, l, hi, TRUE)
<1>1. \A k \in DOMAIN q : q[k] \in S /\ content[q[k]] \in Nat
  OBVIOUS
<1> QED
  BY <1>1 DEF Part

\* A frame that follows is appended.
LEMMA PartAppended ==
    ASSUME NEW S, NEW content \in [S -> Nat], NEW q \in Seq(S), NEW slot \in S, NEW lo \in Nat, NEW hi \in Nat,
           NEW missing \in BOOLEAN,
           Part(content, q, lo, hi, missing), Follower(hi, content[slot], missing)
    PROVE  Part(content, Append(q, slot), lo, content[slot], missing)
<1> DEFINE p == Append(q, slot)
<1>1. Len(q) \in Nat /\ DOMAIN q = 1..Len(q) /\ Len(p) = Len(q) + 1 /\ DOMAIN p = 1..(Len(q) + 1)
  OBVIOUS
<1>2. \A k \in 1..Len(q) : p[k] = q[k]
  OBVIOUS
<1>3. p[Len(q) + 1] = slot
  OBVIOUS
<1>4. \A k \in DOMAIN q : q[k] \in S /\ content[q[k]] \in Nat
  OBVIOUS
<1>5. content[slot] \in Nat /\ hi < content[slot] /\ (~missing => content[slot] = hi + 1)
  BY DEF Follower
<1>6. /\ lo <= hi
      /\ \A k \in DOMAIN q : lo < content[q[k]] /\ content[q[k]] <= hi
      /\ \A j, k \in DOMAIN q : j < k => content[q[j]] < content[q[k]]
      /\ ~missing => Len(q) = hi - lo /\ \A k \in DOMAIN q : content[q[k]] = lo + k
  BY DEF Part
<1> HIDE DEF p
<1>7. lo <= content[slot]
  BY <1>5, <1>6
<1>8. ASSUME NEW k \in DOMAIN p
      PROVE  lo < content[p[k]] /\ content[p[k]] <= content[slot] /\ content[p[k]] \in Nat
  <2>1. CASE k = Len(q) + 1
    BY <2>1, <1>3, <1>5, <1>6
  <2>2. CASE k \in DOMAIN q
    BY <2>2, <1>1, <1>2, <1>4, <1>5, <1>6
  <2> QED
    BY <2>1, <2>2, <1>1, <1>8
<1>9. ASSUME NEW j \in DOMAIN p, NEW k \in DOMAIN p, j < k
      PROVE  content[p[j]] < content[p[k]]
  <2>1. j \in DOMAIN q
    BY <1>1, <1>9
  <2>2. CASE k = Len(q) + 1
    BY <2>1, <2>2, <1>1, <1>2, <1>3, <1>4, <1>5, <1>6
  <2>3. CASE k \in DOMAIN q
    BY <2>1, <2>3, <1>1, <1>2, <1>6, <1>9
  <2> QED
    BY <2>2, <2>3, <1>1
<1>10. ASSUME ~missing
       PROVE  Len(p) = content[slot] - lo /\ \A k \in DOMAIN p : content[p[k]] = lo + k
  <2>0. Len(q) = hi - lo /\ content[slot] = hi + 1
    BY <1>5, <1>6, <1>10
  <2>1. Len(p) = content[slot] - lo
    BY <2>0, <1>1
  <2>2. ASSUME NEW k \in DOMAIN p
        PROVE  content[p[k]] = lo + k
    <3>1. CASE k = Len(q) + 1
      BY <2>0, <3>1, <1>3
    <3>2. CASE k \in DOMAIN q
      BY <3>2, <1>1, <1>2, <1>6, <1>10
    <3> QED
      BY <3>1, <3>2, <1>1
  <2> QED
    BY <2>1, <2>2
<1> QED
  BY <1>7, <1>8, <1>9, <1>10 DEF Part, p

\* The first frame of the part leaves it.
LEMMA PartTail ==
    ASSUME NEW S, NEW content \in [S -> Nat], NEW q \in Seq(S), q # <<>>, NEW lo \in Nat, NEW hi \in Nat,
           NEW missing \in BOOLEAN,
           Part(content, q, lo, hi, missing)
    PROVE  /\ Head(q) \in S /\ Tail(q) \in Seq(S)
           /\ Follower(lo, content[Head(q)], missing)
           /\ Part(content, Tail(q), content[Head(q)], hi, missing)
<1> DEFINE p == Tail(q)
<1>1. /\ Len(q) \in Nat /\ Len(q) > 0 /\ DOMAIN q = 1..Len(q)
      /\ p \in Seq(S) /\ Len(p) = Len(q) - 1 /\ DOMAIN p = 1..(Len(q) - 1)
  OBVIOUS
<1>2. \A k \in DOMAIN p : p[k] = q[k + 1] /\ k + 1 \in DOMAIN q
  BY <1>1
<1>3. Head(q) = q[1] /\ 1 \in DOMAIN q /\ q[1] \in S
  BY <1>1
<1>4. \A k \in DOMAIN q : content[q[k]] \in Nat
  OBVIOUS
<1>6. /\ lo <= hi
      /\ \A k \in DOMAIN q : lo < content[q[k]] /\ content[q[k]] <= hi
      /\ \A j, k \in DOMAIN q : j < k => content[q[j]] < content[q[k]]
      /\ ~missing => Len(q) = hi - lo /\ \A k \in DOMAIN q : content[q[k]] = lo + k
  BY DEF Part
<1> HIDE DEF p
<1>7. Follower(lo, content[q[1]], missing)
  BY <1>3, <1>4, <1>6 DEF Follower
<1>8. content[q[1]] <= hi
  BY <1>3, <1>6
<1>9. ASSUME NEW k \in DOMAIN p
      PROVE  content[q[1]] < content[p[k]] /\ content[p[k]] <= hi
  <2>1. 1 < k + 1 /\ k + 1 \in DOMAIN q /\ p[k] = q[k + 1]
    BY <1>1, <1>2
  <2> QED
    BY <2>1, <1>3, <1>6
<1>10. ASSUME NEW j \in DOMAIN p, NEW k \in DOMAIN p, j < k
       PROVE  content[p[j]] < content[p[k]]
  <2>1. j + 1 \in DOMAIN q /\ k + 1 \in DOMAIN q /\ j + 1 < k + 1
    BY <1>1, <1>2, <1>10
  <2> QED
    BY <2>1, <1>2, <1>6
<1>11. ASSUME ~missing
       PROVE  Len(p) = hi - content[q[1]] /\ \A k \in DOMAIN p : content[p[k]] = content[q[1]] + k
  <2>1. content[q[1]] = lo + 1
    BY <1>3, <1>6, <1>11
  <2>2. ASSUME NEW k \in DOMAIN p
        PROVE  content[p[k]] = content[q[1]] + k
    <3>1. k \in Nat /\ k + 1 \in DOMAIN q /\ content[q[k + 1]] = lo + (k + 1)
      BY <1>1, <1>2, <1>6, <1>11
    <3> QED
      BY <3>1, <2>1, <1>2
  <2>3. Len(p) = hi - content[q[1]]
    BY <2>1, <1>1, <1>6, <1>11
  <2> QED
    BY <2>2, <2>3
<1>12. Part(content, p, content[q[1]], hi, missing)
  BY <1>8, <1>9, <1>10, <1>11 DEF Part
<1> QED
  BY <1>1, <1>3, <1>7, <1>12 DEF p

-----------------------------------------------------------------------------
(* The whole way                                                           *)

\* Only the contents of the slots in the queues count, and a frame only if it
\* is there.
LEMMA ChainContent ==
    ASSUME NEW S, NEW content, NEW new, NEW lo \in Nat, NEW last \in Nat, NEW missing \in BOOLEAN,
           NEW end, NEW e, NEW f, NEW hand, NEW h, NEW g, NEW qn \in Seq(S), NEW q1 \in Seq(S),
           Chain(content, lo, end, e, qn, hand, h, q1, last, missing),
           \A k \in DOMAIN qn : new[qn[k]] = content[qn[k]],
           \A k \in DOMAIN q1 : new[q1[k]] = content[q1[k]],
           end => f = e, hand => g = h
    PROVE  Chain(new, lo, end, f, qn, hand, g, q1, last, missing)
<1>1. PICK a \in Nat, b \in Nat, c \in Nat :
        /\ Link(lo, end, e, a, missing)
        /\ Part(content, qn, a, b, missing)
        /\ Link(b, hand, h, c, missing)
        /\ Part(content, q1, c, last, missing)
  BY DEF Chain
<1>2. Link(lo, end, f, a, missing) /\ Link(b, hand, g, c, missing)
  BY <1>1 DEF Link
<1>3. Part(new, qn, a, b, missing)
  BY <1>1, PartContent
<1>4. Part(new, q1, c, last, missing)
  <2>1. Part(content, q1, c, last, missing)
    BY <1>1
  <2> QED
    BY <2>1, PartContent
<1> QED
  BY <1>2, <1>3, <1>4 DEF Chain

\* The announced frame is the next one to write; it is written.
LEMMA ChainWritten ==
    ASSUME NEW S, NEW content \in [S -> Nat], NEW lo \in Nat, NEW last \in Nat, NEW missing \in BOOLEAN,
           NEW e \in Nat, NEW f, NEW hand, NEW h,
           NEW qn \in Seq(S), NEW q1 \in Seq(S),
           Chain(content, lo, TRUE, e, qn, hand, h, q1, last, missing)
    PROVE  /\ Follower(lo, e, missing) /\ e <= last
           /\ Chain(content, e, FALSE, f, qn, hand, h, q1, last, missing)
<1>1. PICK a \in Nat, b \in Nat, c \in Nat :
        /\ Link(lo, TRUE, e, a, missing)
        /\ Part(content, qn, a, b, missing)
        /\ Link(b, hand, h, c, missing)
        /\ Part(content, q1, c, last, missing)
  BY DEF Chain
<1>2. a = e /\ Follower(lo, e, missing)
  BY <1>1 DEF Link
<1>3. e <= b /\ c <= last
  BY <1>1, <1>2 DEF Part
<1>4. b <= c
  <2>1. Link(b, hand, h, c, missing)
    BY <1>1
  <2> QED
    BY <2>1 DEF Link, Follower
<1>5. Link(e, FALSE, f, e, missing)
  BY DEF Link
<1>6. Chain(content, e, FALSE, f, qn, hand, h, q1, last, missing)
  BY <1>1, <1>2, <1>5 DEF Chain
<1>7. e <= last
  BY <1>3, <1>4
<1> QED
  BY <1>2, <1>6, <1>7

\* A program of one component takes the next frame in its hand.
LEMMA ChainLoaded ==
    ASSUME NEW S, NEW content \in [S -> Nat], NEW lo \in Nat, NEW last \in Nat, NEW missing \in BOOLEAN,
           NEW end, NEW e, NEW h, NEW slot \in S, content[slot] = last + 1,
           NEW qn \in Seq(S),
           Chain(content, lo, end, e, qn, FALSE, h, <<>>, last, missing)
    PROVE  Chain(content, lo, end, e, qn, TRUE, content[slot], <<>>, last + 1, missing)
<1>1. PICK a \in Nat, b \in Nat, c \in Nat :
        /\ Link(lo, end, e, a, missing)
        /\ Part(content, qn, a, b, missing)
        /\ Link(b, FALSE, h, c, missing)
        /\ Part(content, <<>>, c, last, missing)
  BY DEF Chain
<1>2. b <= c /\ (~missing => b = c) /\ c <= last
  BY <1>1 DEF Link, Part
<1>3. ~missing => c = last
  BY <1>1 DEF Part
<1>4. Link(b, TRUE, content[slot], last + 1, missing)
  BY <1>2, <1>3 DEF Link, Follower
<1>5. Part(content, <<>>, last + 1, last + 1, missing)
  BY PartOfNothing
<1> QED
  BY <1>1, <1>4, <1>5 DEF Chain

\* A decoder that is the only component decodes the next frame.
LEMMA ChainDecodedLast ==
    ASSUME NEW S, NEW content \in [S -> Nat], NEW lo \in Nat, NEW last \in Nat, NEW missing \in BOOLEAN,
           NEW end, NEW e, NEW h, NEW slot \in S, content[slot] = last + 1,
           NEW qn \in Seq(S),
           Chain(content, lo, end, e, qn, FALSE, h, <<>>, last, missing)
    PROVE  Chain(content, lo, end, e, Append(qn, slot), FALSE, h, <<>>, last + 1, missing)
<1>1. PICK a \in Nat, b \in Nat, c \in Nat :
        /\ Link(lo, end, e, a, missing)
        /\ Part(content, qn, a, b, missing)
        /\ Link(b, FALSE, h, c, missing)
        /\ Part(content, <<>>, c, last, missing)
  BY DEF Chain
<1>2. b <= c /\ (~missing => b = c) /\ c <= last
  BY <1>1 DEF Link, Part
<1>3. ~missing => c = last
  BY <1>1 DEF Part
<1>4. Follower(b, content[slot], missing)
  BY <1>2, <1>3 DEF Follower
<1>5. Part(content, Append(qn, slot), a, last + 1, missing)
  <2>1. Part(content, Append(qn, slot), a, content[slot], missing)
    BY <1>1, <1>4, PartAppended
  <2> QED
    BY <2>1
<1>6. Link(last + 1, FALSE, h, last + 1, missing)
  BY DEF Link
<1>7. Part(content, <<>>, last + 1, last + 1, missing)
  BY PartOfNothing
<1> QED
  BY <1>1, <1>5, <1>6, <1>7 DEF Chain

\* The first of two components decodes the next frame.
LEMMA ChainDecodedFirst ==
    ASSUME NEW S, NEW content \in [S -> Nat], NEW lo \in Nat, NEW last \in Nat, NEW missing \in BOOLEAN,
           NEW end, NEW e, NEW hand, NEW h, NEW slot \in S, content[slot] = last + 1,
           NEW qn \in Seq(S), NEW q1 \in Seq(S),
           Chain(content, lo, end, e, qn, hand, h, q1, last, missing)
    PROVE  Chain(content, lo, end, e, qn, hand, h, Append(q1, slot), last + 1, missing)
<1>1. PICK a \in Nat, b \in Nat, c \in Nat :
        /\ Link(lo, end, e, a, missing)
        /\ Part(content, qn, a, b, missing)
        /\ Link(b, hand, h, c, missing)
        /\ Part(content, q1, c, last, missing)
  BY DEF Chain
<1>2. Follower(last, content[slot], missing)
  BY DEF Follower
<1>3. Part(content, Append(q1, slot), c, content[slot], missing)
  BY <1>1, <1>2, PartAppended
<1> QED
  BY <1>1, <1>3 DEF Chain

\* The last component takes the frame that the program hands to it.
LEMMA ChainTaken ==
    ASSUME NEW S, NEW content \in [S -> Nat], NEW lo \in Nat, NEW last \in Nat, NEW missing \in BOOLEAN,
           NEW end, NEW e, NEW g, NEW slot \in S,
           NEW qn \in Seq(S), NEW q1 \in Seq(S),
           Chain(content, lo, end, e, qn, TRUE, content[slot], q1, last, missing)
    PROVE  Chain(content, lo, end, e, Append(qn, slot), FALSE, g, q1, last, missing)
<1>1. PICK a \in Nat, b \in Nat, c \in Nat :
        /\ Link(lo, end, e, a, missing)
        /\ Part(content, qn, a, b, missing)
        /\ Link(b, TRUE, content[slot], c, missing)
        /\ Part(content, q1, c, last, missing)
  BY DEF Chain
<1>2. c = content[slot] /\ Follower(b, content[slot], missing)
  BY <1>1 DEF Link
<1>3. Part(content, Append(qn, slot), a, content[slot], missing)
  BY <1>1, <1>2, PartAppended
<1>4. Link(c, FALSE, g, c, missing)
  BY DEF Link
<1> QED
  BY <1>1, <1>2, <1>3, <1>4 DEF Chain

\* The last component announces its first frame.
LEMMA ChainAnnouncedLast ==
    ASSUME NEW S, NEW content \in [S -> Nat], NEW lo \in Nat, NEW last \in Nat, NEW missing \in BOOLEAN,
           NEW e, NEW hand, NEW h,
           NEW qn \in Seq(S), qn # <<>>, NEW q1 \in Seq(S),
           Chain(content, lo, FALSE, e, qn, hand, h, q1, last, missing)
    PROVE  Chain(content, lo, TRUE, content[Head(qn)], Tail(qn), hand, h, q1, last, missing)
<1>1. PICK a \in Nat, b \in Nat, c \in Nat :
        /\ Link(lo, FALSE, e, a, missing)
        /\ Part(content, qn, a, b, missing)
        /\ Link(b, hand, h, c, missing)
        /\ Part(content, q1, c, last, missing)
  BY DEF Chain
<1>2. /\ Head(qn) \in S
      /\ Follower(a, content[Head(qn)], missing)
      /\ Part(content, Tail(qn), content[Head(qn)], b, missing)
  BY <1>1, PartTail
<1>3. content[Head(qn)] \in Nat
  BY <1>2
<1>4. Link(lo, TRUE, content[Head(qn)], content[Head(qn)], missing)
  BY <1>1, <1>2, <1>3 DEF Link, Follower
<1> QED
  BY <1>1, <1>2, <1>3, <1>4 DEF Chain

\* The first of two components announces its first frame: it is in between.
LEMMA ChainAnnouncedFirst ==
    ASSUME NEW S, NEW content \in [S -> Nat], NEW lo \in Nat, NEW last \in Nat, NEW missing \in BOOLEAN,
           NEW end, NEW e, NEW h,
           NEW qn \in Seq(S), NEW q1 \in Seq(S), q1 # <<>>,
           Chain(content, lo, end, e, qn, FALSE, h, q1, last, missing)
    PROVE  Chain(content, lo, end, e, qn, TRUE, content[Head(q1)], Tail(q1), last, missing)
<1>1. PICK a \in Nat, b \in Nat, c \in Nat :
        /\ Link(lo, end, e, a, missing)
        /\ Part(content, qn, a, b, missing)
        /\ Link(b, FALSE, h, c, missing)
        /\ Part(content, q1, c, last, missing)
  BY DEF Chain
<1>2. /\ Head(q1) \in S
      /\ Follower(c, content[Head(q1)], missing)
      /\ Part(content, Tail(q1), content[Head(q1)], last, missing)
  <2>1. Part(content, q1, c, last, missing)
    BY <1>1
  <2> QED
    BY <2>1, PartTail
<1>3. content[Head(q1)] \in Nat
  BY <1>2
<1>4. Link(b, TRUE, content[Head(q1)], content[Head(q1)], missing)
  BY <1>1, <1>2, <1>3 DEF Link, Follower
<1> QED
  BY <1>1, <1>2, <1>3, <1>4 DEF Chain

\* Nothing is on its way: all that was read has been written.
LEMMA ChainEmpty ==
    ASSUME NEW content, NEW lo \in Nat, NEW last \in Nat, NEW e, NEW h,
           Chain(content, lo, FALSE, e, <<>>, FALSE, h, <<>>, last, FALSE)
    PROVE  lo = last
BY DEF Chain, Link, Part

-----------------------------------------------------------------------------
(* The programs                                                            *)

\* A program decodes a stream, and may encode the frames again, or takes raw
\* frames through one component.
Kind(row) ==
    /\ \/ row.reads = "stream" /\ row.stages = <<"decode">>
       \/ row.reads = "stream" /\ row.stages = <<"decode", "encode">>
       \/ /\ row.reads = "frames" /\ row.stages \in {<<"encode">>, <<"vpp">>}
          /\ \A k \in DOMAIN row.setup : row.setup[k] # "header"
    /\ row.goesOn \subseteq Refusal /\ row.surfaces \in {"internal", "pool", "imported"}
    /\ row.reads = "stream" /\ row.surfaces = "pool" => "MORE_SURFACE" \in row.goesOn

LEMMA RefusalIs ==
    Refusal = {"BUSY", "LOST", "ERROR", "MORE_SURFACE", "VIDEO_PARAM_CHANGED", "INCOMPATIBLE_VIDEO_PARAM",
               "REALLOC_SURFACE", "NOT_ENOUGH_BUFFER"}
BY DEF Refusal, MayRefuse

LEMMA LoopsGoOn == DecodeLoop \subseteq Refusal /\ EncodeLoop \subseteq Refusal /\ VPPLoop \subseteq Refusal
BY RefusalIs DEF DecodeLoop, EncodeLoop, VPPLoop

LEMMA KindsOfDecoders ==
    /\ Kind(HelloDecode) /\ Kind(HelloDecVPP) /\ Kind(LegacyDecode)
    /\ Kind(SharingVAAPIExport) /\ Kind(SharingOCLExport) /\ Kind(HelloTranscode)
<1>1. Kind(HelloDecode)
  BY LoopsGoOn DEF Kind, HelloDecode
<1>2. Kind(HelloDecVPP)
  BY LoopsGoOn DEF Kind, HelloDecode, HelloDecVPP
<1>3. Kind(LegacyDecode)
  BY LoopsGoOn DEF Kind, DecodeLoop, HelloDecode, LegacyDecode
<1>4. Kind(SharingVAAPIExport)
  BY LoopsGoOn DEF Kind, HelloDecode, SharingVAAPIExport
<1>5. Kind(SharingOCLExport)
  BY LoopsGoOn DEF Kind, HelloDecode, SharingVAAPIExport, SharingOCLExport
<1>6. Kind(HelloTranscode)
  BY LoopsGoOn DEF Kind, HelloDecode, HelloTranscode
<1> QED
  BY <1>1, <1>2, <1>3, <1>4, <1>5, <1>6

LEMMA KindsOfEncoders ==
    /\ Kind(HelloEncode) /\ Kind(LegacyEncode) /\ Kind(SharingDX11Import) /\ Kind(SharingOCLImport)
    /\ Kind(SharingVAAPIImport) /\ Kind(HelloVPP) /\ Kind(LegacyVPP)
<1>1. Kind(HelloEncode)
  BY LoopsGoOn DEF Kind, HelloEncode
<1>2. Kind(LegacyEncode)
  BY LoopsGoOn DEF Kind, HelloEncode, LegacyEncode
<1>3. Kind(SharingDX11Import)
  BY LoopsGoOn DEF Kind, HelloEncode, SharingDX11Import
<1>4. Kind(SharingOCLImport)
  BY LoopsGoOn DEF Kind, HelloEncode, SharingDX11Import, SharingOCLImport
<1>5. Kind(SharingVAAPIImport)
  BY LoopsGoOn DEF Kind, HelloEncode, SharingDX11Import, SharingVAAPIImport
<1>6. Kind(HelloVPP)
  BY LoopsGoOn DEF Kind, HelloEncode, HelloVPP
<1>7. Kind(LegacyVPP)
  BY LoopsGoOn DEF Kind, HelloEncode, HelloVPP, LegacyVPP
<1> QED
  BY <1>1, <1>2, <1>3, <1>4, <1>5, <1>6, <1>7

LEMMA Kinds ==
    ASSUME NEW p \in Programs
    PROVE  Kind(Program[p])
<1>1. p \in DOMAIN Program
  BY ProgramsAssumption
<1>2. Program[p] \in {HelloDecode, HelloDecVPP, LegacyDecode, SharingVAAPIExport, SharingDX11Export,
                     SharingOCLExport, HelloEncode, HelloEncodeJPEG, LegacyEncode, SharingVAAPIImport,
                     SharingDX11Import, SharingOCLImport, HelloVPP, LegacyVPP, HelloTranscode}
  BY <1>1 DEF Program
<1> QED
  BY <1>2, KindsOfDecoders, KindsOfEncoders DEF SharingDX11Export, HelloEncodeJPEG

\* What follows for the program that runs.
LEMMA StagesOfProgram ==
    ASSUME prog \in Programs
    PROVE  /\ Stages \in {1, 2} /\ Stage = 1..Stages
           /\ P.reads \in {"stream", "frames"} /\ (Stages = 2 => P.reads = "stream")
           /\ \A s \in Stage : /\ P.stages[s] \in {"decode", "encode", "vpp"}
                               /\ P.stages[s] = "decode" <=> P.reads = "stream" /\ s = 1
           /\ P.reads = "frames" => \A k \in DOMAIN P.setup : P.setup[k] # "header"
<1>1. Kind(P)
  BY Kinds DEF P
<1> HIDE DEF P
<1>2. CASE P.reads = "stream" /\ P.stages = <<"decode">>
  BY <1>2 DEF Stages, Stage
<1>3. CASE P.reads = "stream" /\ P.stages = <<"decode", "encode">>
  BY <1>3 DEF Stages, Stage
<1>4. CASE /\ P.reads = "frames" /\ P.stages \in {<<"encode">>, <<"vpp">>}
           /\ \A k \in DOMAIN P.setup : P.setup[k] # "header"
  <2>1. Len(P.stages) = 1 /\ P.stages[1] \in {"encode", "vpp"}
    <3>1. CASE P.stages = <<"encode">>
      BY ONLY <3>1
    <3>2. CASE P.stages = <<"vpp">>
      BY ONLY <3>2
    <3> QED
      BY ONLY <1>4, <3>1, <3>2
  <2>2. Stages = 1 /\ Stage = 1..1
    BY <2>1 DEF Stages, Stage
  <2> QED
    BY <1>4, <2>1, <2>2
<1> QED
  BY <1>1, <1>2, <1>3, <1>4 DEF Kind

LEMMA ComponentIs ==
    ASSUME prog \in Programs, Fields
    PROVE  Component \in {"decode", "encode", "vpp"}
BY StagesOfProgram DEF Component, Fields

\* A program that looks for another surface only decodes.
LEMMA AnotherIsDecoded ==
    ASSUME prog \in Programs, Fields, AnotherSurface
    PROVE  Component = "decode"
<1>1. P.stages = <<"decode">>
  BY DEF AnotherSurface, P, Program, LegacyDecode, HelloDecode
<1>2. ctl.stage = 1
  BY <1>1, StagesOfProgram DEF Fields, Stages, Stage
<1> QED
  BY <1>1, <1>2 DEF Component

LEMMA RefusedOfProgram ==
    ASSUME prog \in Programs
    PROVE  /\ P.goesOn \subseteq Refusal /\ P.surfaces \in {"internal", "pool", "imported"}
           /\ P.reads = "stream" /\ P.surfaces = "pool" => "MORE_SURFACE" \in P.goesOn
BY Kinds DEF P, Kind

-----------------------------------------------------------------------------
(* Free surfaces                                                           *)

LEMMA SlotNumbers == InSide \subseteq Slot /\ OutSide \subseteq Slot /\ Slot \subseteq Nat
BY ExamplesAssumption DEF InSide, OutSide, Slot

LEMMA LowestIsThere ==
    ASSUME NEW S \in SUBSET Nat
    PROVE  /\ S = {} => Lowest(S) = None
           /\ S # {} => Lowest(S) \in S
<1>1. ASSUME S # {}
      PROVE  \E i \in S : \A j \in S : i <= j
  <2> DEFINE Less == OpToRel(<, Nat)
  <2>1. \A i, j \in Nat : i < j => <<i, j>> \in Less
    BY DEF OpToRel
  <2>2. IsWellFoundedOn(Less, Nat)
    BY NatLessThanWellFounded
  <2> HIDE DEF Less
  <2>3. PICK i \in S : \A j \in S : ~ (<<j, i>> \in Less)
    BY <1>1, <2>2, WFMin
  <2>4. ASSUME NEW j \in S
        PROVE  i <= j
    <3>1. i \in Nat /\ j \in Nat /\ ~(j < i)
      BY <2>1, <2>3
    <3> QED
      BY <3>1
  <2> QED
    BY <2>4
<1> QED
  BY <1>1 DEF Lowest

\* What the queues and references of the runtime have is locked.
LEMMA QueuesLocked ==
    ASSUME NEW s \in Stage
    PROVE  /\ \A k \in DOMAIN rt.queue[s] : rt.queue[s][k] \in Locked
           /\ ToSet(rt.queue[s]) \subseteq Locked /\ rt.ref[s] \subseteq Locked
<1>1. ToSet(rt.queue[s]) \subseteq Locked /\ rt.ref[s] \subseteq Locked
  <2> DEFINE Uses(t) == ToSet(rt.queue[t]) \cup rt.ref[t]
  <2>1. UNION {Uses(t) : t \in Stage} \subseteq Locked
    BY DEF Locked
  <2>2. Uses(s) \in {Uses(t) : t \in Stage}
    OBVIOUS
  <2>3. Uses(s) \subseteq Locked
    <3> HIDE DEF Uses
    <3> QED
      BY <2>1, <2>2
  <2> QED
    BY <2>3
<1>2. \A k \in DOMAIN rt.queue[s] : rt.queue[s][k] \in ToSet(rt.queue[s])
  BY DEF ToSet
<1> QED
  BY <1>1, <1>2

\* The surface a program finds or gets is one of the side it looks at, and is
\* not locked, if there is one.
LEMMA SurfaceFound ==
    ASSUME NEW side \in SUBSET Slot
    PROVE  /\ GetFreeSurfaceIndex(side) # None => GetFreeSurfaceIndex(side) \in side \ Locked
           /\ GetSurface(side) # None => GetSurface(side) \in side \ Locked
           /\ GetFreeSurfaceIndex(side) \in side \cup {None}
           /\ GetSurface(side) \in side \cup {None}
<1>1. side \ Locked \in SUBSET Nat /\ side \ (Locked \cup surf.app) \in SUBSET Nat
  BY SlotNumbers
<1> QED
  BY <1>1, LowestIsThere DEF GetFreeSurfaceIndex, GetSurface

\* A queue has at most as many slots as entries.
LEMMA SlotsOfQueue ==
    ASSUME NEW S, NEW q \in Seq(S)
    PROVE  IsFiniteSet(ToSet(q)) /\ Cardinality(ToSet(q)) \in Nat /\ Cardinality(ToSet(q)) <= Len(q)
<1>1. Len(q) \in Nat /\ DOMAIN q = 1..Len(q)
  OBVIOUS
<1>2. q \in Surjection(1..Len(q), ToSet(q))
  <2>1. q \in [1..Len(q) -> ToSet(q)]
    BY <1>1 DEF ToSet
  <2>2. \A x \in ToSet(q) : \E k \in 1..Len(q) : q[k] = x
    BY <1>1 DEF ToSet
  <2> QED
    BY <2>1, <2>2 DEF Surjection
<1>3. IsFiniteSet(1..Len(q)) /\ Cardinality(1..Len(q)) = Len(q)
  <2>1. 1 \in Int /\ Len(q) \in Int
    BY <1>1
  <2>2. IsFiniteSet(1..Len(q)) /\ Cardinality(1..Len(q)) = IF 1 > Len(q) THEN 0 ELSE Len(q) - 1 + 1
    BY <2>1, FS_Interval
  <2> QED
    BY <1>1, <2>2
<1>4. IsFiniteSet(ToSet(q)) /\ Cardinality(ToSet(q)) <= Len(q)
  BY <1>2, <1>3, FS_Surjection
<1> QED
  BY <1>4, FS_CardinalityType

\* A queue of at most n slots and one reference leave one of n + 2 surfaces.
LEMMA SlotLeft ==
    ASSUME NEW S, NEW q \in Seq(S), NEW x, NEW R \in SUBSET {x}, NEW n \in Nat, Len(q) <= n,
           NEW T, IsFiniteSet(T), Cardinality(T) >= n + 2
    PROVE  T \ (ToSet(q) \cup R) # {}
<1>1. IsFiniteSet(ToSet(q)) /\ Cardinality(ToSet(q)) \in Nat /\ Cardinality(ToSet(q)) <= n
  <2>1. Len(q) \in Nat
    OBVIOUS
  <2> QED
    BY <2>1, SlotsOfQueue
<1>2. /\ IsFiniteSet(ToSet(q) \cup {x})
      /\ Cardinality(ToSet(q) \cup {x}) \in Nat /\ Cardinality(ToSet(q) \cup {x}) <= n + 1
  <2>1. /\ IsFiniteSet(ToSet(q) \cup {x})
        /\ Cardinality(ToSet(q) \cup {x}) =
              IF x \in ToSet(q) THEN Cardinality(ToSet(q)) ELSE Cardinality(ToSet(q)) + 1
    BY <1>1, FS_AddElement
  <2> QED
    BY <2>1, <1>1
<1>3. Cardinality(T) \in Nat
  BY FS_CardinalityType
<1>4. ~ (T \subseteq ToSet(q) \cup {x})
  <2> SUFFICES ASSUME T \subseteq ToSet(q) \cup {x}
               PROVE  FALSE
    OBVIOUS
  <2>1. Cardinality(T) <= Cardinality(ToSet(q) \cup {x})
    BY <1>2, FS_Subset
  <2> QED
    BY <2>1, <1>2, <1>3
<1> QED
  BY <1>4

LEMMA DelayNumber ==
    ASSUME NEW c \in {"decode", "encode", "vpp"}
    PROVE  Delay[c] \in Nat
BY ExamplesAssumption

\* A program that has no task finds a free surface in its pool of inputs.
LEMMA InputFound ==
    ASSUME prog \in Programs, P.reads = "frames", rt.task = None, rt.queue \in [Stage -> Seq(Slot)],
           Len(rt.queue[1]) <= Delay[P.stages[1]], NEW x, rt.ref[1] \subseteq {x}
    PROVE  GetFreeSurfaceIndex(InSide) \in InSide \ Locked
<1>1. Stage = {1} /\ P.stages[1] \in {"decode", "encode", "vpp"}
  BY StagesOfProgram
<1>2. Locked = ToSet(rt.queue[1]) \cup rt.ref[1]
  BY <1>1 DEF Locked
<1>3. rt.queue[1] \in Seq(Slot)
  BY <1>1
<1>4. /\ Delay[P.stages[1]] \in Nat /\ Surfaces \in Nat /\ Surfaces >= Delay[P.stages[1]] + 2
  <2>1. \A c \in {"decode", "encode", "vpp"} : Delay[c] \in Nat
    BY DelayNumber
  <2>2. Delay["vpp"] = 0 /\ Surfaces \in Nat /\ Surfaces >= Delay["decode"] + Delay["encode"] + 2
    BY ExamplesAssumption
  <2>3. \A c \in {"decode", "encode", "vpp"} : Surfaces >= Delay[c] + 2
    BY <2>1, <2>2
  <2> QED
    BY <1>1, <2>1, <2>2, <2>3
<1>5. IsFiniteSet(InSide) /\ Cardinality(InSide) = Surfaces
  <2>1. Surfaces \in Int /\ 1 \in Int /\ Surfaces >= 2
    BY <1>4
  <2>2. IsFiniteSet(1..Surfaces) /\ Cardinality(1..Surfaces) = IF 1 > Surfaces THEN 0 ELSE Surfaces - 1 + 1
    BY <2>1, FS_Interval
  <2> QED
    BY <2>1, <2>2 DEF InSide
<1>6. InSide \ Locked # {}
  <2> DEFINE n == Delay[P.stages[1]]
             q == rt.queue[1]
             R == rt.ref[1]
  <2>1. q \in Seq(Slot) /\ R \in SUBSET {x} /\ n \in Nat /\ Len(q) <= n
    BY <1>3, <1>4
  <2>2. IsFiniteSet(InSide) /\ Cardinality(InSide) >= n + 2
    BY <1>4, <1>5
  <2> HIDE DEF n, q, R
  <2>3. InSide \ (ToSet(q) \cup R) # {}
    BY <2>1, <2>2, SlotLeft
  <2> QED
    BY <2>3, <1>2 DEF q, R
<1>7. InSide \ Locked \in SUBSET Nat
  BY SlotNumbers
<1> QED
  BY <1>6, <1>7, LowestIsThere DEF GetFreeSurfaceIndex

LEMMA StartNumbers ==
    ASSUME NEW f \in 1..NFrames + 1, NEW g \in 1..NFrames + 1
    PROVE  Start[f] \in Nat /\ (f < g => Start[f] < Start[g])
BY ExamplesAssumption

LEMMA StreamSizeNumber == StreamSize \in Nat /\ NFrames \in Nat \ {0} /\ BufferSize \in Nat \ {0}
BY ExamplesAssumption DEF StreamSize

-----------------------------------------------------------------------------
(* The steps                                                               *)

LEMMA SameProgram ==
    ASSUME prog' = prog
    PROVE  P' = P /\ Stages' = Stages /\ Stage' = Stage
<1>1. P' = P
  BY DEF P
<1> QED
  BY <1>1 DEF Stages, Stage

LEMMA QueuesTyped ==
    ASSUME prog \in Programs, Source, Fields
    PROVE  /\ rt.queue[Stages] \in Seq(Slot) /\ FirstQueue \in Seq(Slot)
           /\ Copy!LastOut \in Nat /\ LastRead \in Nat
           /\ Stages \in Stage /\ 1 \in Stage
<1>1. Stages \in Stage /\ 1 \in Stage /\ P.reads \in {"stream", "frames"}
  BY StagesOfProgram
<1>2. rt.queue[Stages] \in Seq(Slot) /\ rt.queue[1] \in Seq(Slot)
  BY <1>1 DEF Fields
<1>3. FirstQueue \in Seq(Slot)
  BY <1>2 DEF FirstQueue
<1>4. Copy!LastOut \in Nat
  BY DEF Copy!LastOut, Fields
<1>5. LastRead \in Nat
  BY StreamSizeNumber DEF Source, LastRead
<1> QED
  BY <1>1, <1>2, <1>3, <1>4, <1>5

\* The frames on their way stay where they are, or the program drops one and
\* some may be missing.
LEMMA ChainKept ==
    ASSUME prog \in Programs, Source, Fields, Chained,
           prog' = prog, out' = out, LastRead' = LastRead,
           surf'.content = surf.content, rt'.queue = rt.queue, unhandled' \in BOOLEAN,
           AtEnd' => AtEnd /\ Announced' = Announced,
           InHand' => InHand /\ Hand' = Hand,
           unhandled' \/ (~unhandled /\ (AtEnd => AtEnd') /\ (InHand => InHand'))
    PROVE  Chained'
<1>1. Stages' = Stages /\ Copy!LastOut' = Copy!LastOut
  BY SameProgram DEF Copy!LastOut
<1>2. rt'.queue[Stages]  = rt.queue[Stages] /\ FirstQueue' = FirstQueue
  BY <1>1 DEF FirstQueue
<1>3. /\ rt.queue[Stages] \in Seq(Slot) /\ FirstQueue \in Seq(Slot)
      /\ Copy!LastOut \in Nat /\ LastRead \in Nat /\ surf.content \in [Slot -> Nat]
      /\ unhandled \in BOOLEAN
  BY QueuesTyped DEF Fields
<1>4. /\ AtEnd \in BOOLEAN /\ AtEnd' \in BOOLEAN /\ InHand \in BOOLEAN /\ InHand' \in BOOLEAN
  BY DEF AtEnd, InHand, Carries, HasTask
<1>5. Chain(surf.content, Copy!LastOut, AtEnd, Announced, rt.queue[Stages], InHand, Hand, FirstQueue,
            LastRead, unhandled)
  BY DEF Chained
<1>6. CASE unhandled'
  <2>1. PICK a \in Nat, b \in Nat, c \in Nat :
          /\ Link(Copy!LastOut, AtEnd, Announced, a, unhandled)
          /\ Part(surf.content, rt.queue[Stages], a, b, unhandled)
          /\ Link(b, InHand, Hand, c, unhandled)
          /\ Part(surf.content, FirstQueue, c, LastRead, unhandled)
    BY <1>5 DEF Chain
  <2>2. unhandled' = TRUE
    BY <1>6
  <2>3. Link(Copy!LastOut, AtEnd', Announced', a, TRUE)
    BY <2>1, <1>3 DEF Link, Follower
  <2>4. Link(b, InHand', Hand', c, TRUE)
    BY <2>1, <1>3 DEF Link, Follower
  <2>5. Part(surf.content, rt.queue[Stages], a, b, TRUE)
    <3>1. a <= a /\ Part(surf.content, rt.queue[Stages], a, b, unhandled)
      BY <2>1
    <3> QED
      BY <3>1, <1>3, PartRelaxed
  <2>6. Part(surf.content, FirstQueue, c, LastRead, TRUE)
    <3>1. c <= c /\ Part(surf.content, FirstQueue, c, LastRead, unhandled)
      BY <2>1
    <3> QED
      BY <3>1, <1>3, PartRelaxed
  <2> QED
    BY <2>2, <2>3, <2>4, <2>5, <2>6, <1>1, <1>2 DEF Chained, Chain
<1>7. CASE ~unhandled'
  <2>1. Chain(surf.content, Copy!LastOut, AtEnd, Announced', rt.queue[Stages], InHand, Hand', FirstQueue,
              LastRead, unhandled)
    <3>1. (AtEnd => Announced' = Announced) /\ (InHand => Hand' = Hand)
      BY <1>7
    <3>2. /\ \A k \in DOMAIN rt.queue[Stages] :
                surf.content[rt.queue[Stages][k]] = surf.content[rt.queue[Stages][k]]
          /\ \A k \in DOMAIN FirstQueue : surf.content[FirstQueue[k]] = surf.content[FirstQueue[k]]
      OBVIOUS
    <3> QED
      BY ONLY <3>1, <3>2, <1>3, <1>5, ChainContent
  <2>2. unhandled' = unhandled /\ AtEnd' = AtEnd /\ InHand' = InHand
    BY <1>3, <1>4, <1>7
  <2> QED
    BY <2>1, <2>2, <1>1, <1>2 DEF Chained
<1> QED
  BY <1>6, <1>7

\* What a running program may rely on.
LEMMA AtWork ==
    ASSUME Resources, Flow, Running
    PROVE  /\ prog \in Programs /\ Shapes /\ ctl.failed = FALSE
           /\ Source /\ Fields /\ Tasks /\ Drains /\ Answers /\ FewKept /\ Chained /\ Written
BY DEF Resources, Flow

\* A program that reads an encoded stream keeps its place within the stream.
LEMMA ReadsStream ==
    ASSUME prog \in Programs, Source, P.reads = "stream"
    PROVE  LET r == ReadEncodedStream(input)
           IN  /\ DOMAIN r.input = {"file", "parsed", "bs"} /\ DOMAIN r.input.bs = {"offset", "length"}
               /\ r.input.parsed = input.parsed
               /\ r.input.file \in 0..StreamSize /\ r.input.bs.length \in 0..BufferSize
               /\ r.sts \in {"NONE", "MORE_DATA", "NOT_ENOUGH_BUFFER"}
               /\ r.sts = "NONE" => r.input.bs.length > 0
               /\ r.sts = "MORE_DATA" => r.input.file = StreamSize /\ r.input.bs.length = 0
<1> DEFINE rest == StreamSize - input.file
           n == IF BufferSize - input.bs.length < rest THEN BufferSize - input.bs.length ELSE rest
<1>1. /\ input.file \in 0..StreamSize /\ input.bs.length \in 0..BufferSize
      /\ StreamSize \in Nat /\ BufferSize \in Nat \ {0}
      /\ DOMAIN input = {"file", "parsed", "bs"} /\ DOMAIN input.bs = {"offset", "length"}
  BY StreamSizeNumber DEF Source
<1>2. /\ n \in Nat /\ input.file + n \in 0..StreamSize /\ input.bs.length + n \in 0..BufferSize
      /\ input.bs.length + n = 0 => input.file + n = StreamSize
  BY <1>1
<1> HIDE DEF n
<1> DEFINE read == [input EXCEPT !.file = @ + n, !.bs = [offset |-> 0, length |-> input.bs.length + n]]
<1>3. /\ DOMAIN read = {"file", "parsed", "bs"} /\ DOMAIN read.bs = {"offset", "length"}
      /\ read.parsed = input.parsed /\ read.file = input.file + n /\ read.bs.length = input.bs.length + n
  BY <1>1
<1> HIDE DEF read
<1>4. CASE input.bs.offset > BufferSize - 1 \/ input.bs.length + input.bs.offset > BufferSize
  BY <1>4, <1>1 DEF ReadEncodedStream
<1>5. CASE ~(input.bs.offset > BufferSize - 1 \/ input.bs.length + input.bs.offset > BufferSize)
  <2>1. ReadEncodedStream(input) =
          [sts |-> IF input.bs.length + n = 0 THEN "MORE_DATA" ELSE "NONE", input |-> read]
    BY <1>5 DEF ReadEncodedStream, n, read
  <2> QED
    BY <2>1, <1>2, <1>3, <1>1
<1> QED
  BY <1>4, <1>5

\* A step that moves no frame, or drops one, has to keep the account of tasks, of
\* draining and of answers.
LEMMA QuietFlows ==
    ASSUME Resources, Flow, Running,
           prog' = prog, out' = out, LastRead' = LastRead, rt'.queue = rt.queue, rt'.ref = rt.ref,
           surf'.content = surf.content, DOMAIN surf' = DOMAIN surf, surf'.work \in Slot \cup {None},
           ctl'.failed = FALSE, ctl'.stage \in Stage, ctl'.draining \in 0..Stages, ctl'.timeouts \in Nat,
           Source', Tasks', Drains', Answers', unhandled' \in BOOLEAN,
           AtEnd' => AtEnd /\ Announced' = Announced,
           InHand' => InHand /\ Hand' = Hand,
           unhandled' \/ (~unhandled /\ (AtEnd => AtEnd') /\ (InHand => InHand'))
    PROVE  Flow'
<1>1. /\ prog \in Programs /\ Source /\ Fields /\ FewKept /\ Chained /\ Written
  BY AtWork
<1>2. P' = P /\ Stages' = Stages /\ Stage' = Stage
  BY SameProgram
<1>3. Fields'
  BY <1>1, <1>2 DEF Fields
<1>4. FewKept'
  BY <1>1, <1>2 DEF FewKept
<1>5. Written'
  BY <1>1 DEF Written, Copy!LastOut
<1>6. Chained'
  BY <1>1, ChainKept
<1> QED
  BY <1>3, <1>4, <1>5, <1>6 DEF Flow

LEMMA SetupStepFlows ==
    ASSUME Resources, Flow, SetupStep
    PROVE  Flow'
<1>1. /\ prog \in Programs /\ Shapes /\ ctl.failed = FALSE
      /\ Source /\ Fields /\ Tasks /\ Drains
  BY AtWork DEF SetupStep, Running
<1>2. /\ ctl.pc = "setup"
      /\ prog' = prog /\ rt' = rt /\ unhandled' = unhandled /\ out' = out
      /\ surf' = surf \/ surf' = [surf EXCEPT !.work = GetFreeSurfaceIndex(OutSide)]
      /\ ctl' \in {Goto(ctl, "load"), [ctl EXCEPT !.step = @ + 1]}
      /\ input' = input \/ (P.setup[ctl.step] = "header" /\ input' = ReadEncodedStream(input).input)
  BY DEF SetupStep
<1>3. /\ P' = P /\ Stages' = Stages /\ Stage' = Stage
      /\ ctl'.pc \in {"setup", "load"} /\ ctl'.stage = ctl.stage /\ ctl'.draining = ctl.draining
      /\ ctl'.failed = ctl.failed /\ ctl'.timeouts = ctl.timeouts
  BY <1>1, <1>2, SameProgram DEF Shapes, Goto
<1>4. input' = input \/ (P.reads = "stream" /\ input' = ReadEncodedStream(input).input)
  <2>1. ctl.step \in DOMAIN P.setup
    BY <1>1, <1>2, RowLengths DEF Resources, ResourcesAt, P
  <2> QED
    BY <1>1, <1>2, <2>1, StagesOfProgram
<1>5. Source' /\ input'.parsed = input.parsed /\ (P.reads = "frames" => input' = input)
  BY <1>1, <1>3, <1>4, ReadsStream, StagesOfProgram DEF Source
<1>6. LastRead' = LastRead
  BY <1>3, <1>5, <1>1, StagesOfProgram DEF LastRead
<1>7. DOMAIN surf' = DOMAIN surf /\ surf'.content = surf.content /\ surf'.work \in Slot \cup {None}
  BY <1>1, <1>2, SlotNumbers, SurfaceFound DEF Fields
<1>8. ~HasTask /\ ~HasTask' /\ ~Carries /\ ~Carries'
  BY <1>2, <1>3 DEF HasTask, Carries
<1>9. Tasks'
  BY <1>1, <1>2, <1>3, <1>8 DEF Tasks
<1>10. Drains' /\ Answers'
  <2>1. ctl'.draining = 0
    BY <1>1, <1>2, <1>3 DEF Drains
  <2> QED
    BY <2>1, <1>3 DEF Drains, Answers
<1>11. ~AtEnd /\ ~AtEnd' /\ ~InHand /\ ~InHand' /\ Running
  BY <1>2, <1>8 DEF AtEnd, InHand, Running
<1> QED
  BY <1>1, <1>2, <1>3, <1>5, <1>6, <1>7, <1>9, <1>10, <1>11, QuietFlows DEF Fields

\* A program that has left the loop is not bound any more.
LEMMA EndFlows ==
    ASSUME Resources, SetupFails \/ LoadFails \/ HandleUnknown \/ SyncTimeout \/ WriteFails \/ Cleanup
    PROVE  Flow' /\ ctl'.pc \in {"cleanup", "done"}
<1>1. Shapes
  BY DEF Resources
<1>2. Fail(ctl).pc \in {"cleanup", "done"} /\ CleanUp(ctl).pc = "cleanup"
  BY <1>1 DEF Shapes, Fail, CleanUp
<1>3. ctl'.pc \in {"cleanup", "done"}
  <2>1. CASE SetupFails \/ LoadFails \/ HandleUnknown \/ SyncTimeout \/ WriteFails
    BY <2>1, <1>2 DEF SetupFails, LoadFails, HandleUnknown, SyncTimeout, WriteFails
  <2>2. CASE Cleanup
    BY <2>2, <1>1 DEF Cleanup, Goto, Shapes
  <2> QED
    BY <2>1, <2>2
<1> QED
  BY <1>3 DEF Flow, Running, InLoop

LEMMA LoadNothingFlows ==
    ASSUME Resources, Flow, LoadNothing
    PROVE  Flow'
<1>1. /\ prog \in Programs /\ Shapes /\ ctl.failed = FALSE
      /\ Source /\ Fields /\ Tasks /\ Drains
  BY AtWork DEF LoadNothing, Running, InLoop
<1>2. /\ ctl.pc = "load" /\ ctl.draining > 0
      /\ prog' = prog /\ rt' = rt /\ unhandled' = unhandled /\ out' = out /\ input' = input
      /\ surf' = surf \/ surf' = [surf EXCEPT !.work = GetFreeSurfaceIndex(OutSide)]
      /\ ctl' = [Goto(ctl, "call") EXCEPT !.stage = ctl.draining, !.timeouts = 0]
  BY DEF LoadNothing, IsDraining
<1>3. /\ P' = P /\ Stages' = Stages /\ Stage' = Stage
      /\ ctl'.pc = "call" /\ ctl'.stage = ctl.draining /\ ctl'.draining = ctl.draining
      /\ ctl'.failed = ctl.failed /\ ctl'.timeouts = 0
  BY <1>1, <1>2, SameProgram DEF Shapes, Goto
<1>4. Stages \in {1, 2} /\ Stage = 1..Stages
  BY <1>1, StagesOfProgram
<1>5. ctl.draining \in Stage /\ NullInput'
  BY <1>1, <1>2, <1>3, <1>4 DEF Fields, NullInput
<1>6. Source' /\ LastRead' = LastRead
  BY <1>1, <1>2, <1>3 DEF Source, LastRead
<1>7. DOMAIN surf' = DOMAIN surf /\ surf'.content = surf.content /\ surf'.work \in Slot \cup {None}
  BY <1>1, <1>2, SlotNumbers, SurfaceFound DEF Fields
<1>8. ~HasTask /\ ~HasTask' /\ ~Carries /\ ~Carries' /\ Running
  BY <1>2, <1>3, <1>5 DEF HasTask, Carries, Running, InLoop
<1>9. Tasks'
  BY <1>1, <1>2, <1>3, <1>8 DEF Tasks
<1>10. Drains' /\ Answers'
  BY <1>1, <1>2, <1>3, <1>5 DEF Drains, Answers
<1>11. ~AtEnd /\ ~AtEnd' /\ ~InHand /\ ~InHand'
  BY <1>8 DEF AtEnd, InHand
<1>12. /\ rt'.queue = rt.queue /\ rt'.ref = rt.ref /\ unhandled' \in BOOLEAN
       /\ ctl'.failed = FALSE /\ ctl'.stage \in Stage /\ ctl'.draining \in 0..Stages /\ ctl'.timeouts \in Nat
       /\ unhandled' \/ ~unhandled
  BY <1>1, <1>2, <1>3, <1>5 DEF Fields
<1> QED
  BY <1>2, <1>6, <1>7, <1>8, <1>9, <1>10, <1>11, <1>12, QuietFlows

LEMMA LoadStreamFlows ==
    ASSUME Resources, Flow, LoadStream
    PROVE  Flow'
<1> DEFINE r == ReadEncodedStream(input)
<1>1. /\ prog \in Programs /\ Shapes /\ ctl.failed = FALSE
      /\ Source /\ Fields /\ Tasks /\ Drains
  BY AtWork DEF LoadStream, Running, InLoop
<1>2. /\ ctl.pc = "load" /\ ~(ctl.draining > 0) /\ P.reads = "stream"
      /\ prog' = prog /\ rt' = rt /\ surf' = surf /\ out' = out /\ input' = r.input
      /\ unhandled' = (unhandled \/ r.sts = "NOT_ENOUGH_BUFFER")
      /\ \/ r.sts = "NONE" /\ ctl' = [Goto(ctl, "call") EXCEPT !.stage = 1, !.timeouts = 0]
         \/ r.sts # "NONE" /\ ctl' = Drain([Goto(ctl, "call") EXCEPT !.stage = 1, !.timeouts = 0])
  BY DEF LoadStream, IsDraining
<1>3. /\ DOMAIN r.input = {"file", "parsed", "bs"} /\ DOMAIN r.input.bs = {"offset", "length"}
      /\ r.input.parsed = input.parsed
      /\ r.input.file \in 0..StreamSize /\ r.input.bs.length \in 0..BufferSize
      /\ r.sts \in {"NONE", "MORE_DATA", "NOT_ENOUGH_BUFFER"}
      /\ r.sts = "NONE" => r.input.bs.length > 0
      /\ r.sts = "MORE_DATA" => r.input.file = StreamSize /\ r.input.bs.length = 0
  BY <1>1, <1>2, ReadsStream
<1> HIDE DEF r
<1>4. /\ Stages \in {1, 2} /\ Stage = 1..Stages /\ P.stages[1] = "decode"
  BY <1>1, <1>2, StagesOfProgram
<1>5. /\ P' = P /\ Stages' = Stages /\ Stage' = Stage
      /\ ctl'.pc = "call" /\ ctl'.stage = 1 /\ ctl'.failed = ctl.failed /\ ctl'.timeouts = 0
      /\ ctl'.draining = IF r.sts = "NONE" THEN 0 ELSE 1
  <2>1. ctl.draining = 0
    BY <1>1, <1>2, <1>4 DEF Fields
  <2> QED
    BY <1>1, <1>2, <2>1, SameProgram DEF Shapes, Goto, Drain
<1>6. Component' = "decode" /\ (NullInput' <=> r.sts # "NONE")
  BY <1>4, <1>5 DEF Component, NullInput
<1>7. Source' /\ LastRead' = LastRead
  BY <1>1, <1>2, <1>3, <1>5 DEF Source, LastRead
<1>8. ~HasTask /\ ~HasTask' /\ ~Carries /\ ~Carries' /\ Running
  BY <1>2, <1>5, <1>6 DEF HasTask, Carries, Running, InLoop
<1>9. Tasks'
  BY <1>1, <1>2, <1>5, <1>8 DEF Tasks
<1>10. Drains' /\ Answers'
  <2>1. input' = r.input /\ P'.reads = "stream" /\ ctl'.draining \in {0, 1} /\ ctl'.pc = "call"
    BY <1>2, <1>5
  <2>2. ctl'.draining > 0 => unhandled' \/ (input'.file = StreamSize /\ input'.bs.length = 0)
    <3>1. CASE r.sts = "NONE"
      BY <3>1, <1>5
    <3>2. CASE r.sts = "MORE_DATA"
      BY <3>2, <1>3, <2>1
    <3>3. CASE r.sts = "NOT_ENOUGH_BUFFER"
      BY <3>3, <1>2
    <3> QED
      BY <3>1, <3>2, <3>3, <1>3
  <2>3. ~NullInput' => input'.bs.length > 0
    BY <1>2, <1>3, <1>6
  <2> QED
    BY <2>1, <2>2, <2>3 DEF Drains, Answers
<1>11. ~AtEnd /\ ~AtEnd' /\ ~InHand /\ ~InHand'
  BY <1>8 DEF AtEnd, InHand
<1>12. /\ rt'.queue = rt.queue /\ rt'.ref = rt.ref /\ unhandled' \in BOOLEAN
       /\ ctl'.failed = FALSE /\ ctl'.stage \in Stage /\ ctl'.draining \in 0..Stages /\ ctl'.timeouts \in Nat
       /\ unhandled' \/ ~unhandled
       /\ surf'.content = surf.content /\ DOMAIN surf' = DOMAIN surf /\ surf'.work \in Slot \cup {None}
  BY <1>1, <1>2, <1>4, <1>5 DEF Fields
<1> QED
  BY <1>2, <1>7, <1>8, <1>9, <1>10, <1>11, <1>12, QuietFlows

LEMMA ReadFailsFlows ==
    ASSUME Resources, Flow, ReadFails
    PROVE  Flow'
<1>1. /\ prog \in Programs /\ Shapes /\ ctl.failed = FALSE
      /\ Source /\ Fields /\ Tasks /\ Drains
  BY AtWork DEF ReadFails, Running, InLoop
<1>2. CASE prog = "hello_vpp"
  BY <1>2, <1>1 DEF ReadFails, Flow, Running, InLoop, Fail, CleanUp, Shapes
<1>3. CASE prog # "hello_vpp"
  <2>1. /\ ctl.pc = "load" /\ ~(ctl.draining > 0)  /\ P.reads = "frames"
        /\ prog' = prog /\ rt' = rt /\ input' = input /\ out' = out
        /\ unhandled' = TRUE
        /\ ctl' = Drain(Goto(ctl, "call"))
        /\ \E in : surf' = [surf EXCEPT !.given = in, !.app = @ \cup {in}]
    BY <1>3, <1>1 DEF ReadFails, IsDraining
  <2>2. /\ P' = P /\ Stages' = Stages /\ Stage' = Stage
        /\ ctl'.pc = "call" /\ ctl'.stage = ctl.stage /\ ctl'.failed = ctl.failed /\ ctl'.timeouts = ctl.timeouts
        /\ ctl'.draining = 1
    BY <1>1, <2>1, SameProgram DEF Shapes, Goto, Drain
  <2>3. Stages = 1 /\ ctl.stage = 1
    BY <1>1, <2>1, StagesOfProgram DEF Fields
  <2>4. NullInput'
    BY <2>2, <2>3 DEF NullInput
  <2>5. Source' /\ LastRead' = LastRead
    BY <1>1, <2>1, <2>2 DEF Source, LastRead
  <2>6. DOMAIN surf' = DOMAIN surf /\ surf'.content = surf.content /\ surf'.work \in Slot \cup {None}
    BY <1>1, <2>1 DEF Fields
  <2>7. ~HasTask /\ ~HasTask' /\ ~Carries /\ ~Carries' /\ Running
    BY <2>1, <2>2, <2>4 DEF HasTask, Carries, Running, InLoop
  <2>8. Tasks'
    BY <1>1, <2>1, <2>2, <2>7 DEF Tasks
  <2>9. Drains' /\ Answers'
    BY <1>1, <2>1, <2>2, <2>4 DEF Drains, Answers
  <2>10. ~AtEnd /\ ~AtEnd' /\ ~InHand /\ ~InHand'
    BY <2>7 DEF AtEnd, InHand
  <2>11. ctl'.stage \in Stage /\ ctl'.draining \in 0..Stages
    BY <1>1, <2>2, <2>3 DEF Fields
  <2> QED
    BY <1>1, <2>1, <2>2, <2>5, <2>6, <2>7, <2>8, <2>9, <2>10, <2>11, QuietFlows DEF Fields
<1> QED
  BY <1>2, <1>3

\* The runtime returns from a call.
LEMMA Answered ==
    ASSUME prog \in Programs, Shapes, ctl.pc = "call", prog' = prog, NEW s, ctl' = Answer(s)
    PROVE  /\ P' = P /\ Stages' = Stages /\ Stage' = Stage
           /\ ctl'.pc = "answer" /\ ctl'.sts = s
           /\ ctl'.stage = ctl.stage /\ ctl'.draining = ctl.draining /\ ctl'.failed = ctl.failed
           /\ ctl'.timeouts = ctl.timeouts
           /\ Component' = Component /\ (NullInput' <=> NullInput)
           /\ ~Carries' /\ (HasTask' <=> s = "NONE") /\ ~HasTask /\ Running
<1>1. /\ P' = P /\ Stages' = Stages /\ Stage' = Stage
      /\ ctl'.pc = "answer" /\ ctl'.sts = s
      /\ ctl'.stage = ctl.stage /\ ctl'.draining = ctl.draining /\ ctl'.failed = ctl.failed
      /\ ctl'.timeouts = ctl.timeouts
  BY SameProgram DEF Shapes, Answer
<1>2. Component' = Component /\ (NullInput' <=> NullInput)
  BY <1>1 DEF Component, NullInput
<1> QED
  BY <1>1, <1>2 DEF Carries, HasTask, Running, InLoop

LEMMA RtWorkLockedFlows ==
    ASSUME Resources, Flow, RtWorkLocked
    PROVE  Flow'
<1>1. /\ prog \in Programs /\ Shapes /\ ctl.failed = FALSE
      /\ Source /\ Fields /\ Tasks /\ Drains
  BY AtWork DEF RtWorkLocked, Called, Running, InLoop
<1>2. /\ ctl.pc = "call" /\ Component = "decode" /\ ctl' = Answer("MORE_SURFACE")
      /\ prog' = prog /\ input' = input /\ surf' = surf /\ rt' = rt /\ unhandled' = unhandled /\ out' = out
  BY DEF RtWorkLocked, Called
<1>3. /\ P' = P /\ Stages' = Stages /\ Stage' = Stage
      /\ ctl'.pc = "answer" /\ ctl'.sts = "MORE_SURFACE"
      /\ ctl'.stage = ctl.stage /\ ctl'.draining = ctl.draining /\ ctl'.failed = ctl.failed
      /\ ctl'.timeouts = ctl.timeouts
      /\ Component' = Component /\ (NullInput' <=> NullInput)
      /\ ~Carries' /\ ~HasTask' /\ ~HasTask /\ Running
  BY <1>1, <1>2, Answered
<1>4. Source' /\ LastRead' = LastRead
  BY <1>1, <1>2, <1>3 DEF Source, LastRead
<1>5. Tasks'
  BY <1>1, <1>2, <1>3 DEF Tasks
<1>6. Drains' /\ Answers'
  <2>1. P.surfaces = "pool" /\ P.reads = "stream"
    BY <1>1, <1>2, StagesOfProgram DEF RtWorkLocked, Component, Fields
  <2>2. "MORE_SURFACE" \in P.goesOn
    BY <1>1, <2>1, RefusedOfProgram
  <2> QED
    BY <1>1, <1>2, <1>3, <2>2 DEF Drains, Answers
<1>7. ~AtEnd /\ ~AtEnd' /\ ~InHand /\ ~InHand'
  BY <1>2, <1>3 DEF AtEnd, InHand, Carries
<1>8. /\ rt'.queue = rt.queue /\ rt'.ref = rt.ref /\ unhandled' \in BOOLEAN
      /\ ctl'.failed = FALSE /\ ctl'.stage \in Stage /\ ctl'.draining \in 0..Stages /\ ctl'.timeouts \in Nat
      /\ unhandled' \/ ~unhandled
      /\ surf'.content = surf.content /\ DOMAIN surf' = DOMAIN surf /\ surf'.work \in Slot \cup {None}
  BY <1>1, <1>2, <1>3 DEF Fields
<1> QED
  BY <1>2, <1>3, <1>4, <1>5, <1>6, <1>7, <1>8, QuietFlows

LEMMA RtTimeoutFlows ==
    ASSUME Resources, Flow, RtTimeout
    PROVE  Flow'
<1>1. /\ prog \in Programs /\ Shapes /\ ctl.failed = FALSE
      /\ Source /\ Fields /\ Tasks /\ Drains
  BY AtWork DEF RtTimeout, Called, Running, InLoop
<1>2. /\ ctl.pc = "call" /\ Component = "decode" /\ ctl' = Answer("ALLOC_TIMEOUT_EXPIRED")
      /\ prog' = prog /\ input' = input /\ surf' = surf /\ rt' = rt /\ out' = out
      /\ unhandled' = (unhandled \/ prog # "hello_transcode" \/ ctl.timeouts > MaxTimeouts)
  BY DEF RtTimeout, Called
<1>3. /\ P' = P /\ Stages' = Stages /\ Stage' = Stage
      /\ ctl'.pc = "answer" /\ ctl'.sts = "ALLOC_TIMEOUT_EXPIRED"
      /\ ctl'.stage = ctl.stage /\ ctl'.draining = ctl.draining /\ ctl'.failed = ctl.failed
      /\ ctl'.timeouts = ctl.timeouts
      /\ Component' = Component /\ (NullInput' <=> NullInput)
      /\ ~Carries' /\ ~HasTask' /\ ~HasTask /\ Running
  BY <1>1, <1>2, Answered
<1>4. Source' /\ LastRead' = LastRead
  BY <1>1, <1>2, <1>3 DEF Source, LastRead
<1>5. Tasks'
  BY <1>1, <1>2, <1>3 DEF Tasks
<1>6. /\ unhandled' \in BOOLEAN /\ (unhandled => unhandled')
      /\ unhandled' \/ (prog = "hello_transcode" /\ ~(ctl.timeouts > MaxTimeouts))
  BY <1>1, <1>2 DEF Fields
<1>7. unhandled' \/ (prog' = "hello_transcode" /\ ctl'.timeouts <= MaxTimeouts)
  <2>1. ctl.timeouts \in Nat /\ MaxTimeouts \in Nat
    BY <1>1, ExamplesAssumption DEF Fields
  <2> QED
    BY <2>1, <1>2, <1>3, <1>6
<1>8. Drains' /\ Answers'
  BY <1>1, <1>2, <1>3, <1>6, <1>7 DEF Drains, Answers
<1>9. ~AtEnd /\ ~AtEnd' /\ ~InHand /\ ~InHand'
  BY <1>2, <1>3 DEF AtEnd, InHand, Carries
<1>10. /\ rt'.queue = rt.queue /\ rt'.ref = rt.ref
       /\ ctl'.failed = FALSE /\ ctl'.stage \in Stage /\ ctl'.draining \in 0..Stages /\ ctl'.timeouts \in Nat
       /\ surf'.content = surf.content /\ DOMAIN surf' = DOMAIN surf /\ surf'.work \in Slot \cup {None}
  BY <1>1, <1>2, <1>3 DEF Fields
<1> QED
  BY <1>2, <1>3, <1>4, <1>5, <1>6, <1>8, <1>9, <1>10, QuietFlows

LEMMA RtNeedsDataFlows ==
    ASSUME Resources, Flow, RtNeedsData
    PROVE  Flow'
<1>1. /\ prog \in Programs /\ Shapes /\ ctl.failed = FALSE
      /\ Source /\ Fields /\ Tasks /\ Drains
  BY AtWork DEF RtNeedsData, Called, Running, InLoop
<1>2. /\ ctl.pc = "call" /\ Component = "decode" /\ ~NullInput /\ ctl' = Answer("MORE_DATA")
      /\ prog' = prog /\ surf' = surf /\ rt' = rt /\ unhandled' = unhandled /\ out' = out
      /\ input' \in {Consume(input.bs.length), Consume(input.bs.length - 1)}
  BY DEF RtNeedsData, Called
<1>3. /\ P' = P /\ Stages' = Stages /\ Stage' = Stage
      /\ ctl'.pc = "answer" /\ ctl'.sts = "MORE_DATA"
      /\ ctl'.stage = ctl.stage /\ ctl'.draining = ctl.draining /\ ctl'.failed = ctl.failed
      /\ ctl'.timeouts = ctl.timeouts
      /\ Component' = Component /\ (NullInput' <=> NullInput)
      /\ ~Carries' /\ ~HasTask' /\ ~HasTask /\ Running
  BY <1>1, <1>2, Answered
<1>4. Stage = 1..Stages /\ ctl.stage = 1 /\ Stages \in {1, 2} /\ P.reads = "stream"
  BY <1>1, <1>2, StagesOfProgram DEF Component, Fields
<1>5. ctl.draining = 0
  BY <1>1, <1>2, <1>4 DEF NullInput, Fields
<1>6. /\ DOMAIN input' = DOMAIN input /\ DOMAIN input'.bs = DOMAIN input.bs
      /\ input'.file = input.file /\ input'.parsed = input.parsed
      /\ input'.bs.length \in {0, 1}
  <2>1. input.bs.length \in Nat
    BY <1>1, StreamSizeNumber DEF Source
  <2> QED
    BY <1>1, <1>2, <2>1 DEF Consume, Source
<1>7. input'.bs.length \in 0..BufferSize
  BY <1>6, StreamSizeNumber
<1>8. Source' /\ LastRead' = LastRead
  BY <1>1, <1>3, <1>6, <1>7 DEF Source, LastRead
<1>9. Tasks'
  BY <1>1, <1>2, <1>3 DEF Tasks
<1>10. Drains' /\ Answers'
  BY <1>2, <1>3, <1>5 DEF Drains, Answers
<1>11. ~AtEnd /\ ~AtEnd' /\ ~InHand /\ ~InHand'
  BY <1>2, <1>3 DEF AtEnd, InHand, Carries
<1>12. /\ rt'.queue = rt.queue /\ rt'.ref = rt.ref /\ unhandled' \in BOOLEAN
       /\ ctl'.failed = FALSE /\ ctl'.stage \in Stage /\ ctl'.draining \in 0..Stages /\ ctl'.timeouts \in Nat
       /\ unhandled' \/ ~unhandled
       /\ surf'.content = surf.content /\ DOMAIN surf' = DOMAIN surf /\ surf'.work \in Slot \cup {None}
  BY <1>1, <1>2, <1>3 DEF Fields
<1> QED
  BY <1>2, <1>3, <1>8, <1>9, <1>10, <1>11, <1>12, QuietFlows

LEMMA RtRefusesFlows ==
    ASSUME Resources, Flow, RtRefuses
    PROVE  Flow'
<1>1. /\ prog \in Programs /\ Shapes /\ ctl.failed = FALSE
      /\ Source /\ Fields /\ Tasks /\ Drains
  BY AtWork DEF RtRefuses, Running, InLoop
<1>2. PICK s \in MayRefuse[Component], forever \in BOOLEAN :
        /\ ctl' = Answer(s)
        /\ forever \/ s \in P.goesOn
        /\ rt' = [rt EXCEPT !.busy = IF forever THEN @ ELSE @ + 1, !.refuses = IF forever THEN s ELSE None]
        /\ unhandled' = (unhandled \/ forever \/ Component # "decode")
  BY DEF RtRefuses
<1>3. /\ ctl.pc = "call" /\ prog' = prog /\ input' = input /\ surf' = surf /\ out' = out
      /\ rt'.queue = rt.queue /\ rt'.ref = rt.ref /\ rt'.task = rt.task
  BY <1>1, <1>2 DEF RtRefuses, Shapes
<1>4. /\ P' = P /\ Stages' = Stages /\ Stage' = Stage
      /\ ctl'.pc = "answer" /\ ctl'.sts = s
      /\ ctl'.stage = ctl.stage /\ ctl'.draining = ctl.draining /\ ctl'.failed = ctl.failed
      /\ ctl'.timeouts = ctl.timeouts
      /\ Component' = Component /\ (NullInput' <=> NullInput)
      /\ ~Carries' /\ (HasTask' <=> s = "NONE") /\ ~HasTask /\ Running
  BY <1>1, <1>2, <1>3, Answered
<1>5. s \in Refusal /\ ~HasTask'
  <2>1. s \in Refusal
    BY <1>1, <1>2, ComponentIs DEF Refusal
  <2> QED
    BY <2>1, <1>4, RefusalIs
<1>6. Source' /\ LastRead' = LastRead
  BY <1>1, <1>3, <1>4 DEF Source, LastRead
<1>7. Tasks'
  BY <1>1, <1>3, <1>4, <1>5 DEF Tasks
<1>8. /\ unhandled' \in BOOLEAN /\ (unhandled => unhandled')
      /\ unhandled' \/ (Component = "decode" /\ s \in P.goesOn)
  BY <1>1, <1>2 DEF Fields
<1>9. s \notin {"MORE_DATA", "ALLOC_TIMEOUT_EXPIRED"}
  BY <1>5, RefusalIs
<1>10. Drains'
  BY <1>1, <1>3, <1>4, <1>2, <1>8 DEF Drains
<1>11. Answers'
  BY <1>2, <1>4, <1>8, <1>9 DEF Answers
<1>12. ~AtEnd /\ ~AtEnd' /\ ~InHand' /\ (unhandled' \/ ~InHand)
  BY <1>3, <1>4, <1>5, <1>8 DEF AtEnd, InHand, Carries
<1>13. /\ ctl'.failed = FALSE /\ ctl'.stage \in Stage /\ ctl'.draining \in 0..Stages /\ ctl'.timeouts \in Nat
       /\ surf'.content = surf.content /\ DOMAIN surf' = DOMAIN surf /\ surf'.work \in Slot \cup {None}
  BY <1>1, <1>3, <1>4 DEF Fields
<1> QED
  BY <1>3, <1>4, <1>6, <1>7, <1>8, <1>10, <1>11, <1>12, <1>13, QuietFlows

LEMMA RtCompletesFlows ==
    ASSUME Resources, Flow, RtCompletes
    PROVE  Flow'
<1>1. CASE ~Running
  BY <1>1 DEF RtCompletes, Flow, Running
<1>2. CASE Running
  <2>1. /\ prog \in Programs /\ Shapes /\ ctl.failed = FALSE
        /\ Source /\ Fields /\ Tasks /\ Drains /\ Answers
    BY <1>2, AtWork
  <2>2. /\ prog' = prog /\ ctl' = ctl /\ input' = input /\ surf' = surf /\ unhandled' = unhandled /\ out' = out
        /\ rt.task # None
        /\ rt' = [rt EXCEPT !.task.done = TRUE, !.task.frame = surf.content[rt.task.from]]
    BY DEF RtCompletes
  <2>3. HasTask /\ HasTask'
    BY <2>1, <2>2 DEF Tasks, HasTask
  <2>4. /\ DOMAIN rt.task = {"from", "to", "frame", "done"} /\ rt.task.from \in Slot
        /\ ctl.stage < Stages => rt.task.to = rt.task.from
        /\ ctl.pc = "sync" => ctl.stage = Stages
    BY <2>1, <2>3 DEF Tasks
  <2>5. /\ rt'.queue = rt.queue /\ rt'.ref = rt.ref
        /\ DOMAIN rt'.task = {"from", "to", "frame", "done"} /\ rt'.task.from = rt.task.from
        /\ rt'.task.to = rt.task.to /\ rt'.task.done = TRUE /\ rt'.task.frame = surf.content[rt.task.from]
    BY <2>1, <2>2, <2>4 DEF Shapes
  <2>6. P' = P /\ Stages' = Stages /\ Stage' = Stage
    BY <2>2, SameProgram
  <2>7. Component' = Component /\ NullInput' = NullInput
    BY <2>2, <2>6 DEF Component, NullInput
  <2>8. ~Carries /\ ~Carries'
    BY <2>2, <2>3 DEF HasTask, Carries
  <2>9. Tasks'
    BY <2>2, <2>3, <2>4, <2>5, <2>6, <2>8 DEF Tasks
  <2>10. Drains'
    BY <2>1, <2>2, <2>5, <2>6, <2>7 DEF Drains
  <2>11. Answers'
    BY <2>1, <2>2, <2>5, <2>6, <2>7 DEF Answers
  <2>12. Source' /\ LastRead' = LastRead
    BY <2>1, <2>2, <2>6 DEF Source, LastRead
  <2>13. AtEnd' = AtEnd /\ InHand' = InHand /\ Announced' = Announced /\ Hand' = Hand
    <3>1. AtEnd' = AtEnd
      BY <2>2, <2>6 DEF AtEnd, HasTask
    <3>2. InHand' = InHand
      BY <2>2, <2>3, <2>6, <2>8 DEF InHand
    <3> QED
      BY <3>1, <3>2, <2>2, <2>5, <2>8 DEF Announced, Hand
  <2>14. /\ unhandled' \in BOOLEAN
         /\ ctl'.failed = FALSE /\ ctl'.stage \in Stage /\ ctl'.draining \in 0..Stages /\ ctl'.timeouts \in Nat
         /\ unhandled' \/ ~unhandled
         /\ surf'.content = surf.content /\ DOMAIN surf' = DOMAIN surf /\ surf'.work \in Slot \cup {None}
    BY <2>1, <2>2 DEF Fields
  <2> QED
    BY <1>2, <2>2, <2>5, <2>9, <2>10, <2>11, <2>12, <2>13, <2>14, QuietFlows
<1> QED
  BY <1>1, <1>2

\* AfterCall and its like only give surfaces back.
LEMMA AfterCallGives ==
    ASSUME Fields
    PROVE  LET s == AfterCall(surf)
           IN  /\ DOMAIN s = DOMAIN surf /\ s.content = surf.content /\ s.work = surf.work
               /\ s.given = surf.given
BY DEF AfterCall, Fields

\* The program goes on after an answer that announces nothing.
LEMMA GoesOn ==
    ASSUME Resources, Flow, ctl.pc = "answer", ctl.sts # "NONE",
           prog' = prog, input' = input, rt' = rt, unhandled' = unhandled, out' = out,
           ctl' = Goto(ctl, "load"),
           DOMAIN surf' = DOMAIN surf, surf'.content = surf.content, surf'.work \in Slot \cup {None}
    PROVE  Flow'
<1>1. /\ prog \in Programs /\ Shapes /\ ctl.failed = FALSE
      /\ Source /\ Fields /\ Tasks /\ Drains
  BY AtWork DEF Running, InLoop
<1>2. /\ P' = P /\ Stages' = Stages /\ Stage' = Stage
      /\ ctl'.pc = "load" /\ ctl'.stage = ctl.stage /\ ctl'.draining = ctl.draining /\ ctl'.failed = ctl.failed
      /\ ctl'.timeouts = ctl.timeouts
  BY <1>1, SameProgram DEF Shapes, Goto
<1>3. ~HasTask /\ ~HasTask' /\ ~Carries /\ ~Carries' /\ Running
  BY <1>2 DEF HasTask, Carries, Running, InLoop
<1>4. Source' /\ LastRead' = LastRead
  BY <1>1, <1>2 DEF Source, LastRead
<1>5. Tasks'
  BY <1>1, <1>2, <1>3 DEF Tasks
<1>6. Drains' /\ Answers'
  BY <1>1, <1>2 DEF Drains, Answers
<1>7. ~AtEnd /\ ~AtEnd' /\ ~InHand /\ ~InHand'
  BY <1>3 DEF AtEnd, InHand
<1>8. /\ unhandled' \in BOOLEAN
      /\ ctl'.failed = FALSE /\ ctl'.stage \in Stage /\ ctl'.draining \in 0..Stages /\ ctl'.timeouts \in Nat
      /\ unhandled' \/ ~unhandled
  BY <1>1, <1>2 DEF Fields
<1> QED
  BY <1>3, <1>4, <1>5, <1>6, <1>7, <1>8, QuietFlows

LEMMA HandleMoreSurfaceFlows ==
    ASSUME Resources, Flow, HandleMoreSurface
    PROVE  Flow'
<1>1. Fields
  BY AtWork DEF HandleMoreSurface, Running, InLoop
<1>2. surf' = [surf EXCEPT !.work = GetFreeSurfaceIndex(OutSide)]
  BY DEF HandleMoreSurface
<1>3. DOMAIN surf' = DOMAIN surf /\ surf'.content = surf.content /\ surf'.work \in Slot \cup {None}
  BY <1>1, <1>2, SlotNumbers, SurfaceFound DEF Fields
<1> QED
  BY <1>3, GoesOn DEF HandleMoreSurface, AnotherSurface

LEMMA HandleIgnoredFlows ==
    ASSUME Resources, Flow, HandleIgnored
    PROVE  Flow'
<1>1. Fields
  BY AtWork DEF HandleIgnored, Running, InLoop
<1>2. DOMAIN surf' = DOMAIN surf /\ surf'.content = surf.content /\ surf'.work \in Slot \cup {None}
  BY <1>1, AfterCallGives DEF Fields, HandleIgnored
<1>3. ctl.sts # "NONE"
  <2>1. prog \in Programs
    BY DEF Resources
  <2> QED
    BY <2>1, RefusedOfProgram, RefusalIs DEF HandleIgnored
<1> QED
  BY <1>2, <1>3, GoesOn DEF HandleIgnored

LEMMA HandleMoreDataFlows ==
    ASSUME Resources, Flow, HandleMoreData
    PROVE  Flow'
<1>1. /\ prog \in Programs /\ Shapes /\ ctl.failed = FALSE
      /\ Source /\ Fields /\ Tasks /\ Drains /\ Answers
  BY AtWork DEF HandleMoreData, Running, InLoop
<1>2. /\ ctl.pc = "answer" /\ ctl.sts = "MORE_DATA"
      /\ prog' = prog /\ input' = input /\ rt' = rt /\ unhandled' = unhandled /\ out' = out
      /\ surf' = AfterCall(surf)
  BY DEF HandleMoreData
<1>3. DOMAIN surf' = DOMAIN surf /\ surf'.content = surf.content /\ surf'.work \in Slot \cup {None}
  BY <1>1, <1>2, AfterCallGives DEF Fields
<1>4. CASE ~NullInput
  BY <1>2, <1>3, <1>4, GoesOn DEF HandleMoreData
<1>5. CASE NullInput /\ ctl.stage < Len(P.stages)
  <2>1. /\ ctl' = [Goto(ctl, "call") EXCEPT !.stage = @ + 1, !.draining = ctl.stage + 1]
        /\ ctl.stage < Stages
    BY <1>5 DEF HandleMoreData, Stages
  <2>2. /\ Stages = 2 /\ ctl.stage = 1 /\ Stage = 1..2 /\ Component = "decode"
        /\ P.stages[2] # "decode" /\ P.reads = "stream"
    <3>1. /\ Stages \in {1, 2} /\ Stage = 1..Stages /\ ctl.stage \in Stage
          /\ \A k \in Stage : P.stages[k] = "decode" <=> P.reads = "stream" /\ k = 1
          /\ Stages = 2 => P.reads = "stream"
      BY <1>1, StagesOfProgram DEF Fields
    <3>2. Stages = 2 /\ ctl.stage = 1 /\ Stage = 1..2 /\ P.reads = "stream"
      BY <3>1, <2>1
    <3> QED
      BY <3>1, <3>2 DEF Component
  <2>3. /\ P' = P /\ Stages' = Stages /\ Stage' = Stage
        /\ ctl'.pc = "call" /\ ctl'.stage = 2 /\ ctl'.draining = 2 /\ ctl'.failed = ctl.failed
        /\ ctl'.timeouts = ctl.timeouts
    BY <1>1, <1>2, <2>1, <2>2, SameProgram DEF Shapes, Goto
  <2>4. NullInput' /\ Component' # "decode"
    BY <2>2, <2>3 DEF NullInput, Component
  <2>5. ~HasTask /\ ~HasTask' /\ ~Carries /\ ~Carries' /\ Running
    BY <1>2, <2>3, <2>4 DEF HasTask, Carries, Running, InLoop
  <2>6. Source' /\ LastRead' = LastRead
    BY <1>1, <1>2, <2>3 DEF Source, LastRead
  <2>7. Tasks'
    BY <1>1, <1>2, <2>3, <2>5 DEF Tasks
  <2>8. rt.queue[1] = <<>> /\ (unhandled \/ input.parsed = NFrames)
    BY <1>1, <1>2, <1>5, <2>2 DEF Answers
  <2>9. ctl.draining > 0
    BY <1>1, <1>5, <2>2 DEF NullInput, Fields
  <2>10. Drains' /\ Answers'
    BY <1>1, <1>2, <2>3, <2>4, <2>8, <2>9 DEF Drains, Answers
  <2>11. ~AtEnd /\ ~AtEnd' /\ ~InHand /\ ~InHand'
    BY <2>5 DEF AtEnd, InHand
  <2>12. /\ unhandled' \in BOOLEAN
         /\ ctl'.failed = FALSE /\ ctl'.stage \in Stage /\ ctl'.draining \in 0..Stages /\ ctl'.timeouts \in Nat
         /\ unhandled' \/ ~unhandled
    BY <1>1, <1>2, <2>2, <2>3 DEF Fields
  <2> QED
    BY <1>2, <1>3, <2>5, <2>6, <2>7, <2>10, <2>11, <2>12, QuietFlows
<1>6. CASE NullInput /\ ~(ctl.stage < Len(P.stages))
  <2>1. ctl' = CleanUp(ctl)
    BY <1>6 DEF HandleMoreData
  <2> QED
    BY <1>1, <2>1 DEF CleanUp, Flow, Running, InLoop, Shapes
<1> QED
  BY <1>4, <1>5, <1>6

LEMMA HandleTimeoutFlows ==
    ASSUME Resources, Flow, HandleTimeout
    PROVE  Flow'
<1>1. /\ prog \in Programs /\ Shapes /\ ctl.failed = FALSE
      /\ Source /\ Fields /\ Tasks /\ Drains /\ Answers
  BY AtWork DEF HandleTimeout, Running, InLoop
<1>2. /\ ctl.pc = "answer" /\ ctl.sts = "ALLOC_TIMEOUT_EXPIRED"
      /\ prog' = prog /\ input' = input /\ surf' = surf /\ rt' = rt /\ unhandled' = unhandled /\ out' = out
      /\ ctl' \in {[Goto(ctl, "call") EXCEPT !.timeouts = @ + 1], CleanUp(ctl)}
  BY DEF HandleTimeout
<1>3. CASE ctl' = CleanUp(ctl)
  BY <1>1, <1>3 DEF CleanUp, Flow, Running, InLoop, Shapes
<1>4. CASE ctl' = [Goto(ctl, "call") EXCEPT !.timeouts = @ + 1]
  <2>1. /\ P' = P /\ Stages' = Stages /\ Stage' = Stage
        /\ ctl'.pc = "call" /\ ctl'.stage = ctl.stage /\ ctl'.draining = ctl.draining
        /\ ctl'.failed = ctl.failed /\ ctl'.timeouts = ctl.timeouts + 1
    BY <1>1, <1>2, <1>4, SameProgram DEF Shapes, Goto
  <2>2. Component' = Component /\ (NullInput' <=> NullInput)
    BY <2>1 DEF Component, NullInput
  <2>3. Component = "decode"
    BY <1>1, <1>2 DEF Answers
  <2>4. ~HasTask /\ ~HasTask' /\ ~Carries /\ ~Carries' /\ Running
    BY <1>2, <2>1, <2>2, <2>3 DEF HasTask, Carries, Running, InLoop
  <2>5. Source' /\ LastRead' = LastRead
    BY <1>1, <1>2, <2>1 DEF Source, LastRead
  <2>6. Tasks'
    BY <1>1, <1>2, <2>1, <2>4 DEF Tasks
  <2>7. Drains' /\ Answers'
    BY <1>1, <1>2, <2>1, <2>2 DEF Drains, Answers
  <2>8. ~AtEnd /\ ~AtEnd' /\ ~InHand /\ ~InHand'
    BY <2>4 DEF AtEnd, InHand
  <2>9. /\ unhandled' \in BOOLEAN
        /\ ctl'.failed = FALSE /\ ctl'.stage \in Stage /\ ctl'.draining \in 0..Stages /\ ctl'.timeouts \in Nat
        /\ unhandled' \/ ~unhandled
        /\ surf'.content = surf.content /\ DOMAIN surf' = DOMAIN surf /\ surf'.work \in Slot \cup {None}
    BY <1>1, <1>2, <2>1 DEF Fields
  <2> QED
    BY <1>2, <2>4, <2>5, <2>6, <2>7, <2>8, <2>9, QuietFlows
<1> QED
  BY <1>2, <1>3, <1>4

LEMMA HandleOutputFlows ==
    ASSUME Resources, Flow, HandleOutput
    PROVE  Flow'
<1>1. /\ prog \in Programs /\ Shapes /\ ctl.failed = FALSE
      /\ Source /\ Fields /\ Tasks /\ Drains
  BY AtWork DEF HandleOutput, Running, InLoop
<1>2. /\ ctl.pc = "answer" /\ ctl.sts = "NONE"
      /\ prog' = prog /\ input' = input /\ unhandled' = unhandled /\ out' = out
  BY DEF HandleOutput
<1>3. /\ P' = P /\ Stages' = Stages /\ Stage' = Stage
      /\ Stages \in {1, 2} /\ Stage = 1..Stages /\ ctl.stage \in Stage
      /\ \A k \in Stage : P.stages[k] = "decode" <=> P.reads = "stream" /\ k = 1
      /\ Stages = 2 => P.reads = "stream"
  BY <1>1, <1>2, SameProgram, StagesOfProgram DEF Fields
<1>4. HasTask /\ ~Carries /\ Running
  BY <1>2 DEF HasTask, Carries, Running, InLoop
<1>5. /\ DOMAIN rt.task = {"from", "to", "frame", "done"} /\ rt.task.from \in Slot
      /\ rt.task.done \in BOOLEAN
      /\ rt.task.done => rt.task.frame = surf.content[rt.task.from]
      /\ ctl.stage < Stages => rt.task.to = rt.task.from
  BY <1>1, <1>4 DEF Tasks
<1>6. Source' /\ LastRead' = LastRead
  BY <1>1, <1>2, <1>3 DEF Source, LastRead
<1>7. CASE ctl.stage < Stages
  <2>1. /\ ctl' = [Goto(ctl, "call") EXCEPT !.stage = @ + 1]
        /\ surf' = [surf EXCEPT !.given = rt.task.to]
        /\ rt' = [rt EXCEPT !.task = None]
    BY <1>7 DEF HandleOutput, Stages
  <2>2. Stages = 2 /\ ctl.stage = 1 /\ Stage = 1..2 /\ P.stages[2] # "decode"
    BY <1>3, <1>7
  <2>3. /\ ctl'.pc = "call" /\ ctl'.stage = 2 /\ ctl'.draining = ctl.draining /\ ctl'.failed = ctl.failed
        /\ ctl'.timeouts = ctl.timeouts
        /\ surf'.given = rt.task.from /\ surf'.content = surf.content /\ surf'.work = surf.work
        /\ DOMAIN surf' = DOMAIN surf
        /\ rt'.task = None /\ rt'.queue = rt.queue /\ rt'.ref = rt.ref
    BY <1>1, <1>5, <2>1, <2>2 DEF Shapes, Goto, Fields
  <2>4. ctl.draining \in {0, 1}
    BY <1>1, <2>2 DEF Drains, Fields
  <2>5. ~NullInput' /\ Component' # "decode"
    BY <1>3, <2>2, <2>3, <2>4 DEF NullInput, Component
  <2>6. Carries' /\ ~HasTask'
    BY <2>3, <2>5 DEF Carries, HasTask
  <2>7. Tasks'
    BY <1>5, <2>3, <2>6 DEF Tasks
  <2>8. Drains' /\ Answers'
    BY <1>1, <1>2, <1>3, <2>3, <2>4, <2>5 DEF Drains, Answers
  <2>9. ~AtEnd /\ ~AtEnd' /\ InHand /\ InHand'
    BY <1>4, <2>2, <2>6 DEF AtEnd, InHand
  <2>10. Hand' = Hand
    BY <1>4, <2>3, <2>6 DEF Hand
  <2>11. /\ unhandled' \in BOOLEAN
         /\ ctl'.failed = FALSE /\ ctl'.stage \in Stage /\ ctl'.draining \in 0..Stages /\ ctl'.timeouts \in Nat
         /\ unhandled' \/ ~unhandled
         /\ surf'.work \in Slot \cup {None}
    BY <1>1, <1>2, <2>2, <2>3 DEF Fields
  <2> QED
    BY <1>2, <1>4, <1>6, <2>3, <2>7, <2>8, <2>9, <2>10, <2>11, QuietFlows
<1>8. CASE ~(ctl.stage < Stages)
  <2>1. ctl' = Goto(ctl, "sync") /\ surf' = AfterCall(surf) /\ rt' = rt
    BY <1>8 DEF HandleOutput, Stages
  <2>2. /\ ctl'.pc = "sync" /\ ctl'.stage = ctl.stage /\ ctl'.draining = ctl.draining /\ ctl'.failed = ctl.failed
        /\ ctl'.timeouts = ctl.timeouts
        /\ DOMAIN surf' = DOMAIN surf /\ surf'.content = surf.content /\ surf'.work = surf.work
    BY <1>1, <2>1, AfterCallGives DEF Shapes, Goto
  <2>3. ctl.stage = Stages
    BY <1>3, <1>8
  <2>4. HasTask' /\ ~Carries'
    BY <2>2 DEF HasTask, Carries
  <2>5. Tasks'
    BY <1>3, <1>5, <2>1, <2>2, <2>3, <2>4 DEF Tasks
  <2>6. Drains' /\ Answers'
    BY <1>1, <1>2, <1>3, <2>1, <2>2 DEF Drains, Answers
  <2>7. AtEnd /\ AtEnd' /\ ~InHand /\ ~InHand' /\ Announced' = Announced
    BY <1>3, <1>4, <2>1, <2>2, <2>3, <2>4 DEF AtEnd, InHand, Announced
  <2>8. /\ unhandled' \in BOOLEAN
        /\ ctl'.failed = FALSE /\ ctl'.stage \in Stage /\ ctl'.draining \in 0..Stages /\ ctl'.timeouts \in Nat
        /\ unhandled' \/ ~unhandled
        /\ surf'.work \in Slot \cup {None} /\ rt'.queue = rt.queue /\ rt'.ref = rt.ref
    BY <1>1, <1>2, <2>1, <2>2 DEF Fields
  <2> QED
    BY <1>2, <1>4, <1>6, <2>2, <2>5, <2>6, <2>7, <2>8, QuietFlows
<1> QED
  BY <1>7, <1>8

LEMMA AfterSyncGives ==
    ASSUME Fields
    PROVE  LET s == AfterSync(surf)
           IN  DOMAIN s = DOMAIN surf /\ s.content = surf.content /\ s.work = surf.work
BY DEF AfterSync, Fields

\* An output that is lost is dropped, or ends the program.
LEMMA SyncErrorFlows ==
    ASSUME Resources, Flow, SyncError
    PROVE  Flow'
<1>1. /\ prog \in Programs /\ Shapes /\ ctl.failed = FALSE
      /\ Source /\ Fields /\ Tasks /\ Drains
  BY AtWork DEF SyncError, Running, InLoop
<1>2. CASE P.waits = "drop"
  <2>1. /\ ctl.pc = "sync" /\ ctl' = Goto(ctl, "load") /\ surf' = AfterSync(surf) /\ unhandled' = TRUE
        /\ rt' = [rt EXCEPT !.task = None]
        /\ prog' = prog /\ input' = input /\ out' = out
    BY <1>2 DEF SyncError
  <2>2. /\ P' = P /\ Stages' = Stages /\ Stage' = Stage
        /\ ctl'.pc = "load" /\ ctl'.stage = ctl.stage /\ ctl'.draining = ctl.draining /\ ctl'.failed = ctl.failed
        /\ ctl'.timeouts = ctl.timeouts
        /\ rt'.task = None /\ rt'.queue = rt.queue /\ rt'.ref = rt.ref
        /\ DOMAIN surf' = DOMAIN surf /\ surf'.content = surf.content /\ surf'.work = surf.work
    BY <1>1, <2>1, SameProgram, AfterSyncGives DEF Shapes, Goto
  <2>3. ~HasTask' /\ ~Carries' /\ Running
    BY <2>1, <2>2 DEF HasTask, Carries, Running, InLoop
  <2>4. Source' /\ LastRead' = LastRead
    BY <1>1, <2>1, <2>2 DEF Source, LastRead
  <2>5. Tasks'
    BY <2>2, <2>3 DEF Tasks
  <2>6. Drains' /\ Answers'
    BY <1>1, <2>1, <2>2 DEF Drains, Answers
  <2>7. ~AtEnd' /\ ~InHand'
    BY <2>3 DEF AtEnd, InHand
  <2>8. /\ unhandled' \in BOOLEAN /\ unhandled'
        /\ ctl'.failed = FALSE /\ ctl'.stage \in Stage /\ ctl'.draining \in 0..Stages /\ ctl'.timeouts \in Nat
        /\ surf'.work \in Slot \cup {None}
    BY <1>1, <2>1, <2>2 DEF Fields
  <2> QED
    BY <2>1, <2>2, <2>3, <2>4, <2>5, <2>6, <2>7, <2>8, QuietFlows
<1>3. CASE P.waits # "drop"
  <2>1. ctl' = Fail(ctl)
    BY <1>3 DEF SyncError
  <2> QED
    BY <1>1, <2>1 DEF Fail, CleanUp, Flow, Running, InLoop, Shapes
<1> QED
  BY <1>2, <1>3

LEMMA SyncDoneFlows ==
    ASSUME Resources, Flow, SyncDone
    PROVE  /\ Flow'
           /\ Follower(Copy!LastOut, rt.task.frame, unhandled) /\ rt.task.frame \in 1..NFrames
<1>1. /\ prog \in Programs /\ Shapes /\ ctl.failed = FALSE
      /\ Source /\ Fields /\ Tasks /\ Drains /\ FewKept /\ Chained /\ Written
  BY AtWork DEF SyncDone, Running, InLoop
<1>2. /\ ctl.pc = "sync" /\ rt.task.done /\ ctl' = Goto(ctl, "load") /\ surf' = AfterSync(surf)
      /\ rt' = [rt EXCEPT !.task = None]
      /\ prog' = prog /\ input' = input /\ out' = Append(out, rt.task.frame) /\ unhandled' = unhandled
  BY DEF SyncDone
<1>3. /\ P' = P /\ Stages' = Stages /\ Stage' = Stage
      /\ ctl'.pc = "load" /\ ctl'.stage = ctl.stage /\ ctl'.draining = ctl.draining /\ ctl'.failed = ctl.failed
      /\ ctl'.timeouts = ctl.timeouts
      /\ rt'.task = None /\ rt'.queue = rt.queue /\ rt'.ref = rt.ref
      /\ DOMAIN surf' = DOMAIN surf /\ surf'.content = surf.content /\ surf'.work = surf.work
  BY <1>1, <1>2, SameProgram, AfterSyncGives DEF Shapes, Goto
<1>4. HasTask /\ ~HasTask' /\ ~Carries /\ ~Carries' /\ Running /\ ctl.stage = Stages
  BY <1>1, <1>2, <1>3 DEF HasTask, Carries, Running, InLoop, Tasks
<1>5. rt.task.from \in Slot /\ rt.task.frame = Announced
  BY <1>1, <1>2, <1>4 DEF Tasks, Announced
<1>6. AtEnd = TRUE /\ AtEnd' = FALSE /\ InHand = FALSE /\ InHand' = FALSE
  <2>1. AtEnd /\ ~AtEnd' /\ ~InHand /\ ~InHand'
    BY <1>1, <1>4, StagesOfProgram DEF AtEnd, InHand
  <2> QED
    BY <2>1 DEF AtEnd, InHand
<1>7. /\ rt.queue[Stages] \in Seq(Slot) /\ FirstQueue \in Seq(Slot)
      /\ Copy!LastOut \in Nat /\ LastRead \in Nat
  BY <1>1, QueuesTyped
<1>8. Announced \in Nat /\ surf.content \in [Slot -> Nat] /\ unhandled \in BOOLEAN /\ out \in Seq(Nat)
  BY <1>1, <1>5 DEF Fields, Announced
<1>9. Chain(surf.content, Copy!LastOut, TRUE, Announced, rt.queue[Stages], FALSE, Hand, FirstQueue,
            LastRead, unhandled)
  BY <1>1, <1>6 DEF Chained
<1>10. /\ Follower(Copy!LastOut, Announced, unhandled) /\ Announced <= LastRead
       /\ Chain(surf.content, Announced, FALSE, Announced', rt.queue[Stages], FALSE, Hand, FirstQueue,
                LastRead, unhandled)
  BY ONLY <1>7, <1>8, <1>9, ChainWritten, ZenonT(60)
<1>11. Copy!LastOut' = Announced /\ out' \in Seq(Nat) /\ Len(out') = Len(out) + 1
  <2>1. /\ out' \in Seq(Nat) /\ Len(out') = Len(out) + 1 /\ Len(out) \in Nat
        /\ out'[Len(out')] = Announced /\ out' # <<>>
    BY <1>2, <1>5, <1>8
  <2> QED
    BY <2>1 DEF Copy!LastOut
<1>12. LastRead' = LastRead /\ Source' /\ LastRead \in 0..NFrames
  BY <1>1, <1>2, <1>3, StagesOfProgram DEF LastRead, Source
<1>13. Chained'
  <2>1. rt'.queue[Stages] = rt.queue[Stages] /\ FirstQueue' = FirstQueue
    BY <1>3 DEF FirstQueue
  <2>2. Chain(surf.content, Announced, FALSE, Announced', rt.queue[Stages], FALSE, Hand', FirstQueue,
              LastRead, unhandled)
    BY <1>10 DEF Chain, Link
  <2> QED
    BY <2>1, <2>2, <1>2, <1>3, <1>6, <1>11, <1>12 DEF Chained
<1>14. Written'
  BY <1>1, <1>2, <1>7, <1>10, <1>11 DEF Written, Follower
<1>15. Fields'
  BY <1>1, <1>2, <1>3, <1>11 DEF Fields
<1>16. Tasks'
  BY <1>3, <1>4 DEF Tasks
<1>17. Drains' /\ Answers'
  BY <1>1, <1>2, <1>3 DEF Drains, Answers
<1>18. FewKept'
  BY <1>1, <1>3 DEF FewKept
<1>19. Flow'
  BY <1>1, <1>3, <1>12, <1>13, <1>14, <1>15, <1>16, <1>17, <1>18 DEF Flow
<1>20. Announced \in 1..NFrames
  BY <1>7, <1>8, <1>10, <1>12, StreamSizeNumber DEF Follower
<1> QED
  BY <1>5, <1>10, <1>19, <1>20

\* The chain before a call: nothing is announced, and the queue q of the component
\* that is called may have a new entry.
CallChain(content, e, q, h, last) ==
    Chain(content, Copy!LastOut, FALSE, e, IF ctl.stage = Stages THEN q ELSE rt.queue[Stages],
          FALSE, h, IF ctl.stage = Stages THEN FirstQueue ELSE q, last, unhandled)

\* The component that was called announces the first of its frames.
LEMMA EmitFlows ==
    ASSUME Resources, Flow, ctl.pc = "call",
           prog' = prog, out' = out, unhandled' = unhandled, ctl' = Answer("NONE"),
           Source', Drains',
           surf'.content \in [Slot -> Nat], DOMAIN surf' = DOMAIN surf, surf'.work \in Slot \cup {None},
           NEW q \in Seq(Slot), q # <<>>, NEW to, rt' = Emit(rt, q, to),
           ctl.stage < Stages => to = Head(q),
           P.reads = "frames" => Len(q) <= Delay[P.stages[1]] + 1,
           NEW e, NEW h, CallChain(surf'.content, e, q, h, LastRead')
    PROVE  Flow'
<1>1. /\ prog \in Programs /\ Shapes /\ ctl.failed = FALSE
      /\ Source /\ Fields /\ FewKept /\ Written
  BY AtWork DEF Running, InLoop
<1>2. /\ P' = P /\ Stages' = Stages /\ Stage' = Stage
      /\ ctl'.pc = "answer" /\ ctl'.sts = "NONE"
      /\ ctl'.stage = ctl.stage /\ ctl'.draining = ctl.draining /\ ctl'.failed = ctl.failed
      /\ ctl'.timeouts = ctl.timeouts
      /\ ~Carries' /\ HasTask'
  BY <1>1, Answered
<1>3. /\ Stages \in {1, 2} /\ Stage = 1..Stages /\ ctl.stage \in Stage
      /\ P.reads = "frames" => Stages = 1
      /\ P.stages[1] \in {"decode", "encode", "vpp"}
  <2>1. ctl.stage \in Stage
    BY <1>1 DEF Fields
  <2>2. /\ Stages \in {1, 2} /\ Stage = 1..Stages /\ (Stages = 2 => P.reads = "stream")
        /\ \A k \in Stage : P.stages[k] \in {"decode", "encode", "vpp"}
    BY <1>1, StagesOfProgram
  <2>3. 1 \in Stage
    BY <2>2
  <2> QED
    BY <2>1, <2>2, <2>3
<1>4. Head(q) \in Slot /\ Tail(q) \in Seq(Slot) /\ Len(Tail(q)) = Len(q) - 1 /\ Len(q) \in Nat
  OBVIOUS
<1>5. /\ rt'.queue = [rt.queue EXCEPT ![ctl.stage] = Tail(q)]
      /\ rt'.ref = [rt.ref EXCEPT ![ctl.stage] = {Head(q)}]
      /\ rt'.task = [from |-> Head(q), to |-> to, frame |-> 0, done |-> FALSE]
  BY <1>1 DEF Emit, Shapes
<1>6. /\ rt'.queue \in [Stage -> Seq(Slot)] /\ rt'.queue[ctl.stage] = Tail(q)
      /\ \A s \in Stage \ {ctl.stage} : rt'.queue[s] = rt.queue[s]
      /\ DOMAIN rt'.ref = Stage /\ rt'.ref[ctl.stage] = {Head(q)}
  <2>1. rt.queue \in [Stage -> Seq(Slot)] /\ DOMAIN rt.ref = Stage
    BY <1>1 DEF Fields
  <2>2. DOMAIN rt'.ref = Stage /\ rt'.ref[ctl.stage] = {Head(q)}
    BY <2>1, <1>3, <1>5
  <2>3. rt'.queue \in [Stage -> Seq(Slot)]
    BY <2>1, <1>3, <1>4, <1>5
  <2>4. rt'.queue[ctl.stage] = Tail(q) /\ \A s \in Stage \ {ctl.stage} : rt'.queue[s] = rt.queue[s]
    BY <2>1, <1>3, <1>5
  <2> QED
    BY <2>2, <2>3, <2>4
<1>7. /\ DOMAIN rt'.task = {"from", "to", "frame", "done"}
      /\ rt'.task.from = Head(q) /\ rt'.task.to = to /\ rt'.task.done = FALSE
  BY <1>5
<1>8. Fields'
  BY <1>1, <1>2, <1>6 DEF Fields
<1>9. Tasks'
  BY <1>2, <1>4, <1>7 DEF Tasks
<1>10. Answers'
  BY <1>2 DEF Answers
<1>11. FewKept'
  <2> SUFFICES ASSUME P.reads = "frames"
               PROVE  /\ Len(rt'.queue[1]) <= Delay[P.stages[1]]
                      /\ \E x : rt'.ref[1] \subseteq {x}
    BY <1>2 DEF FewKept
  <2>1. Delay[P.stages[1]] \in Nat /\ ctl.stage = 1
    BY <1>3, DelayNumber
  <2> QED
    BY <2>1, <1>4, <1>6
<1>12. Written'
  BY <1>1 DEF Written, Copy!LastOut
<1>13. Chained'
  <2>1. /\ rt.queue[Stages] \in Seq(Slot) /\ FirstQueue \in Seq(Slot)
        /\ Copy!LastOut \in Nat /\ unhandled \in BOOLEAN
    BY <1>1, QueuesTyped DEF Fields
  <2>2. LastRead' \in Nat
    BY StreamSizeNumber, <1>2 DEF LastRead, Source
  <2>3. Announced' = surf'.content[Head(q)] /\ Copy!LastOut' = Copy!LastOut
    BY <1>7 DEF Announced, Copy!LastOut
  <2>4. CASE ctl.stage = Stages
    <3>1. AtEnd' = TRUE /\ InHand' = FALSE
      BY <1>2, <1>3, <2>4 DEF AtEnd, InHand
    <3>2. rt'.queue[Stages] = Tail(q) /\ FirstQueue' = FirstQueue
      <4>1. Stages \in Stage /\ rt'.queue[Stages] = Tail(q)
        BY <1>3, <1>6, <2>4
      <4>2. FirstQueue' = FirstQueue
        <5>1. CASE Stages = 1
          BY <5>1, <1>2 DEF FirstQueue
        <5>2. CASE Stages = 2
          <6>1. rt'.queue[1] = rt.queue[1]
            <7>1. 1 \in Stage \ {ctl.stage}
              BY <5>2, <1>3, <2>4
            <7> QED
              BY <7>1, <1>6
          <6> QED
            BY <5>2, <6>1, <1>2 DEF FirstQueue
        <5> QED
          BY <5>1, <5>2, <1>3
      <4> QED
        BY <4>1, <4>2
    <3>3. Chain(surf'.content, Copy!LastOut, FALSE, e, q, FALSE, h, FirstQueue, LastRead', unhandled)
      BY <2>4 DEF CallChain
    <3>4. Chain(surf'.content, Copy!LastOut, TRUE, surf'.content[Head(q)], Tail(q), FALSE, h, FirstQueue,
                LastRead', unhandled)
      <4>1. surf'.content \in [Slot -> Nat] /\ q \in Seq(Slot) /\ q # <<>>
        OBVIOUS
      <4> QED
        BY ONLY <3>3, <4>1, <2>1, <2>2, ChainAnnouncedLast
    <3>5. Chain(surf'.content, Copy!LastOut, TRUE, surf'.content[Head(q)], Tail(q), FALSE, Hand', FirstQueue,
                LastRead', unhandled)
      BY <3>4 DEF Chain, Link
    <3> QED
      BY <3>1, <3>2, <3>5, <2>3, <1>2 DEF Chained
  <2>5. CASE ctl.stage < Stages
    <3>1. AtEnd' = FALSE /\ InHand' = TRUE /\ Stages = 2 /\ ctl.stage = 1 /\ ctl.stage # Stages
      BY <1>2, <1>3, <2>5 DEF AtEnd, InHand
    <3>2. rt'.queue[Stages] = rt.queue[Stages] /\ FirstQueue' = Tail(q)
      BY <1>2, <1>3, <1>6, <3>1 DEF FirstQueue
    <3>3. Chain(surf'.content, Copy!LastOut, FALSE, e, rt.queue[Stages], FALSE, h, q, LastRead', unhandled)
      BY <3>1 DEF CallChain
    <3>4. Chain(surf'.content, Copy!LastOut, FALSE, e, rt.queue[Stages], TRUE, surf'.content[Head(q)], Tail(q),
                LastRead', unhandled)
      <4>1. surf'.content \in [Slot -> Nat] /\ q \in Seq(Slot) /\ q # <<>>
        OBVIOUS
      <4> QED
        BY ONLY <3>3, <4>1, <2>1, <2>2, ChainAnnouncedFirst
    <3>5. Chain(surf'.content, Copy!LastOut, FALSE, Announced', rt.queue[Stages], TRUE, surf'.content[Head(q)],
                Tail(q), LastRead', unhandled)
      BY <3>4 DEF Chain, Link
    <3>6. Hand' = surf'.content[Head(q)]
      BY <1>2, <1>7 DEF Hand
    <3> QED
      BY <3>1, <3>2, <3>5, <3>6, <2>3, <1>2 DEF Chained
  <2> QED
    BY <2>4, <2>5, <1>3
<1> QED
  BY <1>1, <1>2, <1>8, <1>9, <1>10, <1>11, <1>12, <1>13 DEF Flow

\* The component that was called keeps its frames and asks for more.
LEMMA KeepFlows ==
    ASSUME Resources, Flow, ctl.pc = "call", ~NullInput,
           prog' = prog, out' = out, unhandled' = unhandled,
           NEW s \in {"MORE_DATA", "MORE_SURFACE"}, ctl' = Answer(s),
           s = "MORE_SURFACE" => Component = "decode" /\ "MORE_SURFACE" \in P.goesOn,
           Source', Drains',
           surf'.content \in [Slot -> Nat], DOMAIN surf' = DOMAIN surf, surf'.work \in Slot \cup {None},
           NEW q \in Seq(Slot), rt' = Keep(rt, q),
           P.reads = "frames" => Len(q) <= Delay[P.stages[1]],
           NEW e, NEW h, CallChain(surf'.content, e, q, h, LastRead')
    PROVE  Flow'
<1>1. /\ prog \in Programs /\ Shapes /\ ctl.failed = FALSE
      /\ Source /\ Fields /\ Tasks /\ FewKept /\ Written
  BY AtWork DEF Running, InLoop
<1>2. /\ P' = P /\ Stages' = Stages /\ Stage' = Stage
      /\ ctl'.pc = "answer" /\ ctl'.sts = s
      /\ ctl'.stage = ctl.stage /\ ctl'.draining = ctl.draining /\ ctl'.failed = ctl.failed
      /\ ctl'.timeouts = ctl.timeouts
      /\ Component' = Component
      /\ ~NullInput' /\ ~Carries' /\ ~HasTask' /\ ~HasTask
  BY <1>1, Answered
<1>3. /\ Stages \in {1, 2} /\ Stage = 1..Stages /\ ctl.stage \in Stage
      /\ P.reads = "frames" => Stages = 1
  BY <1>1, StagesOfProgram DEF Fields
<1>4. /\ rt'.queue = [rt.queue EXCEPT ![ctl.stage] = q] /\ rt'.ref = rt.ref /\ rt'.task = rt.task
  BY <1>1 DEF Keep, Shapes
<1>5. /\ rt'.queue \in [Stage -> Seq(Slot)] /\ rt'.queue[ctl.stage] = q
      /\ \A k \in Stage \ {ctl.stage} : rt'.queue[k] = rt.queue[k]
  <2>1. rt.queue \in [Stage -> Seq(Slot)]
    BY <1>1 DEF Fields
  <2> QED
    BY ONLY <2>1, <1>3, <1>4, q \in Seq(Slot)
<1>6. Fields'
  BY <1>1, <1>2, <1>4, <1>5 DEF Fields
<1>7. Tasks'
  BY <1>1, <1>2, <1>4 DEF Tasks
<1>8. Answers'
  BY <1>1, <1>2 DEF Answers
<1>9. FewKept'
  <2> SUFFICES ASSUME P.reads = "frames"
               PROVE  /\ Len(rt'.queue[1]) <= Delay[P.stages[1]]
                      /\ \E x : rt'.ref[1] \subseteq {x}
    BY <1>2 DEF FewKept
  <2>1. ctl.stage = 1
    BY <1>3
  <2> QED
    BY <2>1, <1>1, <1>4, <1>5 DEF FewKept
<1>10. Written'
  BY <1>1 DEF Written, Copy!LastOut
<1>11. Chained'
  <2>1. AtEnd' = FALSE /\ InHand' = FALSE /\ Copy!LastOut' = Copy!LastOut
    BY <1>2 DEF AtEnd, InHand, Copy!LastOut
  <2>2. /\ rt'.queue[Stages] = IF ctl.stage = Stages THEN q ELSE rt.queue[Stages]
        /\ FirstQueue' = IF ctl.stage = Stages THEN FirstQueue ELSE q
    <3>1. CASE Stages = 1
      BY <3>1, <1>2, <1>3, <1>5 DEF FirstQueue
    <3>2. CASE Stages = 2
      <4>1. FirstQueue = rt.queue[1] /\ FirstQueue' = rt'.queue[1] /\ Stages' = Stages
        BY <3>2, <1>2 DEF FirstQueue
      <4>2. ctl.stage \in {1, 2} /\ 1 \in Stage /\ 2 \in Stage
        BY <3>2, <1>3
      <4>3. CASE ctl.stage = 1
        BY ONLY <3>2, <4>1, <4>2, <4>3, <1>5
      <4>4. CASE ctl.stage = 2
        BY ONLY <3>2, <4>1, <4>2, <4>4, <1>5
      <4> QED
        BY <4>2, <4>3, <4>4
    <3> QED
      BY <3>1, <3>2, <1>3
  <2>3. Chain(surf'.content, Copy!LastOut, FALSE, e, rt'.queue[Stages], FALSE, h, FirstQueue', LastRead', unhandled)
    BY <2>2 DEF CallChain
  <2>4. Chain(surf'.content, Copy!LastOut, FALSE, Announced', rt'.queue[Stages], FALSE, Hand', FirstQueue',
              LastRead', unhandled)
    BY <2>3 DEF Chain, Link
  <2> QED
    BY <2>1, <2>4, <1>2 DEF Chained
<1> QED
  BY <1>1, <1>2, <1>6, <1>7, <1>8, <1>9, <1>10, <1>11 DEF Flow

LEMMA QueueAppended ==
    ASSUME NEW S, NEW q \in Seq(S), NEW x \in S
    PROVE  /\ Append(q, x) \in Seq(S) /\ Append(q, x) # <<>>
           /\ Len(Append(q, x)) = Len(q) + 1 /\ Len(q) \in Nat
OBVIOUS

LEMMA RtProcessFlows ==
    ASSUME Resources, Flow, RtProcess
    PROVE  Flow'
<1> DEFINE q == Append(rt.queue[ctl.stage], surf.given)
<1>1. /\ prog \in Programs /\ Shapes /\ ctl.failed = FALSE
      /\ Source /\ Fields /\ Tasks /\ Drains /\ FewKept /\ Chained
  BY AtWork DEF RtProcess, Called, Running, InLoop
<1>2. /\ ctl.pc = "call" /\ Component # "decode" /\ ~NullInput
      /\ prog' = prog /\ input' = input /\ surf' = surf /\ unhandled' = unhandled /\ out' = out
      /\ \/ /\ Announces(q) /\ ctl' = Answer("NONE")
            /\ \E to : rt' = Emit(rt, q, to)
         \/ ~Announces(q) /\ rt' = Keep(rt, q) /\ ctl' = Answer("MORE_DATA")
  BY DEF RtProcess, Called
<1>3. /\ Stages \in {1, 2} /\ Stage = 1..Stages /\ ctl.stage \in Stage
      /\ \A k \in Stage : /\ P.stages[k] \in {"decode", "encode", "vpp"}
                          /\ P.stages[k] = "decode" <=> P.reads = "stream" /\ k = 1
      /\ P.reads \in {"stream", "frames"} /\ (Stages = 2 => P.reads = "stream")
  BY <1>1, StagesOfProgram DEF Fields
<1>4. ctl.stage = Stages
  BY <1>2, <1>3 DEF Component
<1>5. Carries /\ surf.given \in Slot
  BY <1>1, <1>2 DEF Carries, Tasks
<1>6. AtEnd = FALSE /\ InHand = TRUE /\ Hand = surf.content[surf.given]
  BY <1>2, <1>5 DEF AtEnd, HasTask, InHand, Hand
<1>7. /\ rt.queue[Stages] \in Seq(Slot) /\ FirstQueue \in Seq(Slot) /\ Copy!LastOut \in Nat /\ LastRead \in Nat
      /\ surf.content \in [Slot -> Nat] /\ unhandled \in BOOLEAN
  BY <1>1, QueuesTyped DEF Fields
<1>8. q \in Seq(Slot) /\ q # <<>> /\ Len(q) = Len(rt.queue[ctl.stage]) + 1 /\ Len(rt.queue[ctl.stage]) \in Nat
  <2>1. rt.queue[ctl.stage] \in Seq(Slot)
    BY <1>4, <1>7
  <2> QED
    BY <2>1, <1>5, QueueAppended
<1>9. P' = P /\ Stages' = Stages /\ Stage' = Stage
  BY <1>2, SameProgram
<1>10. Source' /\ LastRead' = LastRead
  BY <1>1, <1>2, <1>9 DEF Source, LastRead
<1>11. CallChain(surf'.content, Announced, q, Hand, LastRead')
  <2>1. Chain(surf.content, Copy!LastOut, FALSE, Announced, rt.queue[Stages], TRUE, surf.content[surf.given],
              FirstQueue, LastRead, unhandled)
    BY <1>1, <1>6 DEF Chained
  <2>2. Chain(surf.content, Copy!LastOut, FALSE, Announced, Append(rt.queue[Stages], surf.given), FALSE, Hand,
              FirstQueue, LastRead, unhandled)
    BY <1>5, <1>7, <2>1, ChainTaken
  <2> QED
    BY <2>2, <1>2, <1>4, <1>10 DEF CallChain
<1>12. P.reads = "frames" => Len(q) <= Delay[P.stages[1]] + 1 /\ (~Announces(q) => Len(q) <= Delay[P.stages[1]])
  <2> SUFFICES ASSUME P.reads = "frames"
               PROVE  Len(q) <= Delay[P.stages[1]] + 1 /\ (~Announces(q) => Len(q) <= Delay[P.stages[1]])
    OBVIOUS
  <2>1. ctl.stage = 1 /\ Component = P.stages[1] /\ Delay[P.stages[1]] \in Nat
    BY <1>3, ExamplesAssumption DEF Component
  <2>2. Len(rt.queue[1]) <= Delay[P.stages[1]]
    BY <1>1 DEF FewKept
  <2>3. Announces(q) <=> Len(q) > Delay[P.stages[1]]
    BY <1>2, <2>1 DEF Announces
  <2> QED
    BY <2>1, <2>2, <2>3, <1>8
<1>13. surf'.content \in [Slot -> Nat] /\ DOMAIN surf' = DOMAIN surf /\ surf'.work \in Slot \cup {None}
  BY <1>1, <1>2 DEF Fields
<1> HIDE DEF q
<1>14. CASE Announces(q)
  <2>1. PICK to : rt' = Emit(rt, q, to)
    BY <1>2, <1>14
  <2>2. ctl' = Answer("NONE")
    BY <1>2, <1>14
  <2>3. Drains'
    BY <1>1, <1>2, <1>3, <1>4, <1>9, <2>2, Answered DEF Drains, NullInput
  <2>4. ~(ctl.stage < Stages)
    BY <1>3, <1>4
  <2> QED
    BY <1>2, <1>8, <1>10, <1>11, <1>12, <1>13, <2>1, <2>2, <2>3, <2>4, EmitFlows
<1>15. CASE ~Announces(q)
  <2>1. rt' = Keep(rt, q) /\ ctl' = Answer("MORE_DATA")
    BY <1>2, <1>15
  <2>2. Drains'
    BY <1>1, <1>2, <1>3, <1>4, <1>9, <2>1, Answered DEF Drains, NullInput
  <2>3. P.reads = "frames" => Len(q) <= Delay[P.stages[1]]
    BY <1>12, <1>15
  <2> QED
    BY <1>2, <1>8, <1>10, <1>11, <1>13, <2>1, <2>2, <2>3, KeepFlows
<1> QED
  BY <1>14, <1>15

\* A decoder that has the end of the stream has decoded all frames when it cannot
\* decode another one.
LEMMA AllDecoded ==
    ASSUME prog \in Programs, Source, Drains, P.reads = "stream", ctl.draining > 0, ~CanDecode(0)
    PROVE  unhandled \/ input.parsed = NFrames
<1> SUFFICES ASSUME ~unhandled, input.parsed # NFrames
             PROVE  FALSE
  OBVIOUS
<1>1. input.file = StreamSize /\ input.bs.length = 0
  BY DEF Drains
<1>2. input.parsed \in 0..NFrames /\ NFrames \in Nat
  BY StreamSizeNumber DEF Source
<1>3. input.parsed < NFrames /\ input.parsed + 2 \in 1..NFrames + 1
  BY <1>2
<1>4. Start[input.parsed + 2] \in Nat /\ Start[NFrames + 1] \in Nat
      /\ Start[input.parsed + 2] <= Start[NFrames + 1]
  <2>1. NFrames + 1 \in 1..NFrames + 1 /\ input.parsed + 2 <= NFrames + 1
    BY <1>2, <1>3
  <2>2. /\ Start[input.parsed + 2] \in Nat /\ Start[NFrames + 1] \in Nat
        /\ input.parsed + 2 < NFrames + 1 => Start[input.parsed + 2] < Start[NFrames + 1]
    BY <1>3, <2>1, StartNumbers
  <2>3. CASE input.parsed + 2 = NFrames + 1
    BY <2>2, <2>3
  <2>4. CASE input.parsed + 2 < NFrames + 1
    BY <2>2, <2>4
  <2> QED
    BY <1>2, <2>1, <2>3, <2>4
<1>5. Trailing \in {0, 1}
  BY ExamplesAssumption
<1>6. Consumed(0) = StreamSize /\ StreamSize = Start[NFrames + 1] + Trailing
  BY <1>1, StreamSizeNumber DEF Consumed, StreamSize
<1>7. Start[input.parsed + 2] <= Consumed(0)
  BY <1>4, <1>5, <1>6
<1> QED
  BY <1>3, <1>7 DEF CanDecode

LEMMA RtDrainFlows ==
    ASSUME Resources, Flow, RtDrain
    PROVE  Flow'
<1> DEFINE q == rt.queue[ctl.stage]
<1>1. /\ prog \in Programs /\ Shapes /\ ctl.failed = FALSE
      /\ Source /\ Fields /\ Tasks /\ Drains /\ FewKept /\ Chained
  BY AtWork DEF RtDrain, Called, Running, InLoop
<1>2. /\ ctl.pc = "call" /\ NullInput /\ (Component = "decode" => ~CanDecode(0))
      /\ prog' = prog /\ input' = input /\ unhandled' = unhandled /\ out' = out
  BY DEF RtDrain, Called
<1>3. /\ Stages \in {1, 2} /\ Stage = 1..Stages /\ ctl.stage \in Stage
      /\ \A k \in Stage : /\ P.stages[k] \in {"decode", "encode", "vpp"}
                          /\ P.stages[k] = "decode" <=> P.reads = "stream" /\ k = 1
      /\ P.reads \in {"stream", "frames"} /\ (Stages = 2 => P.reads = "stream")
  BY <1>1, StagesOfProgram DEF Fields
<1>4. P' = P /\ Stages' = Stages /\ Stage' = Stage
  BY <1>2, SameProgram
<1>5. Source' /\ LastRead' = LastRead
  BY <1>1, <1>2, <1>4 DEF Source, LastRead
<1>6. ~HasTask /\ ~Carries
  BY <1>2 DEF HasTask, Carries
<1>7. AtEnd = FALSE /\ InHand = FALSE
  BY <1>6 DEF AtEnd, InHand
<1>8. q \in Seq(Slot)
  BY <1>1, <1>3 DEF Fields
<1>9. CASE q = <<>>
  <2>1. ctl' = Answer("MORE_DATA") /\ rt' = rt /\ surf' = surf
    BY <1>9 DEF RtDrain
  <2>2. /\ ctl'.pc = "answer" /\ ctl'.sts = "MORE_DATA"
        /\ ctl'.stage = ctl.stage /\ ctl'.draining = ctl.draining /\ ctl'.failed = ctl.failed
        /\ ctl'.timeouts = ctl.timeouts
        /\ Component' = Component /\ (NullInput' <=> NullInput)
        /\ ~Carries' /\ ~HasTask' /\ Running
    BY <1>1, <1>2, <2>1, Answered
  <2>3. Tasks'
    BY <1>1, <1>6, <2>1, <2>2 DEF Tasks
  <2>4. Drains'
    BY <1>1, <1>2, <1>4, <2>1, <2>2 DEF Drains
  <2>5. Component = "decode" => unhandled \/ input.parsed = NFrames
    <3> SUFFICES ASSUME Component = "decode"
                 PROVE  unhandled \/ input.parsed = NFrames
      OBVIOUS
    <3>1. P.reads = "stream" /\ ctl.draining > 0
      BY <1>1, <1>2, <1>3 DEF Component, NullInput, Fields
    <3> QED
      BY <1>1, <1>2, <3>1, AllDecoded
  <2>6. Answers'
    BY <1>2, <1>9, <2>1, <2>2, <2>5 DEF Answers
  <2>7. ~AtEnd' /\ ~InHand'
    BY <2>2 DEF AtEnd, InHand
  <2>8. /\ rt'.queue = rt.queue /\ rt'.ref = rt.ref /\ unhandled' \in BOOLEAN
        /\ ctl'.failed = FALSE /\ ctl'.stage \in Stage /\ ctl'.draining \in 0..Stages /\ ctl'.timeouts \in Nat
        /\ unhandled' \/ ~unhandled
        /\ surf'.content = surf.content /\ DOMAIN surf' = DOMAIN surf /\ surf'.work \in Slot \cup {None}
    BY <1>1, <1>2, <2>1, <2>2 DEF Fields
  <2> QED
    BY <1>2, <1>5, <1>7, <2>2, <2>3, <2>4, <2>6, <2>7, <2>8, QuietFlows
<1>10. CASE q # <<>>
  <2>1. /\ rt' = Emit(rt, q, IF Component = "decode" THEN Head(q) ELSE None)
        /\ ctl' = Answer("NONE")
        /\ surf' = surf \/ surf' = [surf EXCEPT !.app = @ \cup {Head(q)}]
    BY <1>10 DEF RtDrain
  <2>2. surf'.content = surf.content /\ DOMAIN surf' = DOMAIN surf /\ surf'.work \in Slot \cup {None}
    BY <1>1, <2>1 DEF Fields
  <2>3. surf'.content \in [Slot -> Nat]
    BY <1>1, <2>2 DEF Fields
  <2>4. /\ ctl'.pc = "answer" /\ ctl'.sts = "NONE"
        /\ ctl'.stage = ctl.stage /\ ctl'.draining = ctl.draining
    BY <1>1, <1>2, <2>1, Answered
  <2>5. rt'.queue = [rt.queue EXCEPT ![ctl.stage] = Tail(q)]
    BY <1>1, <2>1 DEF Emit, Shapes
  <2>6. ctl.stage = 2 => rt'.queue[1] = rt.queue[1]
    BY <2>5, <1>1, <1>3 DEF Fields
  <2>7. Drains'
    BY <1>1, <1>2, <1>4, <2>4, <2>6 DEF Drains
  <2>8. ctl.stage < Stages => Component = "decode"
    BY <1>3 DEF Component
  <2>9. P.reads = "frames" => Len(q) <= Delay[P.stages[1]] + 1
    <3> SUFFICES ASSUME P.reads = "frames"
                 PROVE  Len(q) <= Delay[P.stages[1]] + 1
      OBVIOUS
    <3>1. ctl.stage = 1 /\ Delay[P.stages[1]] \in Nat /\ Len(q) \in Nat
      BY <1>3, <1>8, DelayNumber
    <3>2. Len(q) <= Delay[P.stages[1]]
      BY <1>1, <3>1 DEF FewKept
    <3> QED
      BY <3>1, <3>2
  <2>10. CallChain(surf'.content, Announced, q, Hand, LastRead')
    <3>1. Chain(surf.content, Copy!LastOut, FALSE, Announced, rt.queue[Stages], FALSE, Hand,
                FirstQueue, LastRead, unhandled)
      BY <1>1, <1>7 DEF Chained
    <3>2. ctl.stage # Stages => q = FirstQueue
      BY <1>3 DEF FirstQueue
    <3> QED
      BY <3>1, <3>2, <2>2, <1>5 DEF CallChain
  <2> HIDE DEF q
  <2> QED
    BY <1>2, <1>5, <1>8, <1>10, <2>1, <2>2, <2>3, <2>7, <2>8, <2>9, <2>10, EmitFlows
<1> QED
  BY <1>9, <1>10

LEMMA RtDecodeFlows ==
    ASSUME Resources, Flow, RtDecode
    PROVE  Flow'
<1> DEFINE slot == WorkSurface
           q == Append(rt.queue[ctl.stage], slot)
           all == IF NullInput THEN 0 ELSE input.bs.length
<1>1. /\ prog \in Programs /\ Shapes /\ ctl.failed = FALSE
      /\ Source /\ Fields /\ Tasks /\ Drains /\ Chained
  BY AtWork DEF RtDecode, Called, Running, InLoop
<1>2. /\ ctl.pc = "call" /\ Component = "decode"
      /\ prog' = prog /\ unhandled' = unhandled /\ out' = out
      /\ CanDecode(all) /\ slot # None /\ slot \notin Locked
      /\ \E n \in 0..all : input' = [Consume(n) EXCEPT !.parsed = @ + 1]
      /\ surf' = [surf EXCEPT !.content[slot] = input.parsed + 1,
                              !.app = IF Announces(q) /\ P.surfaces # "pool" THEN @ \cup {Head(q)} ELSE @]
  BY DEF RtDecode, Called
<1>3. /\ \/ Announces(q) /\ rt' = Emit(rt, q, Head(q)) /\ ctl' = Answer("NONE")
         \/ /\ ~Announces(q) /\ rt' = Keep(rt, q)
            /\ \E s \in {"MORE_DATA", "MORE_SURFACE"} :
                  ctl' = Answer(s) /\ (s = "MORE_SURFACE" => P.surfaces = "pool")
  BY DEF RtDecode
<1>4. /\ Stages \in {1, 2} /\ Stage = 1..Stages /\ ctl.stage = 1 /\ P.reads = "stream"
  BY <1>1, <1>2, StagesOfProgram DEF Fields, Component
<1>5. slot \in Slot
  <2>1. CASE P.surfaces = "pool"
    BY <2>1, <1>1, <1>2 DEF WorkSurface, Fields
  <2>2. CASE P.surfaces # "pool"
    BY <2>2, <1>2, SlotNumbers, SurfaceFound DEF WorkSurface
  <2> QED
    BY <2>1, <2>2
<1>6. /\ rt.queue[1] \in Seq(Slot) /\ rt.queue[Stages] \in Seq(Slot) /\ FirstQueue \in Seq(Slot)
      /\ Copy!LastOut \in Nat
      /\ surf.content \in [Slot -> Nat] /\ unhandled \in BOOLEAN
  BY <1>1, <1>4, QueuesTyped DEF Fields
<1>7. q \in Seq(Slot) /\ q # <<>> /\ Len(q) = Len(rt.queue[1]) + 1 /\ Len(rt.queue[1]) \in Nat
  <2>1. q = Append(rt.queue[1], slot)
    BY <1>4
  <2>2. rt.queue[1] \in Seq(Slot) /\ slot \in Slot
    BY <1>5, <1>6
  <2> HIDE DEF slot, q
  <2> QED
    BY <2>1, <2>2, QueueAppended
<1>8. P' = P /\ Stages' = Stages /\ Stage' = Stage
  BY <1>2, SameProgram
<1>9. /\ all \in Nat /\ all <= input.bs.length /\ input.bs.length \in Nat /\ (NullInput => all = 0)
  BY <1>1, StreamSizeNumber DEF Source
<1>10. /\ input.parsed \in 0..NFrames /\ input.parsed < NFrames /\ NFrames \in Nat
  BY <1>1, <1>2, StreamSizeNumber DEF Source, CanDecode
<1>11. /\ DOMAIN input' = DOMAIN input /\ DOMAIN input'.bs = DOMAIN input.bs
       /\ input'.file = input.file /\ input'.parsed = input.parsed + 1
       /\ input'.bs.length \in 0..input.bs.length /\ (NullInput => input'.bs.length = input.bs.length)
  <2> HIDE DEF all, q, slot
  <2>1. PICK n \in 0..all : input' = [Consume(n) EXCEPT !.parsed = @ + 1]
    BY <1>2
  <2>2. /\ DOMAIN input = {"file", "parsed", "bs"} /\ DOMAIN input.bs = {"offset", "length"}
    BY <1>1 DEF Source
  <2>3. /\ DOMAIN input' = DOMAIN input /\ DOMAIN input'.bs = DOMAIN input.bs
        /\ input'.file = input.file /\ input'.parsed = input.parsed + 1
        /\ input'.bs.length = input.bs.length - n
    BY <2>1, <2>2 DEF Consume
  <2>4. n \in Nat /\ n <= input.bs.length /\ (NullInput => n = 0)
    BY <1>9
  <2> QED
    BY <2>3, <2>4, <1>9
<1>12. Source' /\ LastRead' = LastRead + 1 /\ LastRead \in Nat /\ LastRead = input.parsed
  BY <1>1, <1>4, <1>8, <1>10, <1>11, StreamSizeNumber DEF Source, LastRead
<1>13. /\ DOMAIN surf' = DOMAIN surf /\ surf'.work = surf.work
       /\ surf'.content = [surf.content EXCEPT ![slot] = input.parsed + 1]
  <2> HIDE DEF slot, q
  <2> QED
    BY <1>1, <1>2 DEF Fields
<1>14. /\ surf'.content \in [Slot -> Nat] /\ surf'.content[slot] = LastRead + 1
       /\ \A i \in Locked : surf'.content[i] = surf.content[i]
       /\ surf'.work \in Slot \cup {None}
  <2> HIDE DEF slot, q
  <2>1. surf'.work \in Slot \cup {None}
    BY <1>1, <1>13 DEF Fields
  <2>2. input.parsed + 1 \in Nat
    BY <1>12
  <2>3. surf'.content \in [Slot -> Nat] /\ surf'.content[slot] = LastRead + 1
    BY <2>2, <1>5, <1>6, <1>12, <1>13
  <2>4. \A i \in Locked : surf'.content[i] = surf.content[i]
    <3> SUFFICES ASSUME NEW i \in Locked
                 PROVE  surf'.content[i] = surf.content[i]
      OBVIOUS
    <3>1. i # slot /\ DOMAIN surf.content = Slot
      BY <1>2, <1>6
    <3> QED
      BY <3>1, <1>13
  <2> QED
    BY <2>1, <2>3, <2>4
<1>15. ctl'.pc = "answer" /\ ctl'.stage = ctl.stage /\ ctl'.draining = ctl.draining
  <2> HIDE DEF slot, q
  <2> QED
    BY <1>1, <1>2, <1>3, Answered
<1>16. Drains'
  <2>1. ctl.draining # 2
    BY <1>1, <1>4 DEF Drains
  <2>2. ctl'.draining > 0 /\ ~unhandled' => input'.file = StreamSize /\ input'.bs.length = 0
    <3>1. ctl.draining > 0 => NullInput
      BY <1>1, <1>4 DEF NullInput, Fields
    <3> QED
      BY <3>1, <1>1, <1>2, <1>4, <1>11, <1>15 DEF Drains
  <2>3. ctl'.sts # "ALLOC_TIMEOUT_EXPIRED"
    <3> HIDE DEF slot, q
    <3> QED
      BY <1>1, <1>2, <1>3, Answered
  <2> QED
    BY <2>1, <2>2, <2>3, <1>4, <1>8, <1>15 DEF Drains
<1>17. CallChain(surf'.content, Announced, q, Hand, LastRead')
  <2>1. AtEnd = FALSE /\ InHand = FALSE
    BY <1>2 DEF AtEnd, InHand, HasTask, Carries
  <2>2. Chain(surf.content, Copy!LastOut, FALSE, Announced, rt.queue[Stages], FALSE, Hand, FirstQueue,
              LastRead, unhandled)
    BY <1>1, <2>1 DEF Chained
  <2>3. /\ \A k \in DOMAIN rt.queue[Stages] : surf'.content[rt.queue[Stages][k]] = surf.content[rt.queue[Stages][k]]
        /\ \A k \in DOMAIN FirstQueue : surf'.content[FirstQueue[k]] = surf.content[FirstQueue[k]]
    <3>1. \A s \in Stage : \A k \in DOMAIN rt.queue[s] : rt.queue[s][k] \in Locked
      BY QueuesLocked
    <3>2. Stages \in Stage /\ 1 \in Stage /\ (FirstQueue = <<>> \/ FirstQueue = rt.queue[1])
      BY <1>4 DEF FirstQueue
    <3>3. \A k \in DOMAIN FirstQueue : FirstQueue[k] \in Locked
      BY <3>1, <3>2
    <3> QED
      BY <3>1, <3>2, <3>3, <1>14
  <2> HIDE DEF slot
  <2>4. Chain(surf'.content, Copy!LastOut, FALSE, Announced, rt.queue[Stages], FALSE, Hand, FirstQueue,
              LastRead, unhandled)
    <3>1. PICK a \in Nat, b \in Nat, c \in Nat :
            /\ Link(Copy!LastOut, FALSE, Announced, a, unhandled)
            /\ Part(surf.content, rt.queue[Stages], a, b, unhandled)
            /\ Link(b, FALSE, Hand, c, unhandled)
            /\ Part(surf.content, FirstQueue, c, LastRead, unhandled)
      BY <2>2 DEF Chain
    <3>2. Part(surf'.content, rt.queue[Stages], a, b, unhandled)
      BY ONLY <3>1, <2>3 DEF Part
    <3>3. Part(surf'.content, FirstQueue, c, LastRead, unhandled)
      BY ONLY <3>1, <2>3 DEF Part
    <3> QED
      BY <3>1, <3>2, <3>3 DEF Chain
  <2>5. CASE Stages = 1
    <3>1. FirstQueue = <<>> /\ ctl.stage = Stages
      BY <2>5, <1>4 DEF FirstQueue
    <3>2. Chain(surf'.content, Copy!LastOut, FALSE, Announced, rt.queue[Stages], FALSE, Hand, <<>>,
                LastRead, unhandled)
      BY <2>4, <3>1
    <3>3. Chain(surf'.content, Copy!LastOut, FALSE, Announced, Append(rt.queue[Stages], slot), FALSE, Hand, <<>>,
                LastRead + 1, unhandled)
      <4>1. /\ slot \in Slot /\ surf'.content \in [Slot -> Nat] /\ surf'.content[slot] = LastRead + 1
            /\ LastRead \in Nat
        BY <1>5, <1>12, <1>14
      <4> QED
        BY ONLY <3>2, <4>1, <1>6, ChainDecodedLast
    <3> QED
      BY <3>1, <3>3, <1>12 DEF CallChain
  <2>6. CASE Stages = 2
    <3>1. FirstQueue = rt.queue[1] /\ ctl.stage # Stages /\ q = Append(FirstQueue, slot)
      BY <2>6, <1>4 DEF FirstQueue
    <3>2. Chain(surf'.content, Copy!LastOut, FALSE, Announced, rt.queue[Stages], FALSE, Hand,
                Append(FirstQueue, slot), LastRead + 1, unhandled)
      BY <2>4, <1>5, <1>6, <1>12, <1>14, ChainDecodedFirst
    <3> QED
      BY <3>1, <3>2, <1>12 DEF CallChain
  <2> QED
    BY <2>5, <2>6, <1>4
<1>18. P.reads # "frames"
  BY <1>4
<1>19. Announces(q) \/ ~NullInput
  BY <1>7 DEF Announces
<1> HIDE DEF slot, q, all
<1>20. CASE Announces(q)
  <2>1. rt' = Emit(rt, q, Head(q)) /\ ctl' = Answer("NONE")
    BY <1>3, <1>20
  <2> QED
    BY <1>2, <1>7, <1>12, <1>13, <1>14, <1>16, <1>17, <1>18, <2>1, EmitFlows
<1>21. CASE ~Announces(q)
  <2>1. PICK s \in {"MORE_DATA", "MORE_SURFACE"} :
            rt' = Keep(rt, q) /\ ctl' = Answer(s) /\ (s = "MORE_SURFACE" => P.surfaces = "pool")
    BY <1>3, <1>21
  <2>2. s = "MORE_SURFACE" => Component = "decode" /\ "MORE_SURFACE" \in P.goesOn
    BY <2>1, <1>1, <1>2, <1>4, RefusedOfProgram
  <2> QED
    BY <1>2, <1>7, <1>12, <1>13, <1>14, <1>16, <1>17, <1>18, <1>19, <1>21, <2>1, <2>2, KeepFlows
<1> QED
  BY <1>20, <1>21

\* The surface a frame is read into is free; without one the program fails.
LEMMA InputSurface ==
    ASSUME prog \in Programs, P.reads = "frames", rt.task = None, Fields, FewKept,
           NEW in, in = (IF P.surfaces = "pool" THEN GetFreeSurfaceIndex(InSide) ELSE GetSurface(InSide)),
           P.surfaces # "pool" => in # None
    PROVE  in \in Slot /\ in \notin Locked
<1>1. CASE P.surfaces = "pool"
  <2>1. PICK x : rt.ref[1] \subseteq {x}
    BY DEF FewKept
  <2>2. Len(rt.queue[1]) <= Delay[P.stages[1]] /\ rt.queue \in [Stage -> Seq(Slot)]
    BY DEF FewKept, Fields
  <2>3. in \in InSide \ Locked
    BY <1>1, <2>1, <2>2, InputFound
  <2> QED
    BY <2>3, SlotNumbers
<1>2. CASE P.surfaces # "pool"
  BY <1>2, SlotNumbers, SurfaceFound
<1> QED
  BY <1>1, <1>2

LEMMA OutputSurfaceTaken ==
    ASSUME NEW s, DOMAIN s = {"app", "content", "given", "work"}, s.work \in Slot \cup {None}
    PROVE  LET o == OutputSurface(s)
           IN  /\ DOMAIN o = DOMAIN s /\ o.content = s.content /\ o.given = s.given
               /\ o.work \in Slot \cup {None}
<1>1. /\ GetFreeSurfaceIndex(OutSide) \in Slot \cup {None}
      /\ GetSurface(OutSide) \in Slot \cup {None}
  BY SlotNumbers, SurfaceFound
<1> QED
  BY <1>1 DEF OutputSurface

LEMMA LoadFrameFlows ==
    ASSUME Resources, Flow, LoadFrame
    PROVE  Flow'
<1> DEFINE r == ReadRawFrame(input)
           in == IF P.surfaces = "pool" THEN GetFreeSurfaceIndex(InSide) ELSE GetSurface(InSide)
<1>1. /\ prog \in Programs /\ Shapes /\ ctl.failed = FALSE
      /\ Source /\ Fields /\ Tasks /\ Drains /\ FewKept /\ Chained /\ Written
  BY AtWork DEF LoadFrame, Running, InLoop
<1>2. /\ ctl.pc = "load" /\ ~(ctl.draining > 0) /\ P.reads = "frames"
      /\ prog' = prog /\ rt' = rt /\ unhandled' = unhandled /\ out' = out
  BY DEF LoadFrame, IsDraining
<1>3. Stages = 1 /\ Stage = {1} /\ ctl.stage = 1 /\ P.stages[1] # "decode" /\ ctl.draining = 0
  BY <1>1, <1>2, StagesOfProgram DEF Fields
<1>4. /\ DOMAIN input = {"file", "parsed", "bs"} /\ DOMAIN input.bs = {"offset", "length"}
      /\ input.file \in 0..NFrames /\ NFrames \in Nat
  BY <1>1, <1>2, StreamSizeNumber DEF Source
<1>5. ~HasTask /\ ~Carries /\ Running /\ rt.task = None
  BY <1>1, <1>2 DEF HasTask, Carries, Running, InLoop, Tasks
<1>6. P' = P /\ Stages' = Stages /\ Stage' = Stage
  BY <1>2, SameProgram
<1>7. surf'.content = [i \in Slot |-> IF r.sts = "NONE" /\ i = in THEN r.input.file ELSE surf.content[i]]
      /\ DOMAIN surf' = DOMAIN surf /\ surf'.given = in /\ surf'.work \in Slot \cup {None}
  <2> HIDE DEF r, in
  <2>1. PICK a : surf' = OutputSurface(
                   [surf EXCEPT !.given = in, !.app = a,
                                !.content = [i \in Slot |-> IF r.sts = "NONE" /\ i = in THEN r.input.file ELSE @[i]]])
    BY DEF LoadFrame, r, in
  <2> DEFINE t == [surf EXCEPT !.given = in, !.app = a,
                               !.content = [i \in Slot |-> IF r.sts = "NONE" /\ i = in THEN r.input.file ELSE @[i]]]
  <2>2. /\ DOMAIN surf = {"app", "content", "given", "work"} /\ surf.work \in Slot \cup {None}
    BY <1>1 DEF Fields
  <2>3. /\ DOMAIN t = {"app", "content", "given", "work"} /\ t.work \in Slot \cup {None} /\ t.given = in
        /\ t.content = [i \in Slot |-> IF r.sts = "NONE" /\ i = in THEN r.input.file ELSE surf.content[i]]
    BY <2>2
  <2>4. surf' = OutputSurface(t)
    BY <2>1
  <2> HIDE DEF t
  <2> QED
    BY <2>2, <2>3, <2>4, OutputSurfaceTaken
<1>8. CASE input.file = NFrames
  <2>1. r.sts = "MORE_DATA" /\ r.input = input
    BY <1>8 DEF ReadRawFrame
  <2>2. input' = input /\ ctl' = Drain(Goto(ctl, "call"))
    BY <2>1 DEF LoadFrame
  <2> HIDE DEF r, in
  <2>3. surf'.content = surf.content
    <3>1. surf.content \in [Slot -> Nat]
      BY <1>1 DEF Fields
    <3> QED
      BY <3>1, <2>1, <1>7
  <2>4. /\ ctl'.pc = "call" /\ ctl'.stage = 1 /\ ctl'.draining = 1 /\ ctl'.failed = ctl.failed
        /\ ctl'.timeouts = ctl.timeouts
    BY <1>1, <1>3, <2>2 DEF Shapes, Goto, Drain
  <2>5. NullInput' /\ ~HasTask' /\ ~Carries'
    BY <2>4 DEF NullInput, HasTask, Carries
  <2>6. Source' /\ LastRead' = LastRead
    BY <1>1, <1>6, <2>2 DEF Source, LastRead
  <2>7. Tasks'
    BY <1>1, <1>2, <1>5, <2>4, <2>5 DEF Tasks
  <2>8. Drains' /\ Answers'
    BY <1>2, <1>6, <1>8, <2>2, <2>4, <2>5 DEF Drains, Answers
  <2>9. ~AtEnd /\ ~AtEnd' /\ ~InHand /\ ~InHand'
    BY <1>5, <2>5 DEF AtEnd, InHand
  <2>10. /\ rt'.queue = rt.queue /\ rt'.ref = rt.ref /\ unhandled' \in BOOLEAN
         /\ ctl'.failed = FALSE /\ ctl'.stage \in Stage /\ ctl'.draining \in 0..Stages /\ ctl'.timeouts \in Nat
         /\ unhandled' \/ ~unhandled
    BY <1>1, <1>2, <1>3, <2>4 DEF Fields
  <2> QED
    BY <1>2, <1>5, <1>7, <2>3, <2>6, <2>7, <2>8, <2>9, <2>10, QuietFlows
<1>9. CASE input.file # NFrames
  <2>1. r.sts = "NONE" /\ r.input = [input EXCEPT !.file = @ + 1]
    BY <1>9 DEF ReadRawFrame
  <2>2. input' = r.input /\ ctl' = Goto(ctl, "call")
        /\ (P.surfaces = "internal" \/ P.surfaces = "imported" => in # None)
    BY <2>1 DEF LoadFrame
  <2>3. in \in Slot /\ in \notin Locked
    <3>1. P.surfaces # "pool" => in # None
      BY <1>1, <2>2, RefusedOfProgram
    <3> QED
      BY <3>1, <1>1, <1>2, <1>5, InputSurface
  <2> HIDE DEF r, in
  <2>4. /\ DOMAIN input' = {"file", "parsed", "bs"} /\ input'.bs = input.bs
        /\ input'.file = input.file + 1 /\ input'.parsed = input.parsed
        /\ input'.file \in 0..NFrames /\ r.input.file = input.file + 1
    BY <1>4, <1>9, <2>1, <2>2
  <2>5. Source' /\ LastRead' = LastRead + 1 /\ LastRead = input.file /\ LastRead \in Nat
    BY <1>1, <1>2, <1>4, <1>6, <2>4 DEF Source, LastRead
  <2>6. /\ ctl'.pc = "call" /\ ctl'.stage = 1 /\ ctl'.draining = 0 /\ ctl'.failed = ctl.failed
        /\ ctl'.timeouts = ctl.timeouts
    BY <1>1, <1>3, <2>2 DEF Shapes, Goto
  <2>7. ~NullInput' /\ Component' # "decode" /\ ~HasTask' /\ Carries'
    BY <1>3, <1>6, <2>6 DEF NullInput, HasTask, Carries, Component
  <2>8. /\ surf.content \in [Slot -> Nat] /\ surf'.content \in [Slot -> Nat]
        /\ surf'.content[in] = LastRead + 1
        /\ \A i \in Slot \cap Locked : surf'.content[i] = surf.content[i]
    <3>1. surf.content \in [Slot -> Nat]
      BY <1>1 DEF Fields
    <3>2. surf'.content = [i \in Slot |-> IF i = in THEN LastRead + 1 ELSE surf.content[i]]
      BY <1>7, <2>1, <2>4, <2>5
    <3>3. LastRead + 1 \in Nat
      BY <2>5
    <3>4. surf'.content \in [Slot -> Nat] /\ surf'.content[in] = LastRead + 1
      BY <3>1, <3>2, <3>3, <2>3
    <3>5. \A i \in Slot \cap Locked : surf'.content[i] = surf.content[i]
      <4> SUFFICES ASSUME NEW i \in Slot \cap Locked
                   PROVE  surf'.content[i] = surf.content[i]
        OBVIOUS
      <4>1. i # in
        BY <2>3
      <4> QED
        BY <3>2, <4>1
    <3> QED
      BY <3>1, <3>4, <3>5
  <2>9. Fields'
    BY <1>1, <1>2, <1>3, <1>6, <1>7, <2>6, <2>8 DEF Fields
  <2>10. Tasks'
    BY <1>2, <1>5, <1>7, <2>3, <2>6, <2>7 DEF Tasks
  <2>11. Drains' /\ Answers'
    BY <2>6, <2>7 DEF Drains, Answers
  <2>12. FewKept'
    BY <1>1, <1>2, <1>6 DEF FewKept
  <2>13. Written' /\ Copy!LastOut' = Copy!LastOut
    BY <1>1, <1>2 DEF Written, Copy!LastOut
  <2>14. Chained'
    <3>1. AtEnd = FALSE /\ InHand = FALSE /\ AtEnd' = FALSE /\ InHand' = TRUE
      <4>1. ~AtEnd /\ ~InHand /\ ~AtEnd' /\ InHand'
        BY <1>5, <2>7 DEF AtEnd, InHand
      <4> QED
        BY <4>1 DEF AtEnd, InHand
    <3>2. Hand' = surf'.content[in] /\ FirstQueue = <<>> /\ FirstQueue' = <<>> /\ rt'.queue[Stages] = rt.queue[Stages]
      BY <1>2, <1>3, <1>6, <1>7, <2>7 DEF Hand, FirstQueue
    <3>3. PICK a \in Nat, b \in Nat, c \in Nat :
            /\ Link(Copy!LastOut, FALSE, Announced, a, unhandled)
            /\ Part(surf.content, rt.queue[Stages], a, b, unhandled)
            /\ Link(b, FALSE, Hand, c, unhandled)
            /\ Part(surf.content, <<>>, c, LastRead, unhandled)
      BY <1>1, <3>1, <3>2 DEF Chained, Chain
    <3>4. Part(surf'.content, rt.queue[Stages], a, b, unhandled)
      <4>1. Stages \in Stage
        BY <1>3
      <4>2. \A k \in DOMAIN rt.queue[Stages] : rt.queue[Stages][k] \in Slot \cap Locked
        <5>1. \A k \in DOMAIN rt.queue[Stages] : rt.queue[Stages][k] \in Locked
          BY <4>1, QueuesLocked
        <5>2. rt.queue[Stages] \in Seq(Slot)
          BY <1>1, <4>1 DEF Fields
        <5> QED
          BY <5>1, <5>2
      <4>3. \A k \in DOMAIN rt.queue[Stages] : surf'.content[rt.queue[Stages][k]] = surf.content[rt.queue[Stages][k]]
        BY <4>2, <2>8
      <4> QED
        BY ONLY <3>3, <4>3 DEF Part
    <3>5. Link(Copy!LastOut, FALSE, Announced', a, unhandled)
      BY <3>3 DEF Link
    <3>6. Link(b, TRUE, surf'.content[in], LastRead + 1, unhandled)
      <4>1. b <= c /\ (~unhandled => b = c) /\ c <= LastRead /\ (~unhandled => c = LastRead)
        BY <3>3, <2>5 DEF Link, Part
      <4> QED
        BY <4>1, <2>5, <2>8 DEF Link, Follower
    <3>7. Part(surf'.content, <<>>, LastRead + 1, LastRead + 1, unhandled)
      BY <2>5 DEF Part
    <3>8. LastRead + 1 \in Nat
      BY <2>5
    <3>9. Chain(surf'.content, Copy!LastOut, FALSE, Announced', rt.queue[Stages], TRUE, surf'.content[in], <<>>,
                LastRead + 1, unhandled)
      BY <3>3, <3>4, <3>5, <3>6, <3>7, <3>8 DEF Chain
    <3> QED
      BY <3>1, <3>2, <3>9, <1>2, <1>6, <2>5, <2>13 DEF Chained
  <2> QED
    BY <1>1, <2>5, <2>6, <2>9, <2>10, <2>11, <2>12, <2>13, <2>14 DEF Flow
<1> QED
  BY <1>8, <1>9

-----------------------------------------------------------------------------
(* Flow is an invariant                                                    *)

LEMMA InitFlows ==
    ASSUME Init
    PROVE  Resources /\ Flow
<1>1. /\ prog \in Programs
      /\ ctl = [pc |-> "setup", step |-> 1, stage |-> 1, draining |-> 0, sts |-> "NONE",
                timeouts |-> 0, failed |-> FALSE]
      /\ input = [file |-> 0, parsed |-> 0, bs |-> [offset |-> 0, length |-> 0]]
      /\ surf = [app |-> {}, content |-> [i \in Slot |-> 0], given |-> None, work |-> None]
      /\ rt = [queue |-> [s \in Stage |-> <<>>], ref |-> [s \in Stage |-> {}], task |-> None,
               busy |-> 0, refuses |-> None]
      /\ unhandled = FALSE /\ out = <<>>
  BY DEF Init
<1>2. Resources
  BY ResourcesInit
<1>3. /\ Stages \in {1, 2} /\ Stage = 1..Stages /\ P.stages[1] \in {"decode", "encode", "vpp"}
      /\ P.reads \in {"stream", "frames"}
  <2>1. /\ Stages \in {1, 2} /\ Stage = 1..Stages /\ P.reads \in {"stream", "frames"}
        /\ \A s \in Stage : P.stages[s] \in {"decode", "encode", "vpp"}
    BY <1>1, StagesOfProgram
  <2>2. 1 \in Stage
    BY <2>1
  <2> QED
    BY <2>1, <2>2
<1>4. Source
  BY <1>1, StreamSizeNumber DEF Source
<1>5. rt.queue \in [Stage -> Seq(Slot)]
  <2>1. <<>> \in Seq(Slot)
    OBVIOUS
  <2> QED
    BY <2>1, <1>1
<1>6. Fields
  <2>1. /\ DOMAIN surf = {"app", "content", "given", "work"} /\ surf.content \in [Slot -> Nat]
        /\ surf.work \in Slot \cup {None}
    BY <1>1
  <2>2. /\ DOMAIN rt.ref = Stage /\ unhandled \in BOOLEAN
        /\ ctl.stage = 1 /\ ctl.draining = 0 /\ ctl.timeouts = 0
    BY <1>1
  <2>4. out \in Seq(Nat)
    <3>1. <<>> \in Seq(Nat)
      OBVIOUS
    <3> QED
      BY <3>1, <1>1
  <2>3. ctl.stage \in Stage /\ ctl.draining \in 0..Stages /\ ctl.timeouts \in Nat
    BY <2>2, <1>3
  <2> QED
    BY <2>1, <2>2, <2>3, <2>4, <1>5 DEF Fields
<1>7. ~HasTask /\ ~Carries
  BY <1>1 DEF HasTask, Carries
<1>8. Tasks
  BY <1>1, <1>7 DEF Tasks
<1>9. Drains /\ Answers
  BY <1>1 DEF Drains, Answers
<1>10. FewKept
  <2>1. 1 \in Stage /\ Delay[P.stages[1]] \in Nat
    BY <1>3, ExamplesAssumption
  <2>2. rt.queue[1] = <<>> /\ rt.ref[1] = {}
    BY <2>1, <1>1
  <2> QED
    BY <2>1, <2>2 DEF FewKept
<1>11. Copy!LastOut = 0 /\ LastRead = 0 /\ Len(out) = 0
  BY <1>1 DEF Copy!LastOut, LastRead
<1>12. Chained
  <2>1. AtEnd = FALSE /\ InHand = FALSE
    <3>1. ~AtEnd /\ ~InHand
      BY <1>7 DEF AtEnd, InHand
    <3> QED
      BY <3>1 DEF AtEnd, InHand
  <2>2. rt.queue[Stages] = <<>> /\ FirstQueue = <<>>
    <3>1. Stages \in Stage /\ 1 \in Stage
      BY <1>3
    <3> QED
      BY <3>1, <1>1 DEF FirstQueue
  <2>3. Part(surf.content, <<>>, 0, 0, FALSE)
    BY PartOfNothing
  <2>4. Chain(surf.content, 0, FALSE, Announced, <<>>, FALSE, Hand, <<>>, 0, FALSE)
    <3>1. Link(0, FALSE, Announced, 0, FALSE) /\ Link(0, FALSE, Hand, 0, FALSE)
      BY DEF Link
    <3>2. 0 \in Nat
      OBVIOUS
    <3> QED
      BY ONLY <3>1, <3>2, <2>3 DEF Chain
  <2> QED
    BY <2>1, <2>2, <2>4, <1>1, <1>11 DEF Chained
<1>13. Written
  BY <1>11 DEF Written
<1>14. ctl.failed = FALSE
  BY <1>1
<1> QED
  BY <1>2, <1>4, <1>6, <1>8, <1>9, <1>10, <1>12, <1>13, <1>14 DEF Flow

LEMMA FlowKept == Resources /\ Flow /\ [Next]_vars => Flow'
<1> SUFFICES ASSUME Resources, Flow, [Next]_vars
             PROVE  Flow'
  OBVIOUS
<1>1. CASE SetupStep \/ LoadNothing \/ LoadStream \/ LoadFrame \/ ReadFails
  BY <1>1, SetupStepFlows, LoadNothingFlows, LoadStreamFlows, LoadFrameFlows, ReadFailsFlows
<1>2. CASE SetupFails \/ LoadFails \/ HandleUnknown \/ SyncTimeout \/ WriteFails \/ Cleanup
  BY <1>2, EndFlows
<1>3. CASE HandleOutput \/ HandleMoreData \/ HandleMoreSurface \/ HandleIgnored \/ HandleTimeout
  BY <1>3, HandleOutputFlows, HandleMoreDataFlows, HandleMoreSurfaceFlows, HandleIgnoredFlows, HandleTimeoutFlows
<1>4. CASE SyncDone \/ SyncError
  BY <1>4, SyncDoneFlows, SyncErrorFlows
<1>5. CASE RtDecode \/ RtWorkLocked \/ RtTimeout \/ RtProcess \/ RtDrain \/ RtNeedsData \/ RtRefuses
  BY <1>5, RtDecodeFlows, RtWorkLockedFlows, RtTimeoutFlows, RtProcessFlows, RtDrainFlows, RtNeedsDataFlows,
     RtRefusesFlows
<1>6. CASE RtCompletes
  BY <1>6, RtCompletesFlows
<1>7. CASE UNCHANGED vars
  <2>1. /\ prog' = prog /\ ctl' = ctl /\ input' = input /\ surf' = surf /\ rt' = rt
        /\ unhandled' = unhandled /\ out' = out
    BY <1>7 DEF vars
  <2>2. P' = P /\ Stages' = Stages /\ Stage' = Stage
    BY <2>1, SameProgram
  <2>3. Component' = Component /\ NullInput' = NullInput
    BY <2>1, <2>2 DEF Component, NullInput
  <2>4. HasTask' = HasTask /\ Carries' = Carries
    BY <2>1, <2>3 DEF HasTask, Carries
  <2>5. Source' = Source /\ Fields' = Fields
    BY <2>1, <2>2 DEF Source, Fields
  <2>6. Tasks' = Tasks /\ Drains' = Drains /\ Answers' = Answers /\ FewKept' = FewKept
    BY <2>1, <2>2, <2>3, <2>4 DEF Tasks, Drains, Answers, FewKept
  <2>7. Chained' = Chained /\ Written' = Written
    <3>1. Copy!LastOut' = Copy!LastOut /\ LastRead' = LastRead
      BY <2>1, <2>2 DEF Copy!LastOut, LastRead
    <3>2. AtEnd' = AtEnd /\ InHand' = InHand /\ FirstQueue' = FirstQueue
      BY <2>1, <2>2, <2>4 DEF AtEnd, InHand, FirstQueue
    <3>3. Announced' = Announced /\ Hand' = Hand
      BY <2>1, <2>4 DEF Announced, Hand
    <3> QED
      BY <3>1, <3>2, <3>3, <2>1, <2>2 DEF Chained, Written
  <2>8. Running' = Running
    BY <2>1 DEF Running
  <2> QED
    BY <2>1, <2>5, <2>6, <2>7, <2>8 DEF Flow
<1> QED
  BY <1>1, <1>2, <1>3, <1>4, <1>5, <1>6, <1>7 DEF Next, Runs, RtAnswers

-----------------------------------------------------------------------------
(* Each step is one of FrameCopy                                           *)

LEMMA StatusOfCopy ==
    ASSUME Running, ctl.failed = FALSE
    PROVE  (IF ctl.failed THEN "failed" ELSE IF ctl.pc \in {"cleanup", "done"} THEN "ok" ELSE "running") = "running"
BY DEF Running, InLoop

\* The program goes on, and something it does not handle may have happened.
LEMMA GoingOnCopies ==
    ASSUME Running, ctl.failed = FALSE, Running', ctl'.failed = FALSE, out' = out,
           unhandled' = unhandled \/ unhandled' = TRUE
    PROVE  [Copy!Next]_(Copy!vars)
<1>1. (IF ctl'.failed THEN "failed" ELSE IF ctl'.pc \in {"cleanup", "done"} THEN "ok" ELSE "running") = "running"
  BY DEF Running, InLoop
<1>2. CASE unhandled' = unhandled
  BY <1>1, <1>2, StatusOfCopy DEF Copy!vars
<1>3. CASE unhandled' = TRUE
  BY <1>1, <1>3, StatusOfCopy DEF Copy!Next, Copy!Unhandled
<1> QED
  BY <1>2, <1>3

LEMMA FailingCopies ==
    ASSUME Shapes, Running, ctl.failed = FALSE, ctl' = Fail(ctl), out' = out, unhandled' = unhandled
    PROVE  [Copy!Next]_(Copy!vars)
<1>1. ctl'.failed = TRUE
  BY DEF Fail, CleanUp, Shapes
<1> QED
  BY <1>1, StatusOfCopy DEF Copy!Next, Copy!Fail

LEMMA FinishingCopies ==
    ASSUME Shapes, Running, ctl.failed = FALSE, ctl' = CleanUp(ctl), out' = out, unhandled' = unhandled,
           unhandled \/ Len(out) = NFrames
    PROVE  [Copy!Next]_(Copy!vars)
<1>1. ctl'.failed = FALSE /\ ctl'.pc = "cleanup"
  BY DEF CleanUp, Shapes
<1> QED
  BY <1>1, StatusOfCopy DEF Copy!Next, Copy!Finish

\* When the last component has nothing left, everything is written.
LEMMA AllWritten ==
    ASSUME Resources, Flow, ctl.pc = "answer", ctl.sts = "MORE_DATA", NullInput, ~(ctl.stage < Stages)
    PROVE  unhandled \/ Len(out) = NFrames
<1> SUFFICES ASSUME ~unhandled
             PROVE  Len(out) = NFrames
  OBVIOUS
<1>1. /\ prog \in Programs /\ Shapes
      /\ Source /\ Fields /\ Tasks /\ Drains /\ Answers /\ Chained /\ Written
  BY AtWork DEF Running, InLoop
<1>2. /\ Stages \in {1, 2} /\ Stage = 1..Stages /\ ctl.stage \in Stage /\ ctl.draining \in 0..Stages
      /\ \A k \in Stage : P.stages[k] = "decode" <=> P.reads = "stream" /\ k = 1
      /\ P.reads \in {"stream", "frames"} /\ (Stages = 2 => P.reads = "stream")
  BY <1>1, StagesOfProgram DEF Fields
<1>3. ctl.stage = Stages /\ ctl.draining = Stages
  BY <1>2 DEF NullInput
<1>4. rt.queue[Stages] = <<>> /\ (Component = "decode" => input.parsed = NFrames)
  BY <1>1, <1>3 DEF Answers
<1>5. FirstQueue = <<>> /\ LastRead = NFrames
  <2>1. CASE Stages = 1 /\ P.reads = "stream"
    BY <2>1, <1>2, <1>3, <1>4 DEF FirstQueue, LastRead, Component
  <2>2. CASE Stages = 1 /\ P.reads = "frames"
    BY <2>2, <1>1, <1>3 DEF FirstQueue, LastRead, Drains
  <2>3. CASE Stages = 2
    BY <2>3, <1>1, <1>2, <1>3 DEF FirstQueue, LastRead, Drains
  <2> QED
    BY <2>1, <2>2, <2>3, <1>2
<1>6. AtEnd = FALSE /\ InHand = FALSE /\ unhandled = FALSE
  <2>1. ~AtEnd /\ ~InHand
    BY DEF AtEnd, InHand, HasTask, Carries
  <2> QED
    BY <2>1, <1>1 DEF AtEnd, InHand, Fields
<1>7. Chain(surf.content, Copy!LastOut, FALSE, Announced, <<>>, FALSE, Hand, <<>>, NFrames, FALSE)
  BY <1>1, <1>4, <1>5, <1>6 DEF Chained
<1>8. Copy!LastOut \in Nat /\ NFrames \in Nat
  BY <1>1, QueuesTyped, StreamSizeNumber
<1>9. Copy!LastOut = NFrames
  BY <1>7, <1>8, ChainEmpty
<1> QED
  BY <1>1, <1>9 DEF Written

LEMMA StepsOfLoop ==
    ASSUME Resources, Flow,
           \/ SetupStep \/ LoadNothing \/ LoadStream \/ LoadFrame
           \/ HandleOutput \/ HandleMoreSurface \/ HandleIgnored \/ RtAnswers
    PROVE  [Copy!Next]_(Copy!vars)
<1>1. Running
  BY DEF Running, InLoop, SetupStep, LoadNothing, LoadStream, LoadFrame, HandleOutput, HandleMoreSurface,
         HandleIgnored, RtAnswers, RtDecode, RtWorkLocked, RtTimeout, RtProcess, RtDrain, RtNeedsData, RtRefuses,
         Called
<1>2. Shapes /\ ctl.failed = FALSE /\ unhandled \in BOOLEAN
  BY <1>1, AtWork DEF Fields
<1>3. ctl'.failed = FALSE /\ Running'
  <2>1. CASE SetupStep
    BY <2>1, <1>2 DEF SetupStep, Goto, Shapes, Running, InLoop
  <2>2. CASE LoadNothing \/ LoadStream
    BY <2>2, <1>2 DEF LoadNothing, LoadStream, Drain, Goto, Shapes, Running, InLoop
  <2>3. CASE LoadFrame
    BY <2>3, <1>2 DEF LoadFrame, Drain, Goto, Shapes, Running, InLoop
  <2>4. CASE HandleOutput \/ HandleMoreSurface \/ HandleIgnored
    BY <2>4, <1>2 DEF HandleOutput, HandleMoreSurface, HandleIgnored, Goto, Shapes, Running, InLoop
  <2>5. CASE RtAnswers
    <3>1. \E s : ctl' = Answer(s)
      BY <2>5 DEF RtAnswers, RtDecode, RtWorkLocked, RtTimeout, RtProcess, RtDrain, RtNeedsData, RtRefuses
    <3> QED
      BY <3>1, <1>2 DEF Answer, Shapes, Running, InLoop
  <2> QED
    BY <2>1, <2>2, <2>3, <2>4, <2>5
<1>4. out' = out
  BY DEF SetupStep, LoadNothing, LoadStream, LoadFrame, HandleOutput, HandleMoreSurface,
         HandleIgnored, RtAnswers, RtDecode, RtWorkLocked, RtTimeout, RtProcess, RtDrain, RtNeedsData, RtRefuses
<1>5. unhandled' = unhandled \/ unhandled' = TRUE
  <2>1. CASE LoadStream
    BY <2>1, <1>2 DEF LoadStream
  <2>2. CASE RtTimeout
    BY <2>2, <1>2 DEF RtTimeout
  <2>3. CASE RtRefuses
    BY <2>3, <1>2 DEF RtRefuses
  <2>4. CASE ~(LoadStream \/ RtTimeout \/ RtRefuses)
    BY <2>4 DEF SetupStep, LoadNothing, LoadFrame, HandleOutput, HandleMoreSurface,
         HandleIgnored, RtAnswers, RtDecode, RtWorkLocked, RtProcess, RtDrain, RtNeedsData
  <2> QED
    BY <2>1, <2>2, <2>3, <2>4
<1> QED
  BY <1>1, <1>2, <1>3, <1>4, <1>5, GoingOnCopies

\* FrameCopy takes a step or stutters when the program takes one.
LEMMA StepCopies == Resources /\ Flow /\ [Next]_vars => [Copy!Next]_(Copy!vars)
<1> SUFFICES ASSUME Resources, Flow, [Next]_vars
             PROVE  [Copy!Next]_(Copy!vars)
  OBVIOUS
<1>1. CASE SetupStep \/ LoadNothing \/ LoadStream \/ LoadFrame \/ HandleOutput \/ HandleMoreSurface
           \/ HandleIgnored \/ RtAnswers
  BY <1>1, StepsOfLoop
<1>2. CASE SetupFails \/ LoadFails \/ SyncTimeout \/ WriteFails
  <2>1. Running /\ ctl' = Fail(ctl) /\ out' = out /\ unhandled' = unhandled
    BY <1>2 DEF SetupFails, LoadFails, SyncTimeout, WriteFails, Running, InLoop
  <2> QED
    BY <2>1, AtWork, FailingCopies
<1>3. CASE ReadFails
  <2>1. Running /\ out' = out
    BY <1>3 DEF ReadFails, Running, InLoop
  <2>2. Shapes /\ ctl.failed = FALSE /\ unhandled \in BOOLEAN
    BY <2>1, AtWork DEF Fields
  <2>3. CASE prog = "hello_vpp"
    <3>1. ctl' = Fail(ctl) /\ unhandled' = unhandled
      BY <1>3, <2>2, <2>3 DEF ReadFails
    <3> QED
      BY <2>1, <2>2, <3>1, FailingCopies
  <2>4. CASE prog # "hello_vpp"
    <3>1. ctl' = Drain(Goto(ctl, "call")) /\ unhandled' = TRUE
      BY <1>3, <2>2, <2>4 DEF ReadFails
    <3>2. ctl'.failed = FALSE /\ Running'
      BY <2>2, <3>1 DEF Drain, Goto, Shapes, Running, InLoop
    <3> QED
      BY <2>1, <2>2, <3>1, <3>2, GoingOnCopies
  <2> QED
    BY <2>3, <2>4
<1>4. CASE HandleMoreData
  <2>1. Running /\ out' = out /\ unhandled' = unhandled /\ ctl.pc = "answer" /\ ctl.sts = "MORE_DATA"
    BY <1>4 DEF HandleMoreData, Running, InLoop
  <2>2. Shapes /\ ctl.failed = FALSE
    BY <2>1, AtWork
  <2>3. CASE ~NullInput \/ ctl.stage < Stages
    <3>1. ctl'.failed = FALSE /\ Running'
      BY <1>4, <2>2, <2>3 DEF HandleMoreData, Goto, Shapes, Running, InLoop, Stages
    <3> QED
      BY <2>1, <2>2, <3>1, GoingOnCopies
  <2>4. CASE NullInput /\ ~(ctl.stage < Stages)
    <3>1. ctl' = CleanUp(ctl)
      BY <1>4, <2>4 DEF HandleMoreData, Stages
    <3>2. unhandled \/ Len(out) = NFrames
      BY <2>1, <2>4, AllWritten
    <3> QED
      BY <2>1, <2>2, <3>1, <3>2, FinishingCopies
  <2> QED
    BY <2>3, <2>4
<1>5. CASE HandleTimeout
  <2>1. Running /\ out' = out /\ unhandled' = unhandled /\ ctl.pc = "answer" /\ ctl.sts = "ALLOC_TIMEOUT_EXPIRED"
    BY <1>5 DEF HandleTimeout, Running, InLoop
  <2>2. Shapes /\ ctl.failed = FALSE /\ Answers
    BY <2>1, AtWork
  <2>3. CASE prog = "hello_transcode" /\ ctl.timeouts <= MaxTimeouts
    <3>1. ctl'.failed = FALSE /\ Running'
      BY <1>5, <2>2, <2>3 DEF HandleTimeout, Goto, Shapes, Running, InLoop
    <3> QED
      BY <2>1, <2>2, <3>1, GoingOnCopies
  <2>4. CASE ~(prog = "hello_transcode" /\ ctl.timeouts <= MaxTimeouts)
    <3>1. ctl' = CleanUp(ctl)
      BY <1>5, <2>4 DEF HandleTimeout
    <3>2. unhandled
      BY <2>1, <2>2, <2>4 DEF Answers
    <3> QED
      BY <2>1, <2>2, <3>1, <3>2, FinishingCopies
  <2> QED
    BY <2>3, <2>4
<1>6. CASE HandleUnknown
  <2>1. /\ Running /\ out' = out /\ unhandled' = unhandled /\ ctl' = CleanUp(ctl) /\ ctl.pc = "answer"
        /\ ctl.sts \in Refusal /\ ctl.sts \notin P.goesOn
    BY <1>6 DEF HandleUnknown, Running, InLoop
  <2>2. Shapes /\ ctl.failed = FALSE /\ Answers
    BY <2>1, AtWork
  <2>3. unhandled
    BY <2>1, <2>2, RefusalIs DEF Answers
  <2> QED
    BY <2>1, <2>2, <2>3, FinishingCopies
<1>7. CASE SyncDone
  <2>1. /\ Running /\ out' = Append(out, rt.task.frame) /\ unhandled' = unhandled
        /\ ctl' = Goto(ctl, "load")
    BY <1>7 DEF SyncDone, Running, InLoop
  <2>2. Shapes /\ ctl.failed = FALSE /\ prog \in Programs /\ Source /\ Fields
    BY <2>1, AtWork
  <2>3. ctl'.failed = FALSE /\ ctl'.pc = "load"
    BY <2>1, <2>2 DEF Goto, Shapes
  <2>4. Follower(Copy!LastOut, rt.task.frame, unhandled) /\ rt.task.frame \in 1..NFrames
    BY <1>7, SyncDoneFlows
  <2>5. Copy!LastOut \in Nat /\ NFrames \in Nat
    BY <2>2, QueuesTyped, StreamSizeNumber
  <2>6. /\ rt.task.frame \in Copy!LastOut + 1 .. NFrames
        /\ ~unhandled => rt.task.frame = Copy!LastOut + 1
    BY <2>4, <2>5 DEF Follower
  <2> QED
    BY <2>1, <2>2, <2>3, <2>6, StatusOfCopy DEF Copy!Next, Copy!Write
<1>8. CASE SyncError
  <2>1. Running /\ out' = out
    BY <1>8 DEF SyncError, Running, InLoop
  <2>2. Shapes /\ ctl.failed = FALSE
    BY <2>1, AtWork
  <2>3. CASE P.waits = "drop"
    <3>1. ctl' = Goto(ctl, "load") /\ unhandled' = TRUE
      BY <1>8, <2>3 DEF SyncError
    <3>2. ctl'.failed = FALSE /\ Running'
      BY <2>2, <3>1 DEF Goto, Shapes, Running, InLoop
    <3> QED
      BY <2>1, <2>2, <3>1, <3>2, GoingOnCopies
  <2>4. CASE P.waits # "drop"
    <3>1. ctl' = Fail(ctl) /\ unhandled' = unhandled
      BY <1>8, <2>4 DEF SyncError
    <3> QED
      BY <2>1, <2>2, <3>1, FailingCopies
  <2> QED
    BY <2>3, <2>4
<1>9. CASE Cleanup
  <2>1. Shapes
    BY DEF Resources
  <2>2. out' = out /\ unhandled' = unhandled /\ ctl.pc = "cleanup"
    BY <1>9 DEF Cleanup
  <2>3. ctl'.failed = ctl.failed /\ ctl'.pc \in {"cleanup", "done"}
    BY <1>9, <2>1 DEF Cleanup, Goto, Shapes
  <2> QED
    BY <2>2, <2>3 DEF Copy!vars
<1>10. CASE RtCompletes \/ UNCHANGED vars
  BY <1>10 DEF RtCompletes, vars, Copy!vars
<1> QED
  BY <1>1, <1>2, <1>3, <1>4, <1>5, <1>6, <1>7, <1>8, <1>9, <1>10 DEF Next, Runs

\* A program writes the frames of its input in order and each once, and ends
\* without an error only when all of them are written or the runtime has
\* answered something that it does not handle: the loops of the examples
\* implement FrameCopy, for any number of frames and of surfaces, any frames in an
\* encoded stream and any delay of the components.
THEOREM FramesInOrder == Spec => Copy!Init /\ [][Copy!Next]_(Copy!vars)
<1>1. Init => Resources /\ Flow /\ Copy!Init
  <2> SUFFICES ASSUME Init
               PROVE  Resources /\ Flow /\ Copy!Init
    OBVIOUS
  <2>1. Resources /\ Flow
    BY InitFlows
  <2>2. Copy!Init
    BY DEF Init, Copy!Init
  <2> QED
    BY <2>1, <2>2
<1>2. Resources /\ Flow /\ [Next]_vars => (Resources /\ Flow)'
  BY ResourcesKept, FlowKept
<1> QED
  BY <1>1, <1>2, StepCopies, PTL DEF Spec

-----------------------------------------------------------------------------
(* The programs by their names                                             *)

\* What the use of surfaces has to do with the program's name and its stages.
NamedRow(p, row) ==
    /\ p = "legacy_decode" <=> row.surfaces = "pool" /\ row.reads = "stream"
    /\ p = "legacy_vpp" <=> row.surfaces = "pool" /\ row.stages = <<"vpp">>
    /\ p = "hello_vpp" <=> row.surfaces # "pool" /\ row.stages = <<"vpp">>
    /\ p = "hello_vpp" => row.surfaces = "internal"
    /\ p = "sharing_vaapi_import" <=> row.reads = "frames" /\ row.release # "submit"
    /\ row.release \in {"sync", "submit"}
    /\ row.reads = "stream" => (row.release = "submit" <=> Len(row.stages) = 2)
    /\ row.surfaces = "pool" => Len(row.stages) = 1
    /\ Len(row.setup) <= 12 /\ Len(row.cleanup) <= 12

LEMMA DecodersNamed ==
    /\ NamedRow("hello_decode", HelloDecode) /\ NamedRow("hello_decvpp", HelloDecVPP)
    /\ NamedRow("legacy_decode", LegacyDecode) /\ NamedRow("sharing_vaapi_export", SharingVAAPIExport)
    /\ NamedRow("sharing_dx11_export", SharingDX11Export) /\ NamedRow("sharing_ocl_export", SharingOCLExport)
    /\ NamedRow("hello_transcode", HelloTranscode)
<1>1. NamedRow("hello_decode", HelloDecode)
  BY DEF NamedRow, HelloDecode
<1>2. NamedRow("hello_decvpp", HelloDecVPP)
  BY DEF NamedRow, HelloDecode, HelloDecVPP
<1>3. NamedRow("legacy_decode", LegacyDecode)
  BY DEF NamedRow, HelloDecode, LegacyDecode
<1>4. NamedRow("sharing_vaapi_export", SharingVAAPIExport) /\ NamedRow("sharing_dx11_export", SharingDX11Export)
  BY DEF NamedRow, HelloDecode, SharingVAAPIExport, SharingDX11Export
<1>5. NamedRow("sharing_ocl_export", SharingOCLExport)
  BY DEF NamedRow, HelloDecode, SharingVAAPIExport, SharingOCLExport
<1>6. NamedRow("hello_transcode", HelloTranscode)
  BY DEF NamedRow, HelloDecode, HelloTranscode
<1> QED
  BY <1>1, <1>2, <1>3, <1>4, <1>5, <1>6

LEMMA EncodersNamed ==
    /\ NamedRow("hello_encode", HelloEncode) /\ NamedRow("hello_encode_jpeg", HelloEncodeJPEG)
    /\ NamedRow("legacy_encode", LegacyEncode) /\ NamedRow("sharing_vaapi_import", SharingVAAPIImport)
    /\ NamedRow("sharing_dx11_import", SharingDX11Import) /\ NamedRow("sharing_ocl_import", SharingOCLImport)
    /\ NamedRow("hello_vpp", HelloVPP) /\ NamedRow("legacy_vpp", LegacyVPP)
<1>1. NamedRow("hello_encode", HelloEncode) /\ NamedRow("hello_encode_jpeg", HelloEncodeJPEG)
  BY DEF NamedRow, HelloEncode, HelloEncodeJPEG
<1>2. NamedRow("legacy_encode", LegacyEncode)
  BY DEF NamedRow, HelloEncode, LegacyEncode
<1>3. NamedRow("sharing_dx11_import", SharingDX11Import)
  BY DEF NamedRow, HelloEncode, SharingDX11Import
<1>4. NamedRow("sharing_ocl_import", SharingOCLImport)
  BY DEF NamedRow, HelloEncode, SharingDX11Import, SharingOCLImport
<1>5. NamedRow("sharing_vaapi_import", SharingVAAPIImport)
  BY DEF NamedRow, HelloEncode, SharingDX11Import, SharingVAAPIImport
<1>6. NamedRow("hello_vpp", HelloVPP)
  BY DEF NamedRow, HelloEncode, HelloVPP
<1>7. NamedRow("legacy_vpp", LegacyVPP)
  BY DEF NamedRow, HelloEncode, HelloVPP, LegacyVPP
<1> QED
  BY <1>1, <1>2, <1>3, <1>4, <1>5, <1>6, <1>7

LEMMA Named ==
    ASSUME NEW p \in Programs
    PROVE  NamedRow(p, Program[p])
<1>1. p \in DOMAIN Program
  BY ProgramsAssumption
<1> DEFINE Row(n, row) == p = n /\ Program[p] = row
<1>2. \/ Row("hello_decode", HelloDecode) \/ Row("hello_decvpp", HelloDecVPP)
      \/ Row("legacy_decode", LegacyDecode) \/ Row("sharing_vaapi_export", SharingVAAPIExport)
      \/ Row("sharing_dx11_export", SharingDX11Export) \/ Row("sharing_ocl_export", SharingOCLExport)
      \/ Row("hello_transcode", HelloTranscode)
      \/ Row("hello_encode", HelloEncode) \/ Row("hello_encode_jpeg", HelloEncodeJPEG)
      \/ Row("legacy_encode", LegacyEncode) \/ Row("sharing_vaapi_import", SharingVAAPIImport)
      \/ Row("sharing_dx11_import", SharingDX11Import) \/ Row("sharing_ocl_import", SharingOCLImport)
      \/ Row("hello_vpp", HelloVPP) \/ Row("legacy_vpp", LegacyVPP)
  BY <1>1 DEF Program
<1> QED
  BY <1>2, DecodersNamed, EncodersNamed

\* What follows for the program that runs.
LEMMA NamedProgram ==
    ASSUME prog \in Programs
    PROVE  /\ prog = "legacy_decode" <=> P.surfaces = "pool" /\ P.reads = "stream"
           /\ prog = "legacy_vpp" <=> P.surfaces = "pool" /\ P.stages[1] = "vpp"
           /\ prog = "hello_vpp" <=> P.surfaces # "pool" /\ P.stages[1] = "vpp"
           /\ prog = "hello_vpp" => P.surfaces = "internal"
           /\ prog = "sharing_vaapi_import" <=> P.reads = "frames" /\ P.release # "submit"
           /\ P.release \in {"sync", "submit"}
           /\ P.reads = "stream" => (P.release = "submit" <=> Stages = 2)
           /\ P.surfaces = "pool" => Stages = 1
           /\ Len(P.setup) <= 12 /\ Len(P.cleanup) <= 12
<1>1. Kind(P) /\ NamedRow(prog, P)
  BY Kinds, Named DEF P
<1> HIDE DEF P
<1>2. P.stages[1] = "vpp" <=> P.stages = <<"vpp">>
  <2>1. P.stages \in {<<"decode">>, <<"decode", "encode">>, <<"encode">>, <<"vpp">>}
    BY <1>1 DEF Kind
  <2> QED
    BY ONLY <2>1
<1> QED
  BY <1>1, <1>2 DEF NamedRow, Stages

-----------------------------------------------------------------------------
(* Types                                                                   *)

Place == {"setup", "load", "call", "answer", "sync", "cleanup", "done"}
Status == {"NONE", "MORE_DATA", "ALLOC_TIMEOUT_EXPIRED"} \cup Refusal
Control ==
    [pc : Place, step : 1..12, stage : Stage, draining : 0..2, failed : BOOLEAN,
     timeouts : 0..MaxTimeouts + 1, sts : Status]

\* the bitstream is within its buffer
InputTyped ==
    /\ input.file \in Nat /\ input.parsed \in 0..NFrames
    /\ input.bs.offset \in Nat /\ input.bs.length \in 0..BufferSize
    /\ input.bs.offset + input.bs.length <= BufferSize

SurfacesTyped ==
    /\ DOMAIN surf = {"app", "content", "given", "work"}
    /\ surf.app \subseteq Slot /\ surf.content \in [Slot -> 0..NFrames]
    /\ surf.given \in Slot \cup {None} /\ surf.work \in Slot \cup {None}

Task == [from : Slot, to : Slot \cup {None}, frame : 0..NFrames, done : BOOLEAN]
RuntimeTyped ==
    /\ rt.queue \in [Stage -> Seq(Slot)] /\ rt.ref \in [Stage -> SUBSET Slot]
    /\ rt.task = None \/ rt.task \in Task
    /\ rt.busy \in 0..MaxBusy /\ rt.refuses \in Refusal \cup {None}

ResultTyped == unhandled \in BOOLEAN /\ out \in Seq(Frame)

Typed == ctl \in Control /\ InputTyped /\ SurfacesTyped /\ RuntimeTyped /\ ResultTyped

\* What is held are things that the set up makes.
LEMMA TypedSuffices ==
    ASSUME Resources, Typed
    PROVE  TypeOK
<1>1. prog \in Programs /\ prog \in DOMAIN Program
  BY ProgramsAssumption DEF Resources
<1>2. held \subseteq Step
  <2>1. PICK m, n : m \in 0..Len(P.setup) /\ held = Up(m) \ Down(n)
    BY DEF Resources, ResourcesAt
  <2>2. Len(P.setup) \in Nat /\ DOMAIN P.setup = 1..Len(P.setup)
    BY <1>1, RowLengths DEF P
  <2>3. Up(m) \subseteq ToSet(P.setup)
    BY <2>1, <2>2 DEF Up, ToSet
  <2>4. ToSet(P.setup) \subseteq Step
    BY <1>1 DEF Step, P
  <2> QED
    BY <2>1, <2>3, <2>4
<1>3. input.bs.offset \in 0..BufferSize
  BY StreamSizeNumber DEF Typed, InputTyped
<1> QED
  BY <1>1, <1>2, <1>3
     DEF TypeOK, Typed, Control, Place, Status, InputTyped, SurfacesTyped, RuntimeTyped, Task, ResultTyped

LEMMA ProgramStays == [Next]_vars => prog' = prog
<1> SUFFICES ASSUME [Next]_vars PROVE prog' = prog
  OBVIOUS
<1>1. CASE UNCHANGED vars
  BY <1>1 DEF vars
<1>2. CASE RtAnswers \/ RtCompletes
  BY <1>2 DEF RtAnswers, RtDecode, RtWorkLocked, RtTimeout, RtProcess, RtDrain, RtNeedsData, RtRefuses, RtCompletes
<1>3. CASE SetupStep \/ SetupFails \/ LoadNothing \/ LoadStream \/ LoadFrame \/ LoadFails \/ ReadFails
  BY <1>3 DEF SetupStep, SetupFails, LoadNothing, LoadStream, LoadFrame, LoadFails, ReadFails
<1>4. CASE HandleOutput \/ HandleMoreData \/ HandleMoreSurface \/ HandleIgnored \/ HandleTimeout \/ HandleUnknown
  BY <1>4 DEF HandleOutput, HandleMoreData, HandleMoreSurface, HandleIgnored, HandleTimeout, HandleUnknown
<1>5. CASE SyncDone \/ SyncError \/ SyncTimeout \/ WriteFails \/ Cleanup
  BY <1>5 DEF SyncDone, SyncError, SyncTimeout, WriteFails, Cleanup
<1> QED
  BY <1>1, <1>2, <1>3, <1>4, <1>5 DEF Next, Runs

LEMMA ControlMoves ==
    ASSUME NEW c \in Control, prog \in Programs
    PROVE  /\ \A pc \in Place : Goto(c, pc) \in Control /\ Goto(c, pc).stage = c.stage
           /\ CleanUp(c) \in Control /\ Fail(c) \in Control /\ Drain(c) \in Control
<1>1. \A pc \in Place : Goto(c, pc) \in Control /\ Goto(c, pc).stage = c.stage
  BY DEF Control, Goto
<1>2. CleanUp(c) \in Control
  <2>1. "cleanup" \in Place /\ 1 \in 1..12
    BY DEF Place
  <2>2. [c EXCEPT !.pc = "cleanup"] \in Control
    BY <2>1 DEF Control
  <2>3. CleanUp(c) = [[c EXCEPT !.pc = "cleanup"] EXCEPT !.step = 1]
    BY DEF CleanUp, Control
  <2> QED
    BY <2>1, <2>2, <2>3 DEF Control
<1>3. Fail(c) \in Control
  BY <1>2 DEF Control, Fail, Place
<1>4. Drain(c) \in Control
  BY DEF Control, Drain
<1> QED
  BY <1>1, <1>2, <1>3, <1>4

LEMMA StageMoves ==
    ASSUME NEW c \in Control, NEW s \in Stage, NEW t \in 0..MaxTimeouts + 1, NEW d \in 0..2
    PROVE  /\ [c EXCEPT !.stage = s, !.timeouts = t] \in Control
           /\ [c EXCEPT !.stage = s, !.draining = d] \in Control
           /\ [c EXCEPT !.stage = s] \in Control /\ [c EXCEPT !.timeouts = t] \in Control
<1>1. [c EXCEPT !.stage = s] \in Control /\ [c EXCEPT !.timeouts = t] \in Control
  BY DEF Control
<1>2. /\ [c EXCEPT !.stage = s, !.timeouts = t] = [[c EXCEPT !.stage = s] EXCEPT !.timeouts = t]
      /\ [c EXCEPT !.stage = s, !.draining = d] = [[c EXCEPT !.stage = s] EXCEPT !.draining = d]
  BY DEF Control
<1> QED
  BY <1>1, <1>2 DEF Control

\* a step within a row of at most twelve
LEMMA NextStep ==
    ASSUME NEW m \in Nat, NEW step \in Nat, m = step - 1, NEW n \in Nat, m < n, n <= 12, step # n
    PROVE  step + 1 \in 1..12
OBVIOUS

LEMMA ControlTyped ==
    ASSUME Resources, Flow, ctl \in Control, [Next]_vars
    PROVE  ctl' \in Control'
<1>1. prog \in Programs /\ Stages \in {1, 2} /\ Stage = 1..Stages
  BY StagesOfProgram DEF Resources
<1>2. Control' = Control
  BY ProgramStays, SameProgram DEF Control
<1>3. /\ \A pc \in Place : Goto(ctl, pc) \in Control /\ Goto(ctl, pc).stage = ctl.stage
      /\ CleanUp(ctl) \in Control /\ Fail(ctl) \in Control
  BY <1>1, ControlMoves
<1>4. \A pc \in Place : Drain(Goto(ctl, pc)) \in Control
  BY <1>1, <1>3, ControlMoves
<1>5. MaxTimeouts \in Nat
  BY ExamplesAssumption
<1>6. CASE SetupStep
  <2>1. CASE ctl.step = Len(P.setup)
    BY <2>1, <1>2, <1>3, <1>6 DEF SetupStep, Place
  <2>2. CASE ctl.step # Len(P.setup)
    <3>1. ctl' = [ctl EXCEPT !.step = @ + 1]
      BY <2>2, <1>6 DEF SetupStep
    <3>2. ctl.step \in Nat /\ ctl.step + 1 \in 1..12
      <4>1. PICK m, n : ResourcesAt(m, n)
        BY DEF Resources
      <4>2. Len(P.setup) \in Nat /\ Len(P.setup) <= 12
        BY <1>1, NamedProgram, Lengths
      <4>3. m = ctl.step - 1 /\ m < Len(P.setup) /\ ctl.step \in Nat /\ m \in Nat
        BY <4>1, <4>2, <1>6 DEF ResourcesAt, SetupStep
      <4> QED
        BY <4>2, <4>3, <2>2, NextStep
    <3> QED
      BY <3>1, <3>2, <1>2 DEF Control
  <2> QED
    BY <2>1, <2>2
<1>7. CASE SetupFails \/ LoadFails \/ SyncTimeout \/ WriteFails
  BY <1>7, <1>2, <1>3 DEF SetupFails, LoadFails, SyncTimeout, WriteFails
<1>8. CASE LoadNothing
  <2>1. ctl.draining \in 0..Stages /\ ctl.draining > 0
    BY <1>8, AtWork DEF LoadNothing, IsDraining, Running, InLoop, Fields
  <2>2. ctl' = [Goto(ctl, "call") EXCEPT !.stage = ctl.draining, !.timeouts = 0]
    BY <1>8 DEF LoadNothing
  <2>3. ctl.draining \in Stage /\ 0 \in 0..MaxTimeouts + 1 /\ 0 \in 0..2 /\ "call" \in Place
    BY <2>1, <1>1, <1>5 DEF Place
  <2> QED
    BY <2>2, <2>3, <1>2, <1>3, StageMoves
<1>9. CASE LoadStream
  <2> DEFINE c == [Goto(ctl, "call") EXCEPT !.stage = 1, !.timeouts = 0]
  <2>1. c \in Control
    <3>1. 1 \in Stage /\ 0 \in 0..MaxTimeouts + 1 /\ 0 \in 0..2 /\ "call" \in Place
      BY <1>1, <1>5 DEF Place
    <3> QED
      BY <3>1, <1>3, StageMoves
  <2>2. ctl' = c \/ ctl' = Drain(c)
    BY <1>9 DEF LoadStream
  <2> HIDE DEF c
  <2> QED
    BY <2>1, <2>2, <1>1, <1>2, ControlMoves
<1>10. CASE LoadFrame \/ ReadFails
  BY <1>10, <1>2, <1>3, <1>4 DEF LoadFrame, ReadFails, Place
<1>11. CASE RtAnswers
  <2>1. \E s \in Status : ctl' = Answer(s)
    <3>1. CASE RtDecode
      BY <3>1, RefusalIs DEF RtDecode, Status
    <3>2. CASE RtWorkLocked \/ RtTimeout \/ RtNeedsData
      BY <3>2, RefusalIs DEF RtWorkLocked, RtTimeout, RtNeedsData, Status
    <3>3. CASE RtProcess \/ RtDrain
      BY <3>3 DEF RtProcess, RtDrain, Status
    <3>4. CASE RtRefuses
      <4>1. Fields
        BY <3>4, AtWork DEF RtRefuses, Running, InLoop
      <4>2. PICK s \in MayRefuse[Component] : ctl' = Answer(s)
        BY <3>4 DEF RtRefuses
      <4>3. s \in Refusal
        BY <4>1, <4>2, <1>1, ComponentIs DEF Refusal
      <4> QED
        BY <4>2, <4>3 DEF Status
    <3> QED
      BY <3>1, <3>2, <3>3, <3>4, <1>11 DEF RtAnswers
  <2> QED
    BY <2>1, <1>2 DEF Control, Answer, Place
<1>12. CASE HandleOutput
  <2>1. CASE ctl.stage < Len(P.stages)
    <3>1. ctl' = [Goto(ctl, "call") EXCEPT !.stage = @ + 1]
      BY <1>12, <2>1 DEF HandleOutput
    <3>2. ctl.stage + 1 \in Stage
      BY <2>1, <1>1 DEF Control, Stages
    <3> QED
      BY <3>1, <3>2, <1>2, <1>3 DEF Control, Place
  <2>2. CASE ~(ctl.stage < Len(P.stages))
    BY <2>2, <1>12, <1>2, <1>3 DEF HandleOutput, Place
  <2> QED
    BY <2>1, <2>2
<1>13. CASE HandleMoreData
  <2>1. CASE NullInput /\ ctl.stage < Len(P.stages)
    <3>1. ctl' = [Goto(ctl, "call") EXCEPT !.stage = @ + 1, !.draining = ctl.stage + 1]
      BY <1>13, <2>1 DEF HandleMoreData
    <3>2. ctl.stage + 1 \in Stage /\ ctl.stage + 1 \in 0..2
      <4>1. ctl.stage + 1 \in Stage
        BY <2>1, <1>1 DEF Control, Stages
      <4> QED
        BY <4>1, <1>1
    <3> QED
      BY <3>1, <3>2, <1>2, <1>3 DEF Control, Place
  <2>2. CASE ~(NullInput /\ ctl.stage < Len(P.stages))
    <3>1. ctl' = Goto(ctl, "load") \/ ctl' = CleanUp(ctl)
      BY <2>2, <1>13 DEF HandleMoreData
    <3> QED
      BY <3>1, <1>2, <1>3 DEF Place
  <2> QED
    BY <2>1, <2>2
<1>14. CASE HandleMoreSurface \/ HandleIgnored \/ HandleUnknown
  BY <1>14, <1>2, <1>3 DEF HandleMoreSurface, HandleIgnored, HandleUnknown, Place
<1>15. CASE HandleTimeout
  <2>1. CASE prog = "hello_transcode" /\ ctl.timeouts <= MaxTimeouts
    <3>1. ctl' = [Goto(ctl, "call") EXCEPT !.timeouts = @ + 1]
      BY <1>15, <2>1 DEF HandleTimeout
    <3>2. ctl.timeouts + 1 \in 0..MaxTimeouts + 1
      BY <2>1, <1>5 DEF Control
    <3>3. Goto(ctl, "call").timeouts = ctl.timeouts
      BY DEF Control, Goto
    <3> QED
      BY <3>1, <3>2, <3>3, <1>2, <1>3 DEF Control, Place
  <2>2. CASE ~(prog = "hello_transcode" /\ ctl.timeouts <= MaxTimeouts)
    BY <2>2, <1>15, <1>2, <1>3 DEF HandleTimeout
  <2> QED
    BY <2>1, <2>2
<1>16. CASE SyncDone \/ SyncError
  <2>1. ctl' = Goto(ctl, "load") \/ ctl' = Fail(ctl)
    BY <1>16 DEF SyncDone, SyncError
  <2> QED
    BY <2>1, <1>2, <1>3 DEF Place
<1>17. CASE Cleanup
  <2>1. CASE ctl.step = Len(P.cleanup)
    BY <2>1, <1>2, <1>3, <1>17 DEF Cleanup, Place
  <2>2. CASE ctl.step # Len(P.cleanup)
    <3>1. ctl' = [ctl EXCEPT !.step = @ + 1]
      BY <2>2, <1>17 DEF Cleanup
    <3>2. ctl.step \in Nat /\ ctl.step + 1 \in 1..12
      <4>1. PICK m, n : ResourcesAt(m, n)
        BY DEF Resources
      <4>2. Len(P.cleanup) \in Nat /\ Len(P.cleanup) <= 12
        BY <1>1, NamedProgram, Lengths
      <4>3. n = ctl.step - 1 /\ n < Len(P.cleanup) /\ ctl.step \in Nat /\ n \in Nat
        BY <4>1, <4>2, <1>17 DEF ResourcesAt, Cleanup
      <4> QED
        BY <4>2, <4>3, <2>2, NextStep
    <3> QED
      BY <3>1, <3>2, <1>2 DEF Control
  <2> QED
    BY <2>1, <2>2
<1>18. CASE RtCompletes \/ UNCHANGED vars
  BY <1>18, <1>2 DEF RtCompletes, vars
<1> QED
  BY <1>6, <1>7, <1>8, <1>9, <1>10, <1>11, <1>12, <1>13, <1>14, <1>15, <1>16, <1>17, <1>18 DEF Next, Runs

\* Reading leaves the bitstream within its buffer, and so does the decoder, which
\* takes from its front.
LEMMA ReadTyped ==
    ASSUME prog \in Programs, Source, P.reads = "stream", InputTyped, prog' = prog,
           input' = ReadEncodedStream(input).input
    PROVE  InputTyped'
<1>1. /\ input'.parsed = input.parsed /\ input'.file \in 0..StreamSize /\ input'.bs.length \in 0..BufferSize
      /\ StreamSize \in Nat /\ BufferSize \in Nat
  BY ReadsStream, StreamSizeNumber
<1>2. DOMAIN input = {"file", "parsed", "bs"}
  BY DEF Source
<1>3. input'.bs = input.bs \/ input'.bs.offset = 0
  BY <1>2 DEF ReadEncodedStream
<1> QED
  BY <1>1, <1>3 DEF InputTyped

LEMMA ConsumedTyped ==
    ASSUME Source, InputTyped, NEW n \in 0..input.bs.length, input'.bs = Consume(n).bs,
           input'.file = input.file, input'.parsed \in 0..NFrames
    PROVE  InputTyped'
<1>1. /\ DOMAIN input = {"file", "parsed", "bs"} /\ DOMAIN input.bs = {"offset", "length"}
  BY DEF Source
<1>2. input'.bs.offset = input.bs.offset + n /\ input'.bs.length = input.bs.length - n
  BY <1>1 DEF Consume
<1> QED
  BY <1>2, StreamSizeNumber DEF InputTyped

LEMMA InputIsTyped ==
    ASSUME Resources, Flow, InputTyped, [Next]_vars
    PROVE  InputTyped'
<1>1. prog \in Programs /\ prog' = prog
  BY ProgramStays DEF Resources
<1>2. CASE input' = input
  BY <1>2 DEF InputTyped
<1>3. CASE SetupStep
  <2>1. Source
    BY <1>3, AtWork DEF SetupStep, Running
  <2>2. input' = input \/ (P.setup[ctl.step] = "header" /\ input' = ReadEncodedStream(input).input)
    BY <1>3 DEF SetupStep
  <2>3. ctl.step \in DOMAIN P.setup
    BY <1>1, <1>3, RowLengths DEF Resources, ResourcesAt, P, SetupStep
  <2>4. input' = input \/ (P.reads = "stream" /\ input' = ReadEncodedStream(input).input)
    BY <1>1, <2>2, <2>3, StagesOfProgram
  <2> QED
    BY <1>1, <1>2, <2>1, <2>4, ReadTyped
<1>4. CASE LoadStream
  <2>1. Source
    BY <1>4, AtWork DEF LoadStream, Running, InLoop
  <2> QED
    BY <1>1, <1>4, <2>1, ReadTyped DEF LoadStream
<1>5. CASE LoadFrame
  <2>1. Source
    BY <1>5, AtWork DEF LoadFrame, Running, InLoop
  <2>2. input' = input \/ input' = [input EXCEPT !.file = @ + 1]
    BY <1>5 DEF LoadFrame, ReadRawFrame
  <2>3. input'.bs = input.bs /\ input'.parsed = input.parsed /\ input'.file \in Nat
    BY <2>1, <2>2 DEF Source, InputTyped
  <2> QED
    BY <2>3 DEF InputTyped
<1>6. CASE RtDecode
  <2>1. Source
    BY <1>6, AtWork DEF RtDecode, Called, Running, InLoop
  <2>2. PICK n \in 0..(IF NullInput THEN 0 ELSE input.bs.length) : input' = [Consume(n) EXCEPT !.parsed = @ + 1]
    BY <1>6 DEF RtDecode
  <2>3. n \in 0..input.bs.length /\ input.bs.length \in Nat
    BY <2>1, <2>2, StreamSizeNumber DEF Source
  <2>4. /\ input'.bs = Consume(n).bs /\ input'.file = input.file /\ input'.parsed = input.parsed + 1
    BY <2>1, <2>2 DEF Consume, Source
  <2>5. input.parsed + 1 \in 0..NFrames
    <3>1. input.parsed \in 0..NFrames /\ NFrames \in Nat
      BY <2>1, StreamSizeNumber DEF Source
    <3>2. input.parsed < NFrames
      BY <1>6 DEF RtDecode, CanDecode
    <3> QED
      BY <3>1, <3>2
  <2> QED
    BY <2>1, <2>3, <2>4, <2>5, ConsumedTyped
<1>7. CASE RtNeedsData
  <2>1. Source /\ Drains
    BY <1>7, AtWork DEF RtNeedsData, Called, Running, InLoop
  <2>2. input.bs.length > 0 /\ input.bs.length \in Nat
    BY <2>1, <1>7, StreamSizeNumber DEF RtNeedsData, Called, Drains, Source
  <2>3. PICK n \in {input.bs.length, input.bs.length - 1} : input' = Consume(n)
    BY <1>7 DEF RtNeedsData
  <2>4. n \in 0..input.bs.length
    BY <2>2, <2>3
  <2>5. input'.file = input.file /\ input'.parsed = input.parsed
    BY <2>1, <2>3 DEF Consume, Source
  <2>6. input'.parsed \in 0..NFrames
    BY <2>1, <2>5 DEF Source
  <2> QED
    BY <2>1, <2>3, <2>4, <2>5, <2>6, ConsumedTyped
<1>8. CASE UNCHANGED vars \/ RtCompletes \/ RtWorkLocked \/ RtTimeout \/ RtProcess \/ RtDrain \/ RtRefuses
  BY <1>2, <1>8 DEF vars, RtCompletes, RtWorkLocked, RtTimeout, RtProcess, RtDrain, RtRefuses
<1>9. CASE SetupFails \/ LoadNothing \/ LoadFails \/ ReadFails
  BY <1>2, <1>9 DEF SetupFails, LoadNothing, LoadFails, ReadFails
<1>10. CASE HandleOutput \/ HandleMoreData \/ HandleMoreSurface \/ HandleIgnored \/ HandleTimeout \/ HandleUnknown
  BY <1>2, <1>10
     DEF HandleOutput, HandleMoreData, HandleMoreSurface, HandleIgnored, HandleTimeout, HandleUnknown
<1>11. CASE SyncDone \/ SyncError \/ SyncTimeout \/ WriteFails \/ Cleanup
  BY <1>2, <1>11 DEF SyncDone, SyncError, SyncTimeout, WriteFails, Cleanup
<1> QED
  BY <1>3, <1>4, <1>5, <1>6, <1>7, <1>8, <1>9, <1>10, <1>11 DEF Next, Runs, RtAnswers

LEMMA ResultIsTyped ==
    ASSUME Resources, Flow, ResultTyped, [Next]_vars
    PROVE  ResultTyped'
<1>1. unhandled \in BOOLEAN /\ out \in Seq(Frame)
  BY DEF ResultTyped
<1>2. CASE SyncDone
  <2>1. rt.task.frame \in Frame
    BY <1>2, SyncDoneFlows DEF Frame
  <2>2. out' = Append(out, rt.task.frame) /\ unhandled' = unhandled
    BY <1>2 DEF SyncDone
  <2> QED
    BY <2>1, <2>2, <1>1 DEF ResultTyped
<1>3. CASE UNCHANGED vars \/ RtCompletes \/ RtAnswers
  BY <1>3, <1>1
     DEF vars, RtAnswers, RtCompletes, RtDecode, RtWorkLocked, RtTimeout, RtProcess, RtDrain, RtNeedsData, RtRefuses,
         ResultTyped
<1>4. CASE SetupStep \/ SetupFails \/ LoadNothing \/ LoadStream \/ LoadFrame \/ LoadFails \/ ReadFails
  BY <1>4, <1>1 DEF SetupStep, SetupFails, LoadNothing, LoadStream, LoadFrame, LoadFails, ReadFails, ResultTyped
<1>5. CASE HandleOutput \/ HandleMoreData \/ HandleMoreSurface \/ HandleIgnored \/ HandleTimeout \/ HandleUnknown
  BY <1>5, <1>1
     DEF HandleOutput, HandleMoreData, HandleMoreSurface, HandleIgnored, HandleTimeout, HandleUnknown, ResultTyped
<1>6. CASE SyncError \/ SyncTimeout \/ WriteFails \/ Cleanup
  BY <1>6, <1>1 DEF SyncError, SyncTimeout, WriteFails, Cleanup, ResultTyped
<1> QED
  BY <1>2, <1>3, <1>4, <1>5, <1>6 DEF Next, Runs

\* What a component that was called does to its queue.
LEMMA EmitGives ==
    ASSUME Shapes, RuntimeTyped, ctl.stage \in Stage, NEW q \in Seq(Slot), q # <<>>, NEW to
    PROVE  LET r == Emit(rt, q, to)
           IN  /\ r.queue = [rt.queue EXCEPT ![ctl.stage] = Tail(q)]
               /\ r.ref = [rt.ref EXCEPT ![ctl.stage] = {Head(q)}]
               /\ r.task = [from |-> Head(q), to |-> to, frame |-> 0, done |-> FALSE]
               /\ r.busy = rt.busy /\ r.refuses = rt.refuses
               /\ Head(q) \in Slot /\ Tail(q) \in Seq(Slot)
BY DEF Emit, Shapes, RuntimeTyped

LEMMA KeepGives ==
    ASSUME Shapes, RuntimeTyped, ctl.stage \in Stage, NEW q
    PROVE  LET r == Keep(rt, q)
           IN  /\ r.queue = [rt.queue EXCEPT ![ctl.stage] = q]
               /\ r.ref = rt.ref /\ r.task = rt.task /\ r.busy = rt.busy /\ r.refuses = rt.refuses
BY DEF Keep, Shapes, RuntimeTyped

LEMMA EmitTyped ==
    ASSUME Shapes, RuntimeTyped, ctl.stage \in Stage, prog' = prog, NEW q \in Seq(Slot), q # <<>>,
           NEW to \in Slot \cup {None}, rt' = Emit(rt, q, to)
    PROVE  RuntimeTyped'
<1>1. /\ rt'.queue = [rt.queue EXCEPT ![ctl.stage] = Tail(q)]
      /\ rt'.ref = [rt.ref EXCEPT ![ctl.stage] = {Head(q)}]
      /\ rt'.task = [from |-> Head(q), to |-> to, frame |-> 0, done |-> FALSE]
      /\ rt'.busy = rt.busy /\ rt'.refuses = rt.refuses
      /\ Head(q) \in Slot /\ Tail(q) \in Seq(Slot)
  BY EmitGives
<1>2. Stage' = Stage
  BY SameProgram
<1>3. rt'.task \in Task
  <2>1. 0 \in 0..NFrames
    BY StreamSizeNumber
  <2> QED
    BY <1>1, <2>1 DEF Task
<1> QED
  BY <1>1, <1>2, <1>3 DEF RuntimeTyped, Task

LEMMA KeepTyped ==
    ASSUME Shapes, RuntimeTyped, ctl.stage \in Stage, prog' = prog, NEW q \in Seq(Slot), rt' = Keep(rt, q)
    PROVE  RuntimeTyped'
<1>1. /\ rt'.queue = [rt.queue EXCEPT ![ctl.stage] = q]
      /\ rt'.ref = rt.ref /\ rt'.task = rt.task /\ rt'.busy = rt.busy /\ rt'.refuses = rt.refuses
  BY KeepGives
<1>2. Stage' = Stage
  BY SameProgram
<1> QED
  BY <1>1, <1>2 DEF RuntimeTyped, Task

\* The surface a decoder works on.
LEMMA WorkTyped ==
    ASSUME Fields, WorkSurface # None
    PROVE  WorkSurface \in Slot
<1>1. CASE P.surfaces = "pool"
  BY <1>1 DEF WorkSurface, Fields
<1>2. CASE P.surfaces # "pool"
  BY <1>2, SlotNumbers, SurfaceFound DEF WorkSurface
<1> QED
  BY <1>1, <1>2

\* The runtime's queues, at a call.
LEMMA CallQueue ==
    ASSUME Fields, NEW x \in Slot
    PROVE  LET q == rt.queue[ctl.stage]
           IN  /\ q \in Seq(Slot) /\ ctl.stage \in Stage
               /\ Append(q, x) \in Seq(Slot) /\ Append(q, x) # <<>>
               /\ Len(Append(q, x)) = Len(q) + 1 /\ Len(q) \in Nat
<1>1. rt.queue[ctl.stage] \in Seq(Slot) /\ ctl.stage \in Stage
  BY DEF Fields
<1> QED
  BY <1>1, QueueAppended

LEMMA RuntimeIsTyped ==
    ASSUME Resources, Flow, SurfacesTyped, RuntimeTyped, [Next]_vars
    PROVE  RuntimeTyped'
<1>1. prog \in Programs /\ prog' = prog /\ Shapes
  BY ProgramStays DEF Resources
<1>2. Stage' = Stage
  BY <1>1, SameProgram
<1>3. CASE rt' = rt
  BY <1>2, <1>3 DEF RuntimeTyped, Task
<1>4. CASE rt' = [rt EXCEPT !.task = None]
  <2>1. /\ rt'.queue = rt.queue /\ rt'.ref = rt.ref /\ rt'.task = None /\ rt'.busy = rt.busy /\ rt'.refuses = rt.refuses
    BY <1>1, <1>4 DEF Shapes
  <2> QED
    BY <2>1, <1>2 DEF RuntimeTyped, Task
<1>5. CASE RtDecode
  <2> DEFINE slot == WorkSurface
             q == Append(rt.queue[ctl.stage], slot)
  <2>1. Fields
    BY <1>5, AtWork DEF RtDecode, Called, Running, InLoop
  <2>2. slot \in Slot
    BY <2>1, <1>5, WorkTyped DEF RtDecode
  <2>3. rt' = Emit(rt, q, Head(q)) \/ rt' = Keep(rt, q)
    BY <1>5 DEF RtDecode
  <2>4. q \in Seq(Slot) /\ ctl.stage \in Stage /\ q # <<>>
    <3> HIDE DEF slot
    <3> QED
      BY <2>1, <2>2, CallQueue
  <2> HIDE DEF q
  <2>5. Head(q) \in Slot \cup {None}
    BY <2>4
  <2> QED
    BY <2>3, <2>4, <2>5, <1>1, EmitTyped, KeepTyped
<1>6. CASE RtProcess
  <2> DEFINE q == Append(rt.queue[ctl.stage], surf.given)
  <2>1. Fields /\ Tasks
    BY <1>6, AtWork DEF RtProcess, Called, Running, InLoop
  <2>2. surf.given \in Slot
    BY <2>1, <1>6 DEF RtProcess, Called, Tasks, Carries
  <2>3. \/ rt' = Emit(rt, q, surf.work) \/ rt' = Emit(rt, q, None)
        \/ rt' = Keep(rt, q)
    BY <1>6 DEF RtProcess
  <2>4. q \in Seq(Slot) /\ ctl.stage \in Stage /\ q # <<>>
    BY <2>1, <2>2, CallQueue
  <2> HIDE DEF q
  <2>5. surf.work \in Slot \cup {None} /\ None \in Slot \cup {None}
    BY <2>1 DEF Fields
  <2> QED
    BY <2>3, <2>4, <2>5, <1>1, EmitTyped, KeepTyped
<1>7. CASE RtDrain
  <2> DEFINE q == rt.queue[ctl.stage]
  <2>1. Fields
    BY <1>7, AtWork DEF RtDrain, Called, Running, InLoop
  <2>2. rt' = rt \/ (q # <<>> /\ (rt' = Emit(rt, q, Head(q)) \/ rt' = Emit(rt, q, None)))
    BY <1>7 DEF RtDrain
  <2>3. q \in Seq(Slot) /\ ctl.stage \in Stage
    BY <2>1 DEF Fields
  <2> HIDE DEF q
  <2>4. None \in Slot \cup {None} /\ (q # <<>> => Head(q) \in Slot \cup {None})
    BY <2>3
  <2> QED
    BY <2>2, <2>3, <2>4, <1>1, <1>3, EmitTyped
<1>8. CASE RtRefuses
  <2>1. PICK s \in MayRefuse[Component], forever \in BOOLEAN :
          /\ forever \/ rt.busy < MaxBusy
          /\ rt' = [rt EXCEPT !.busy = IF forever THEN @ ELSE @ + 1, !.refuses = IF forever THEN s ELSE None]
    BY <1>8 DEF RtRefuses
  <2>2. /\ rt'.queue = rt.queue /\ rt'.ref = rt.ref /\ rt'.task = rt.task
        /\ rt'.busy = (IF forever THEN rt.busy ELSE rt.busy + 1) /\ rt'.refuses \in {s, None}
    BY <2>1, <1>1 DEF Shapes
  <2>3. rt'.busy \in 0..MaxBusy
    <3>1. MaxBusy \in Nat /\ rt.busy \in 0..MaxBusy
      BY ExamplesAssumption DEF RuntimeTyped
    <3>2. rt'.busy = rt.busy \/ (rt'.busy = rt.busy + 1 /\ rt.busy < MaxBusy)
      BY <2>1, <2>2
    <3> QED
      BY ONLY <3>1, <3>2
  <2>4. rt'.refuses \in Refusal \cup {None}
    <3>1. Fields
      BY <1>8, AtWork DEF RtRefuses, Running, InLoop
    <3>2. s \in Refusal
      BY <2>1, <3>1, <1>1, ComponentIs DEF Refusal
    <3> QED
      BY <2>2, <3>2
  <2> QED
    BY <2>2, <2>3, <2>4, <1>2 DEF RuntimeTyped, Task
<1>9. CASE RtCompletes
  <2>1. rt.task \in Task
    BY <1>9 DEF RtCompletes, RuntimeTyped
  <2>2. rt' = [rt EXCEPT !.task.done = TRUE, !.task.frame = surf.content[rt.task.from]]
    BY <1>9 DEF RtCompletes
  <2>3. /\ rt'.queue = rt.queue /\ rt'.ref = rt.ref /\ rt'.busy = rt.busy /\ rt'.refuses = rt.refuses
        /\ rt'.task = [rt.task EXCEPT !.done = TRUE, !.frame = surf.content[rt.task.from]]
    BY <2>2, <1>1 DEF Shapes
  <2>4. surf.content[rt.task.from] \in 0..NFrames
    BY <2>1 DEF SurfacesTyped, Task
  <2>5. rt'.task \in Task
    BY <2>1, <2>3, <2>4 DEF Task
  <2> QED
    BY <2>3, <2>5, <1>2 DEF RuntimeTyped, Task
<1>10. CASE Cleanup
  <2>1. CASE P.cleanup[ctl.step] = "codec"
    <3>1. rt' = [rt EXCEPT !.queue = [s \in Stage |-> <<>>], !.ref = [s \in Stage |-> {}], !.task = None]
      BY <1>10, <2>1 DEF Cleanup
    <3>2. /\ rt'.queue = [s \in Stage |-> <<>>] /\ rt'.ref = [s \in Stage |-> {}] /\ rt'.task = None
          /\ rt'.busy = rt.busy /\ rt'.refuses = rt.refuses
      BY <3>1, <1>1 DEF Shapes
    <3>3. rt'.queue \in [Stage -> Seq(Slot)] /\ rt'.ref \in [Stage -> SUBSET Slot]
      <4>1. <<>> \in Seq(Slot) /\ {} \in SUBSET Slot
        OBVIOUS
      <4> QED
        BY <4>1, <3>2
    <3> QED
      BY <3>2, <3>3, <1>2 DEF RuntimeTyped, Task
  <2>2. CASE P.cleanup[ctl.step] # "codec"
    BY <2>2, <1>3, <1>10 DEF Cleanup
  <2> QED
    BY <2>1, <2>2
<1>11. CASE UNCHANGED vars \/ RtWorkLocked \/ RtTimeout \/ RtNeedsData
  BY <1>3, <1>11 DEF vars, RtWorkLocked, RtTimeout, RtNeedsData
<1>12. CASE SetupStep \/ SetupFails \/ LoadNothing \/ LoadStream \/ LoadFrame \/ LoadFails \/ ReadFails
  BY <1>3, <1>12 DEF SetupStep, SetupFails, LoadNothing, LoadStream, LoadFrame, LoadFails, ReadFails
<1>13. CASE HandleOutput \/ HandleMoreData \/ HandleMoreSurface \/ HandleIgnored \/ HandleTimeout \/ HandleUnknown
  BY <1>3, <1>4, <1>13
     DEF HandleOutput, HandleMoreData, HandleMoreSurface, HandleIgnored, HandleTimeout, HandleUnknown
<1>14. CASE SyncDone \/ SyncError \/ SyncTimeout \/ WriteFails
  BY <1>3, <1>4, <1>14 DEF SyncDone, SyncError, SyncTimeout, WriteFails
<1> QED
  BY <1>5, <1>6, <1>7, <1>8, <1>9, <1>10, <1>11, <1>12, <1>13, <1>14 DEF Next, Runs, RtAnswers

LEMMA SurfacesAreTyped ==
    ASSUME Resources, Flow, SurfacesTyped, RuntimeTyped, [Next]_vars
    PROVE  SurfacesTyped'
<1> DEFINE AppOnly == /\ DOMAIN surf' = DOMAIN surf /\ surf'.content = surf.content
                      /\ surf'.work = surf.work /\ surf'.given = surf.given
<1>1. prog \in Programs /\ prog' = prog /\ Shapes
  BY ProgramStays DEF Resources
<1>2. /\ DOMAIN surf = {"app", "content", "given", "work"}
      /\ surf.app \subseteq Slot /\ surf.content \in [Slot -> 0..NFrames]
      /\ surf.given \in Slot \cup {None} /\ surf.work \in Slot \cup {None}
  BY DEF SurfacesTyped
<1>3. CASE surf' = surf
  BY <1>2, <1>3 DEF SurfacesTyped
<1>4. CASE AppOnly /\ surf'.app \subseteq Slot
  BY <1>2, <1>4 DEF SurfacesTyped
<1>5. CASE surf' = [surf EXCEPT !.work = GetFreeSurfaceIndex(OutSide)]
  <2>1. GetFreeSurfaceIndex(OutSide) \in Slot \cup {None}
    BY SlotNumbers, SurfaceFound
  <2> QED
    BY <2>1, <1>2, <1>5 DEF SurfacesTyped
<1>6. CASE surf' = AfterCall(surf)
  BY <1>2, <1>4, <1>6 DEF AfterCall
<1>7. CASE surf' = AfterSync(surf)
  <2>1. AfterSync(surf).app \subseteq surf.app
    BY <1>2 DEF AfterSync
  <2> QED
    BY <2>1, <1>2, <1>4, <1>7 DEF AfterSync
<1>8. CASE LoadFrame
  <2> DEFINE r == ReadRawFrame(input)
             in == IF P.surfaces = "pool" THEN GetFreeSurfaceIndex(InSide) ELSE GetSurface(InSide)
             acquired == P.surfaces = "internal" \/ (P.surfaces = "imported" /\ r.sts = "NONE")
             t == [surf EXCEPT !.given = in, !.app = IF acquired THEN @ \cup {in} ELSE @,
                               !.content = [i \in Slot |-> IF r.sts = "NONE" /\ i = in THEN r.input.file ELSE @[i]]]
  <2>1. Source
    BY <1>8, AtWork DEF LoadFrame, Running, InLoop
  <2>2. r.sts = "NONE" => r.input.file \in 0..NFrames
    <3>1. /\ DOMAIN input = {"file", "parsed", "bs"} /\ input.file \in 0..NFrames /\ NFrames \in Nat
      BY <2>1, <1>1, <1>8, StagesOfProgram, StreamSizeNumber DEF LoadFrame, Source
    <3> QED
      BY <3>1 DEF ReadRawFrame
  <2>3. in \in Slot \cup {None} /\ (acquired => in # None)
    <3>1. in \in Slot \cup {None}
      BY SlotNumbers, SurfaceFound
    <3> QED
      BY <3>1, <1>8 DEF LoadFrame
  <2>4. surf' = OutputSurface(t) /\ (surf'.work # None \/ prog # "hello_vpp")
    BY <1>8 DEF LoadFrame
  <2> HIDE DEF r, in, acquired
  <2>5. /\ DOMAIN t = {"app", "content", "given", "work"} /\ t.app \subseteq Slot /\ t.given \in Slot \cup {None}
        /\ t.work \in Slot \cup {None} /\ t.content \in [Slot -> 0..NFrames]
    <3>1. t.content = [i \in Slot |-> IF r.sts = "NONE" /\ i = in THEN r.input.file ELSE surf.content[i]]
      BY <1>2
    <3>2. t.content \in [Slot -> 0..NFrames]
      BY <3>1, <2>2, <1>2
    <3> QED
      BY <3>2, <2>3, <1>2
  <2> HIDE DEF t
  <2>6. /\ DOMAIN surf' = DOMAIN t /\ surf'.content = t.content /\ surf'.given = t.given
        /\ surf'.work \in Slot \cup {None}
    BY <2>4, <2>5, OutputSurfaceTaken
  <2>7. surf'.app \subseteq Slot
    <3>1. \/ surf'.app = t.app
          \/ Component = "vpp" /\ P.surfaces # "pool" /\ surf'.app = t.app \cup {surf'.work}
      BY <2>4, <2>5 DEF OutputSurface
    <3>2. Component = "vpp" /\ P.surfaces # "pool" => prog = "hello_vpp"
      <4>1. Fields
        BY <1>8, AtWork DEF LoadFrame, Running, InLoop
      <4>2. ctl.stage = 1
        BY <4>1, <1>1, <1>8, StagesOfProgram DEF LoadFrame, Fields
      <4> QED
        BY <4>2, <1>1, NamedProgram DEF Component
    <3> QED
      BY <3>1, <3>2, <2>4, <2>5, <2>6
  <2> QED
    BY <2>5, <2>6, <2>7 DEF SurfacesTyped
<1>9. CASE ReadFails
  <2>1. GetSurface(InSide) \in Slot
    BY <1>9, SlotNumbers, SurfaceFound DEF ReadFails
  <2>2. surf' = [surf EXCEPT !.given = GetSurface(InSide), !.app = @ \cup {GetSurface(InSide)}]
    BY <1>9 DEF ReadFails
  <2> QED
    BY <2>1, <2>2, <1>2 DEF SurfacesTyped
<1>10. CASE RtDecode
  <2> DEFINE slot == WorkSurface
             q == Append(rt.queue[ctl.stage], slot)
  <2>1. Fields /\ Source
    BY <1>10, AtWork DEF RtDecode, Called, Running, InLoop
  <2>2. slot \in Slot
    BY <2>1, <1>10, WorkTyped DEF RtDecode
  <2>3. surf' = [surf EXCEPT !.content[slot] = input.parsed + 1,
                             !.app = IF Announces(q) /\ P.surfaces # "pool" THEN @ \cup {Head(q)} ELSE @]
    BY <1>10 DEF RtDecode
  <2>4. q \in Seq(Slot) /\ q # <<>>
    <3> HIDE DEF slot
    <3> QED
      BY <2>1, <2>2, CallQueue
  <2>5. input.parsed + 1 \in 0..NFrames
    BY <2>1, <1>10, StreamSizeNumber DEF RtDecode, CanDecode, Source
  <2> HIDE DEF q, slot
  <2>6. Head(q) \in Slot
    BY <2>4
  <2>7. /\ DOMAIN surf' = DOMAIN surf /\ surf'.content = [surf.content EXCEPT ![slot] = input.parsed + 1]
        /\ surf'.given = surf.given /\ surf'.work = surf.work
        /\ surf'.app \in {surf.app, surf.app \cup {Head(q)}}
    BY <2>3, <1>2
  <2>8. surf'.content \in [Slot -> 0..NFrames]
    BY <2>2, <2>5, <2>7, <1>2
  <2>9. surf'.app \subseteq Slot
    BY <2>6, <2>7, <1>2
  <2> QED
    BY <2>7, <2>8, <2>9, <1>2 DEF SurfacesTyped
<1>11. CASE RtDrain
  <2> DEFINE q == rt.queue[ctl.stage]
  <2>1. Fields
    BY <1>11, AtWork DEF RtDrain, Called, Running, InLoop
  <2>2. surf' = surf \/ (q # <<>> /\ surf' = [surf EXCEPT !.app = @ \cup {Head(q)}])
    BY <1>11 DEF RtDrain
  <2>3. q \in Seq(Slot)
    BY <2>1 DEF Fields
  <2> HIDE DEF q
  <2>4. q # <<>> => Head(q) \in Slot
    BY <2>3
  <2> QED
    BY <2>2, <2>4, <1>2, <1>3 DEF SurfacesTyped
<1>12. CASE HandleOutput
  <2>1. CASE ctl.stage < Len(P.stages)
    <3>1. surf' = [surf EXCEPT !.given = rt.task.to]
      BY <1>12, <2>1 DEF HandleOutput
    <3>2. rt.task.to \in Slot
      <4>1. Tasks
        BY <1>12, AtWork DEF HandleOutput, Running, InLoop
      <4> QED
        BY <4>1, <1>12, <2>1 DEF HandleOutput, Tasks, HasTask, Stages
    <3> QED
      BY <3>1, <3>2, <1>2 DEF SurfacesTyped
  <2>2. CASE ~(ctl.stage < Len(P.stages))
    BY <1>12, <2>2, <1>6 DEF HandleOutput
  <2> QED
    BY <2>1, <2>2
<1>13. CASE Cleanup
  <2>1. surf' = surf \/ surf' = [surf EXCEPT !.app = {}]
    BY <1>13 DEF Cleanup
  <2> QED
    BY <2>1, <1>2, <1>3 DEF SurfacesTyped
<1>14. CASE UNCHANGED vars \/ RtWorkLocked \/ RtTimeout \/ RtNeedsData \/ RtProcess \/ RtRefuses \/ RtCompletes
  BY <1>3, <1>14 DEF vars, RtWorkLocked, RtTimeout, RtNeedsData, RtProcess, RtRefuses, RtCompletes
<1>15. CASE SetupStep \/ SetupFails \/ LoadNothing \/ LoadStream \/ LoadFails
  BY <1>3, <1>5, <1>15 DEF SetupStep, SetupFails, LoadNothing, LoadStream, LoadFails
<1>16. CASE HandleMoreData \/ HandleMoreSurface \/ HandleIgnored \/ HandleTimeout \/ HandleUnknown
  BY <1>3, <1>5, <1>6, <1>16 DEF HandleMoreData, HandleMoreSurface, HandleIgnored, HandleTimeout, HandleUnknown
<1>17. CASE SyncDone \/ SyncError \/ SyncTimeout \/ WriteFails
  BY <1>3, <1>7, <1>17 DEF SyncDone, SyncError, SyncTimeout, WriteFails
<1> QED
  BY <1>8, <1>9, <1>10, <1>11, <1>12, <1>13, <1>14, <1>15, <1>16, <1>17 DEF Next, Runs, RtAnswers

LEMMA TypedKept == Resources /\ Flow /\ Typed /\ [Next]_vars => Typed'
BY ControlTyped, InputIsTyped, SurfacesAreTyped, RuntimeIsTyped, ResultIsTyped DEF Typed

-----------------------------------------------------------------------------
(* The surfaces that the program holds                                     *)

\* a program that decodes holds the output that is announced, then the frame that
\* it encodes
HeldOfStream ==
    IF Component = "decode" THEN IF HasTask THEN {rt.task.to} ELSE {}
    ELSE IF ctl.pc \in {"call", "answer"} /\ ~NullInput THEN {surf.given} ELSE {}

\* a program that reads raw frames holds the frame it gives to a component, and
\* hello-vpp also the one it gets back
HeldOfFrames ==
    (IF ctl.pc \in {"call", "answer"} THEN {surf.given} ELSE {})
    \cup (IF prog = "hello_vpp" /\ ctl.pc \notin {"setup", "load"} THEN {surf.work} ELSE {})

\* sharing-vaapi-import keeps a frame as long as the encoder does
HeldOfImports ==
    ToSet(rt.queue[1]) \cup rt.ref[1] \cup (IF ctl.pc = "call" THEN {surf.given} ELSE {})

StreamReturned == surf.app \subseteq HeldOfStream
FramesReturned ==
    /\ surf.app \subseteq HeldOfFrames
    /\ prog = "hello_vpp" /\ HasTask => rt.task.to = surf.work
    /\ prog = "hello_vpp" /\ ctl.pc = "answer" => ctl.sts = "NONE"
ImportsReturned == ~HasTask => surf.app \subseteq HeldOfImports

\* What a program holds while every answer is one that it handles, and until it
\* drains, if it reads raw frames: those that drain keep the last surface.
Returned ==
    ~unhandled =>
        /\ P.reads = "stream" => StreamReturned
        /\ P.reads = "frames" /\ ctl.draining = 0 =>
              IF P.release = "submit" THEN FramesReturned ELSE ImportsReturned

\* A decoder alone keeps no more than its delay, and one reference.
DecoderKeeps ==
    P.reads = "stream" /\ Stages = 1 =>
        Len(rt.queue[1]) <= Delay["decode"] /\ \E x : rt.ref[1] \subseteq {x}

\* A program with a pool of its own has a surface for the output wherever it may
\* call the decoder or VPP.
WorkThere ==
    P.surfaces = "pool" /\ P.stages[1] # "encode"
    /\ ctl.pc \in (IF P.reads = "stream" THEN InLoop ELSE {"call"}) => surf.work \in Slot
Surfaced == Running => Returned /\ DecoderKeeps /\ WorkThere

\* What was not handled stays so.
LEMMA UnhandledStays ==
    ASSUME Resources, Flow, Typed, [Next]_vars, ~unhandled'
    PROVE  ~unhandled
<1>1. unhandled \in BOOLEAN
  BY DEF Typed, ResultTyped
<1>2. CASE UNCHANGED vars \/ RtCompletes \/ RtAnswers
  BY <1>2, <1>1
     DEF vars, RtAnswers, RtCompletes, RtDecode, RtWorkLocked, RtTimeout, RtProcess, RtDrain, RtNeedsData, RtRefuses
<1>3. CASE SetupStep \/ SetupFails \/ LoadNothing \/ LoadStream \/ LoadFrame \/ LoadFails \/ ReadFails
  BY <1>3, <1>1 DEF SetupStep, SetupFails, LoadNothing, LoadStream, LoadFrame, LoadFails, ReadFails
<1>4. CASE HandleOutput \/ HandleMoreData \/ HandleMoreSurface \/ HandleIgnored \/ HandleTimeout \/ HandleUnknown
  BY <1>4, <1>1
     DEF HandleOutput, HandleMoreData, HandleMoreSurface, HandleIgnored, HandleTimeout, HandleUnknown
<1>5. CASE SyncDone \/ SyncError \/ SyncTimeout \/ WriteFails \/ Cleanup
  BY <1>5, <1>1 DEF SyncDone, SyncError, SyncTimeout, WriteFails, Cleanup
<1> QED
  BY <1>2, <1>3, <1>4, <1>5 DEF Next, Runs

\* A step from the loop or the set up that stays there.
LEMMA RunsOn ==
    ASSUME Resources, [Next]_vars, Running'
    PROVE  /\ Running /\ prog' = prog /\ prog \in Programs /\ Shapes
           /\ ~ (SetupFails \/ LoadFails \/ HandleUnknown \/ SyncTimeout \/ WriteFails \/ Cleanup)
<1>1. prog \in Programs /\ prog' = prog /\ Shapes
  BY ProgramStays DEF Resources
<1>2. ~ (SetupFails \/ LoadFails \/ HandleUnknown \/ SyncTimeout \/ WriteFails \/ Cleanup)
  BY EndFlows DEF Running, InLoop
<1>3. Running
  <2>1. CASE UNCHANGED vars
    BY <2>1 DEF vars, Running
  <2>2. CASE RtCompletes
    BY <2>2 DEF RtCompletes, Running
  <2>3. CASE RtAnswers
    BY <2>3 DEF RtAnswers, RtDecode, RtWorkLocked, RtTimeout, RtProcess, RtDrain, RtNeedsData, RtRefuses, Called,
                Running, InLoop
  <2>4. CASE Runs
    BY <2>4, <1>2
       DEF Runs, SetupStep, LoadNothing, LoadStream, LoadFrame, ReadFails, HandleOutput, HandleMoreData,
           HandleMoreSurface, HandleIgnored, HandleTimeout, SyncDone, SyncError, Running, InLoop
  <2> QED
    BY <2>1, <2>2, <2>3, <2>4 DEF Next
<1> QED
  BY <1>1, <1>2, <1>3

\* Where the control goes.
LEMMA GoesTo ==
    ASSUME Resources, prog' = prog, NEW pc, ctl' = Goto(ctl, pc)
    PROVE  /\ ctl'.pc = pc /\ ctl'.stage = ctl.stage /\ ctl'.draining = ctl.draining /\ ctl'.sts = ctl.sts
           /\ Component' = Component /\ (NullInput' <=> NullInput)
<1>1. /\ ctl'.pc = pc /\ ctl'.stage = ctl.stage /\ ctl'.draining = ctl.draining /\ ctl'.sts = ctl.sts
  BY DEF Resources, Shapes, Goto
<1>2. P' = P
  BY SameProgram
<1> QED
  BY <1>1, <1>2 DEF Component, NullInput

LEMMA StreamKept ==
    ASSUME Resources, Flow, Typed, [Next]_vars, Running', ~unhandled', P.reads = "stream", StreamReturned
    PROVE  StreamReturned'
<1>1. /\ Running /\ prog' = prog /\ prog \in Programs /\ Shapes /\ ~unhandled
      /\ ~ (SetupFails \/ LoadFails \/ HandleUnknown \/ SyncTimeout \/ WriteFails \/ Cleanup)
  BY RunsOn, UnhandledStays
<1>2. Source /\ Fields /\ Tasks /\ Drains /\ Answers
  BY <1>1, AtWork
<1>3. /\ Stages \in {1, 2} /\ Stage = 1..Stages /\ ctl.stage \in Stage
      /\ \A k \in Stage : P.stages[k] = "decode" <=> k = 1
      /\ P' = P /\ Stages' = Stages /\ Len(P.stages) = Stages
  BY <1>1, <1>2, StagesOfProgram, SameProgram DEF Fields, Stages
<1>4. Component = "decode" <=> ctl.stage = 1
  BY <1>3 DEF Component
<1>5. P.release = "submit" <=> Stages = 2
  BY <1>1, NamedProgram
<1>6. prog # "hello_vpp" /\ prog # "sharing_vaapi_import" /\ prog # "legacy_vpp"
  <2>1. P.stages[1] = "decode"
    BY <1>3
  <2> QED
    BY <2>1, <1>1, NamedProgram
<1>7. DOMAIN surf = {"app", "content", "given", "work"}
  BY DEF Typed, SurfacesTyped
<1>8. surf.app = {} /\ surf'.app = {} => StreamReturned'
  BY DEF StreamReturned
<1>9. CASE SetupStep \/ LoadNothing \/ LoadStream
  <2>1. ctl.pc \in {"setup", "load"} /\ surf'.app = surf.app
    BY <1>9, <1>7 DEF SetupStep, LoadNothing, LoadStream
  <2>2. surf.app = {}
    BY <2>1 DEF StreamReturned, HeldOfStream, HasTask
  <2> QED
    BY <2>1, <2>2, <1>8
<1>10. CASE RtAnswers
  <2>1. ctl.pc = "call"
    BY <1>10 DEF RtAnswers, RtDecode, RtWorkLocked, RtTimeout, RtProcess, RtDrain, RtNeedsData, RtRefuses, Called
  <2>2. \E s : ctl' = Answer(s)
    BY <1>10 DEF RtAnswers, RtDecode, RtWorkLocked, RtTimeout, RtProcess, RtDrain, RtNeedsData, RtRefuses
  <2>3. /\ ctl'.pc = "answer" /\ Component' = Component /\ (NullInput' <=> NullInput) /\ ~HasTask
    BY <1>1, <2>1, <2>2, Answered
  <2>4. Component = "decode" => surf.app = {}
    BY <2>3 DEF StreamReturned, HeldOfStream
  <2>5. CASE surf' = surf
    <3>1. CASE Component = "decode"
      BY <3>1, <2>4, <2>5, <1>8
    <3>2. CASE Component # "decode"
      BY <3>2, <2>1, <2>3, <2>5 DEF StreamReturned, HeldOfStream
    <3> QED
      BY <3>1, <3>2
  <2> DEFINE Announcing(q) == /\ surf'.app = {} \/ surf'.app = {Head(q)}
                              /\ surf'.app # {} => ctl' = Answer("NONE") /\ rt' = Emit(rt, q, Head(q))
                              /\ q \in Seq(Slot) /\ q # <<>>
  <2>6. ASSUME NEW q, Announcing(q), Component = "decode"
        PROVE  StreamReturned'
    <3>1. CASE surf'.app = {}
      BY <3>1 DEF StreamReturned
    <3>2. CASE surf'.app = {Head(q)}
      <4>1. ctl' = Answer("NONE") /\ rt' = Emit(rt, q, Head(q))
        BY <3>2, <2>6
      <4>2. HasTask'
        BY <1>1, <2>1, <4>1, Answered
      <4>3. rt'.task = [from |-> Head(q), to |-> Head(q), frame |-> 0, done |-> FALSE]
        BY <1>1, <1>3, <2>6, <4>1, EmitGives DEF Typed
      <4>4. rt'.task.to = Head(q)
        BY <4>3
      <4> QED
        BY <3>2, <4>2, <4>4, <2>3, <2>6 DEF StreamReturned, HeldOfStream
    <3> QED
      BY <2>6, <3>1, <3>2
  <2>7. CASE RtDecode
    <3> DEFINE slot == WorkSurface
               q == Append(rt.queue[ctl.stage], slot)
    <3>1. Component = "decode" /\ surf.app = {} /\ slot \in Slot
      BY <1>2, <2>4, <2>7, WorkTyped DEF RtDecode
    <3>2. /\ surf' = [surf EXCEPT !.content[slot] = input.parsed + 1,
                                  !.app = IF Announces(q) /\ P.surfaces # "pool" THEN @ \cup {Head(q)} ELSE @]
          /\ Announces(q) => rt' = Emit(rt, q, Head(q)) /\ ctl' = Answer("NONE")
      BY <2>7 DEF RtDecode
    <3>3. q \in Seq(Slot) /\ q # <<>>
      <4> HIDE DEF slot
      <4> QED
        BY <1>2, <3>1, CallQueue
    <3> HIDE DEF q, slot
    <3>4. surf'.app = IF Announces(q) /\ P.surfaces # "pool" THEN {Head(q)} ELSE {}
      BY <3>1, <3>2, <1>7
    <3>5. Announcing(q)
      BY <3>2, <3>3, <3>4
    <3> QED
      BY <3>1, <3>5, <2>6
  <2>8. CASE RtDrain
    <3>1. CASE Component = "decode"
      <4> DEFINE q == rt.queue[ctl.stage]
      <4>1. surf.app = {} /\ q \in Seq(Slot)
        BY <3>1, <2>4, <1>2 DEF Fields
      <4>2. \/ surf' = surf
            \/ /\ q # <<>> /\ rt' = Emit(rt, q, Head(q)) /\ ctl' = Answer("NONE")
               /\ surf' = [surf EXCEPT !.app = @ \cup {Head(q)}]
        BY <2>8, <3>1 DEF RtDrain
      <4> HIDE DEF q
      <4>3. surf' = surf \/ Announcing(q)
        BY <4>1, <4>2, <1>7
      <4> QED
        BY <3>1, <4>3, <2>5, <2>6
    <3>2. CASE Component # "decode"
      BY <2>5, <2>8, <3>2 DEF RtDrain
    <3> QED
      BY <3>1, <3>2
  <2>9. CASE RtWorkLocked \/ RtTimeout \/ RtProcess \/ RtNeedsData \/ RtRefuses
    BY <2>5, <2>9 DEF RtWorkLocked, RtTimeout, RtProcess, RtNeedsData, RtRefuses
  <2> QED
    BY <1>10, <2>7, <2>8, <2>9 DEF RtAnswers
<1>11. CASE RtCompletes
  <2>1. surf' = surf /\ ctl' = ctl /\ rt' = [rt EXCEPT !.task.done = TRUE, !.task.frame = surf.content[rt.task.from]]
        /\ rt.task # None
    BY <1>11 DEF RtCompletes
  <2>2. rt.task \in Task
    BY <2>1 DEF Typed, RuntimeTyped
  <2>3. rt'.task.to = rt.task.to
    BY <2>1, <2>2, <1>1 DEF Shapes, Task
  <2>4. Component' = Component /\ (NullInput' <=> NullInput) /\ (HasTask' <=> HasTask)
    BY <2>1, <1>3 DEF Component, NullInput, HasTask
  <2> QED
    BY <2>1, <2>3, <2>4 DEF StreamReturned, HeldOfStream
<1>12. CASE HandleOutput
  <2>1. HasTask /\ ctl.pc = "answer"
    BY <1>12 DEF HandleOutput, HasTask
  <2>2. CASE ctl.stage < Stages
    <3>1. /\ ctl' = [Goto(ctl, "call") EXCEPT !.stage = @ + 1] /\ surf' = [surf EXCEPT !.given = rt.task.to]
      BY <1>3, <1>12, <2>2 DEF HandleOutput
    <3>2. /\ ctl'.pc = "call" /\ ctl'.stage = 2 /\ ctl'.draining = ctl.draining /\ ctl.stage = 1
          /\ Stages = 2 /\ 2 \in Stage
      BY <3>1, <1>1, <1>3, <2>2 DEF Shapes, Goto
    <3>3. ctl.draining \in {0, 1}
      BY <1>2, <3>2 DEF Drains, Fields
    <3>4. ~NullInput' /\ Component' # "decode"
      BY <1>3, <3>2, <3>3 DEF NullInput, Component
    <3>5. surf'.app = surf.app /\ surf'.given = rt.task.to
      BY <3>1, <1>7
    <3>6. surf.app \subseteq {rt.task.to}
      BY <1>4, <2>1, <3>2 DEF StreamReturned, HeldOfStream
    <3> QED
      BY <3>2, <3>4, <3>5, <3>6 DEF StreamReturned, HeldOfStream
  <2>3. CASE ~(ctl.stage < Stages)
    <3>1. ctl' = Goto(ctl, "sync") /\ surf' = AfterCall(surf) /\ rt' = rt
      BY <1>3, <1>12, <2>3 DEF HandleOutput
    <3>2. ctl'.pc = "sync" /\ Component' = Component
      BY <3>1, <1>1, GoesTo
    <3>3. CASE Component = "decode"
      <4>1. surf' = surf /\ surf.app \subseteq {rt.task.to} /\ HasTask'
        BY <3>1, <3>2, <3>3, <2>1 DEF AfterCall, StreamReturned, HeldOfStream, HasTask
      <4> QED
        BY <4>1, <3>1, <3>2, <3>3 DEF StreamReturned, HeldOfStream
    <3>4. CASE Component # "decode"
      <4>1. P.release = "submit"
        BY <3>4, <1>3, <1>4, <1>5
      <4>2. surf.app \subseteq IF NullInput THEN {} ELSE {surf.given}
        BY <3>4, <2>1 DEF StreamReturned, HeldOfStream
      <4>3. surf'.app = {}
        BY <3>1, <3>4, <4>1, <4>2, <1>7 DEF AfterCall
      <4> QED
        BY <4>3 DEF StreamReturned
    <3> QED
      BY <3>3, <3>4
  <2> QED
    BY <2>2, <2>3
<1>13. CASE HandleMoreData \/ HandleMoreSurface \/ HandleIgnored \/ HandleTimeout
  <2>1. ctl.pc = "answer" /\ ctl.sts # "NONE" /\ ~HasTask
    BY <1>1, <1>13, RefusedOfProgram, RefusalIs
       DEF HandleMoreData, HandleMoreSurface, AnotherSurface, HandleIgnored, HandleTimeout, HasTask
  <2>2. CASE Component = "decode"
    <3>1. surf.app = {}
      BY <2>1, <2>2 DEF StreamReturned, HeldOfStream
    <3>2. surf'.app = surf.app
      BY <1>13, <2>2, <1>7
         DEF HandleMoreData, HandleMoreSurface, HandleIgnored, HandleTimeout, AfterCall
    <3> QED
      BY <3>1, <3>2, <1>8
  <2>3. CASE Component # "decode"
    <3>1. ctl.stage = 2 /\ Stages = 2 /\ P.release = "submit"
      BY <2>3, <1>3, <1>4, <1>5
    <3>2. surf.app \subseteq IF NullInput THEN {} ELSE {surf.given}
      BY <2>1, <2>3 DEF StreamReturned, HeldOfStream
    <3>3. CASE HandleMoreData \/ HandleIgnored
      <4>1. surf'.app = {}
        BY <3>1, <3>2, <3>3, <2>3, <1>7 DEF HandleMoreData, HandleIgnored, AfterCall
      <4> QED
        BY <4>1 DEF StreamReturned
    <3>4. CASE HandleMoreSurface
      BY <3>4, <2>3, <1>1, <1>2, AnotherIsDecoded DEF HandleMoreSurface
    <3>5. CASE HandleTimeout
      BY <3>5, <2>1, <2>3, <1>2 DEF HandleTimeout, Answers
    <3> QED
      BY <1>13, <3>3, <3>4, <3>5
  <2> QED
    BY <2>2, <2>3
<1>14. CASE SyncDone
  <2>1. ctl.pc = "sync" /\ ctl' = Goto(ctl, "load") /\ surf' = AfterSync(surf)
    BY <1>14 DEF SyncDone
  <2>2. HasTask /\ ctl.stage = Stages
    BY <2>1, <1>2 DEF HasTask, Tasks
  <2>3. surf'.app = {}
    <3>1. CASE Component = "decode"
      <4>1. P.release = "sync" /\ surf.app \subseteq {rt.task.to}
        BY <3>1, <2>2, <1>1, <1>3, <1>4, <1>5, NamedProgram DEF StreamReturned, HeldOfStream
      <4> QED
        BY <4>1, <2>1, <1>6, <1>7 DEF AfterSync
    <3>2. CASE Component # "decode"
      <4>1. surf.app = {}
        BY <3>2, <2>1 DEF StreamReturned, HeldOfStream
      <4> QED
        BY <4>1, <2>1, <1>7 DEF AfterSync
    <3> QED
      BY <3>1, <3>2
  <2> QED
    BY <2>3 DEF StreamReturned
<1>15. CASE SyncError
  <2>1. unhandled' \/ ctl' = Fail(ctl)
    BY <1>15 DEF SyncError
  <2> QED
    BY <2>1, <1>1, Ends DEF Running, InLoop
<1>16. CASE UNCHANGED vars
  <2>1. surf' = surf /\ ctl' = ctl /\ rt' = rt
    BY <1>16 DEF vars
  <2>2. Component' = Component /\ (NullInput' <=> NullInput) /\ (HasTask' <=> HasTask)
    BY <2>1, <1>3 DEF Component, NullInput, HasTask
  <2> QED
    BY <2>1, <2>2 DEF StreamReturned, HeldOfStream
<1>17. ~ (LoadFrame \/ ReadFails)
  BY DEF LoadFrame, ReadFails
<1> QED
  BY <1>1, <1>9, <1>10, <1>11, <1>12, <1>13, <1>14, <1>15, <1>16, <1>17 DEF Next, Runs

\* A program that reads raw frames takes them through one component until it
\* drains, and goes on only after the answers it handles.
LEMMA FramesGoOn ==
    ASSUME Resources, Flow, Typed, [Next]_vars, Running', ~unhandled', P.reads = "frames", ctl'.draining = 0
    PROVE  /\ ctl.draining = 0 /\ ctl.stage = 1 /\ Stages = 1 /\ Stage = {1} /\ Component # "decode" /\ ~NullInput
           /\ prog' = prog /\ prog \in Programs /\ Shapes
           /\ SetupStep \/ LoadFrame \/ RtProcess \/ RtCompletes \/ HandleOutput \/ HandleMoreData \/ SyncDone
              \/ UNCHANGED vars
<1>1. /\ Running /\ prog' = prog /\ prog \in Programs /\ Shapes /\ ~unhandled
      /\ ~ (SetupFails \/ LoadFails \/ HandleUnknown \/ SyncTimeout \/ WriteFails \/ Cleanup)
  BY RunsOn, UnhandledStays
<1>2. Source /\ Fields /\ Tasks /\ Drains /\ Answers
  BY <1>1, AtWork
<1>3. /\ Stages = 1 /\ Stage = {1} /\ ctl.stage = 1 /\ Component # "decode" /\ Len(P.stages) = 1
      /\ ctl.draining \in {0, 1}
  <2>1. /\ Stages \in {1, 2} /\ Stage = 1..Stages /\ (Stages = 2 => P.reads = "stream")
        /\ \A s \in Stage : P.stages[s] = "decode" <=> P.reads = "stream" /\ s = 1
        /\ ctl.stage \in Stage /\ ctl.draining \in 0..Stages
    BY <1>1, <1>2, StagesOfProgram DEF Fields
  <2>2. Stages = 1 /\ Stage = {1} /\ ctl.stage = 1 /\ ctl.draining \in {0, 1}
    BY <2>1
  <2> QED
    BY <2>1, <2>2 DEF Component, Stages
<1>4. ~ (RtDecode \/ RtWorkLocked \/ RtTimeout \/ RtNeedsData \/ LoadStream)
  BY <1>3 DEF RtDecode, RtWorkLocked, RtTimeout, RtNeedsData, LoadStream
<1>5. ~ (HandleMoreSurface \/ HandleIgnored \/ HandleTimeout)
  <2>1. ctl.sts \in P.goesOn => ctl.sts \in Refusal
    BY <1>1, RefusedOfProgram
  <2>2. ~AnotherSurface
    BY <1>1, <1>2, <1>3, AnotherIsDecoded
  <2> QED
    BY <1>1, <1>2, <1>3, <2>1, <2>2, RefusalIs DEF HandleMoreSurface, HandleIgnored, HandleTimeout, Answers
<1>6. ~ RtRefuses
  BY <1>3 DEF RtRefuses
<1>7. ~ (SyncError \/ ReadFails)
  <2>1. ~ SyncError
    <3>1. SyncError => unhandled' \/ ctl' = Fail(ctl)
      BY DEF SyncError
    <3> QED
      BY <3>1, <1>1, Ends DEF Running, InLoop
  <2>2. ~ ReadFails
    <3>1. ReadFails => ctl' = Fail(ctl) \/ ctl' = Drain(Goto(ctl, "call"))
      BY DEF ReadFails
    <3>2. Drain(Goto(ctl, "call")).draining = 1
      BY <1>1 DEF Drain, Goto, Shapes
    <3> QED
      BY <3>1, <3>2, <1>1, Ends DEF Running, InLoop
  <2> QED
    BY <2>1, <2>2
<1>8. ~ LoadNothing
  <2>1. LoadNothing => ctl'.draining = ctl.draining /\ ctl.draining > 0
    BY <1>1 DEF LoadNothing, IsDraining, Shapes, Goto
  <2> QED
    BY <2>1, <1>3
<1>9. ctl.draining = 0
  <2>1. SetupStep \/ LoadFrame \/ UNCHANGED vars \/ RtCompletes => ctl.draining = 0 \/ ctl'.draining = ctl.draining
    BY <1>1, <1>3 DEF SetupStep, LoadFrame, vars, RtCompletes, IsDraining, Shapes, Goto
  <2>2. RtProcess \/ RtDrain => ctl'.draining = ctl.draining
    BY <1>1 DEF RtProcess, RtDrain, Answer, Shapes
  <2>3. HandleOutput \/ HandleMoreData \/ SyncDone => ctl'.draining = ctl.draining
    <3>1. HandleOutput \/ HandleMoreData \/ SyncDone =>
            ctl' \in {Goto(ctl, "sync"), Goto(ctl, "load"), CleanUp(ctl)}
      BY <1>3 DEF HandleOutput, HandleMoreData, SyncDone
    <3>2. /\ Goto(ctl, "sync").draining = ctl.draining /\ Goto(ctl, "load").draining = ctl.draining
          /\ CleanUp(ctl).draining = ctl.draining
      BY <1>1 DEF Goto, CleanUp, Shapes
    <3> QED
      BY <3>1, <3>2
  <2> QED
    BY <2>1, <2>2, <2>3, <1>1, <1>4, <1>5, <1>6, <1>7, <1>8 DEF Next, Runs, RtAnswers
<1>10. ~NullInput
  BY <1>3, <1>9 DEF NullInput
<1>11. ~ RtDrain
  BY <1>10 DEF RtDrain
<1> QED
  BY <1>1, <1>3, <1>4, <1>5, <1>6, <1>7, <1>8, <1>9, <1>10, <1>11 DEF Next, Runs, RtAnswers

\* What a program holds once it has a frame to give to the component.
LEMMA FrameTaken ==
    ASSUME Resources, Flow, Typed, LoadFrame, ctl.stage = 1
    PROVE  /\ ctl'.pc = "call" /\ rt' = rt
           /\ surf'.app \subseteq surf.app \cup {surf'.given}
                                  \cup (IF prog = "hello_vpp" THEN {surf'.work} ELSE {})
           /\ P.surfaces = "pool" /\ Component = "vpp" => surf'.work = GetFreeSurfaceIndex(OutSide)
<1> DEFINE r == ReadRawFrame(input)
           in == IF P.surfaces = "pool" THEN GetFreeSurfaceIndex(InSide) ELSE GetSurface(InSide)
           acquired == P.surfaces = "internal" \/ (P.surfaces = "imported" /\ r.sts = "NONE")
           t == [surf EXCEPT !.given = in, !.app = IF acquired THEN @ \cup {in} ELSE @,
                             !.content = [i \in Slot |-> IF r.sts = "NONE" /\ i = in THEN r.input.file ELSE @[i]]]
<1>1. prog \in Programs /\ Shapes /\ DOMAIN surf = {"app", "content", "given", "work"}
  BY DEF Resources, Typed, SurfacesTyped
<1>2. ctl'.pc = "call" /\ rt' = rt
  BY <1>1 DEF LoadFrame, Drain, Goto, Shapes
<1>3. surf' = OutputSurface(t)
  BY DEF LoadFrame
<1>4. DOMAIN t = DOMAIN surf /\ t.given = in /\ t.app \subseteq surf.app \cup {in}
  <2> HIDE DEF r, in, acquired
  <2> QED
    BY <1>1
<1> HIDE DEF t
<1>5. /\ surf'.given = in
      /\ \/ surf'.app = t.app
         \/ Component = "vpp" /\ P.surfaces # "pool" /\ surf'.app = t.app \cup {surf'.work}
      /\ P.surfaces = "pool" /\ Component = "vpp" => surf'.work = GetFreeSurfaceIndex(OutSide)
  <2> HIDE DEF in
  <2> QED
    BY <1>1, <1>3, <1>4 DEF OutputSurface
<1>6. Component = "vpp" /\ P.surfaces # "pool" => prog = "hello_vpp"
  BY <1>1, NamedProgram DEF Component
<1> QED
  BY <1>2, <1>4, <1>5, <1>6

\* A component of raw frames that was called with one.
LEMMA FrameProcessed ==
    ASSUME Resources, Flow, Typed, RtProcess, Stages = 1, ctl.stage = 1, ~NullInput
    PROVE  /\ ctl.pc = "call" /\ ctl'.pc = "answer" /\ surf' = surf /\ surf.given \in Slot
           /\ \/ ctl'.sts = "NONE" /\ (Component = "vpp" => rt'.task.to = surf.work)
              \/ /\ ctl'.sts = "MORE_DATA" /\ Component # "vpp"
                 /\ rt'.queue[1] = Append(rt.queue[1], surf.given) /\ rt'.ref = rt.ref
<1> DEFINE q == Append(rt.queue[ctl.stage], surf.given)
           to == IF Component = "vpp" THEN surf.work ELSE None
<1>1. prog \in Programs /\ Shapes /\ RuntimeTyped
  BY DEF Resources, Typed
<1>2. ctl.pc = "call" /\ surf' = surf /\ prog' = prog
  BY DEF RtProcess, Called
<1>3. Fields /\ Tasks
  BY <1>2, AtWork DEF Running, InLoop
<1>4. surf.given \in Slot
  BY <1>2, <1>3 DEF RtProcess, Tasks, Carries
<1>5. q \in Seq(Slot) /\ q # <<>> /\ Len(q) > 0 /\ 1 \in Stage
  <2>1. /\ rt.queue[ctl.stage] \in Seq(Slot) /\ ctl.stage \in Stage
        /\ q \in Seq(Slot) /\ q # <<>>
        /\ Len(q) = Len(rt.queue[ctl.stage]) + 1 /\ Len(rt.queue[ctl.stage]) \in Nat
    BY <1>3, <1>4, CallQueue
  <2> QED
    BY <2>1
<1>6. \/ Announces(q) /\ rt' = Emit(rt, q, to) /\ ctl' = Answer("NONE")
      \/ ~Announces(q) /\ rt' = Keep(rt, q) /\ ctl' = Answer("MORE_DATA")
  BY DEF RtProcess
<1>7. Component = "vpp" => Announces(q)
  <2>1. Delay["vpp"] = 0
    BY ExamplesAssumption
  <2> HIDE DEF q
  <2> QED
    BY <2>1, <1>5 DEF Announces
<1> HIDE DEF q, to
<1>8. CASE Announces(q)
  <2>1. rt' = Emit(rt, q, to) /\ ctl' = Answer("NONE")
    BY <1>6, <1>8
  <2>2. rt'.task = [from |-> Head(q), to |-> to, frame |-> 0, done |-> FALSE]
    BY <1>1, <1>5, <2>1, EmitGives
  <2>3. ctl'.pc = "answer" /\ ctl'.sts = "NONE"
    BY <1>1, <2>1 DEF Answer, Shapes
  <2> QED
    BY <1>2, <1>4, <2>2, <2>3 DEF to
<1>9. CASE ~Announces(q)
  <2>1. rt' = Keep(rt, q) /\ ctl' = Answer("MORE_DATA")
    BY <1>6, <1>9
  <2>2. rt'.queue = [rt.queue EXCEPT ![ctl.stage] = q] /\ rt'.ref = rt.ref
    BY <1>1, <1>5, <2>1, KeepGives
  <2>3. ctl'.pc = "answer" /\ ctl'.sts = "MORE_DATA"
    BY <1>1, <2>1 DEF Answer, Shapes
  <2>4. rt'.queue[1] = Append(rt.queue[1], surf.given)
    BY <2>2, <1>1, <1>5 DEF q, RuntimeTyped
  <2> QED
    BY <1>2, <1>4, <1>7, <1>9, <2>2, <2>3, <2>4
<1> QED
  BY <1>8, <1>9

LEMMA FramesKept ==
    ASSUME Resources, Flow, Typed, [Next]_vars, Running', ~unhandled', P.reads = "frames", ctl'.draining = 0,
           P.release = "submit", FramesReturned
    PROVE  FramesReturned'
<1>1. /\ ctl.draining = 0 /\ ctl.stage = 1 /\ Stages = 1 /\ Component # "decode" /\ ~NullInput
      /\ prog' = prog /\ prog \in Programs /\ Shapes
      /\ SetupStep \/ LoadFrame \/ RtProcess \/ RtCompletes \/ HandleOutput \/ HandleMoreData \/ SyncDone
         \/ UNCHANGED vars
  BY FramesGoOn
<1>2. DOMAIN surf = {"app", "content", "given", "work"}
  BY DEF Typed, SurfacesTyped
<1>3. prog = "hello_vpp" => Component = "vpp"
  BY <1>1, NamedProgram DEF Component
<1>4. prog # "sharing_vaapi_import"
  BY <1>1, NamedProgram
<1>5. ctl.pc \in {"setup", "load"} => surf.app = {}
  BY DEF FramesReturned, HeldOfFrames
<1>6. CASE SetupStep
  <2>1. ctl.pc = "setup" /\ surf'.app = surf.app /\ ctl'.pc \in {"setup", "load"}
    BY <1>6, <1>1, <1>2, GoesTo DEF SetupStep, Goto, Shapes
  <2> QED
    BY <2>1, <1>5 DEF FramesReturned, HasTask
<1>7. CASE LoadFrame
  <2>1. ctl.pc = "load"
    BY <1>7 DEF LoadFrame
  <2>2. /\ ctl'.pc = "call"
        /\ surf'.app \subseteq surf.app \cup {surf'.given} \cup (IF prog = "hello_vpp" THEN {surf'.work} ELSE {})
    BY <1>1, <1>7, FrameTaken
  <2>3. surf'.app \subseteq HeldOfFrames'
    BY <1>1, <1>5, <2>1, <2>2 DEF HeldOfFrames
  <2> QED
    BY <2>2, <2>3 DEF FramesReturned, HasTask
<1>8. CASE RtProcess
  <2>1. /\ ctl.pc = "call" /\ ctl'.pc = "answer" /\ surf' = surf
        /\ \/ ctl'.sts = "NONE" /\ (Component = "vpp" => rt'.task.to = surf.work)
           \/ ctl'.sts = "MORE_DATA" /\ Component # "vpp"
    BY <1>1, <1>8, FrameProcessed
  <2>2. surf'.app \subseteq HeldOfFrames'
    BY <1>1, <2>1 DEF FramesReturned, HeldOfFrames
  <2> QED
    BY <1>1, <1>3, <2>1, <2>2 DEF FramesReturned
<1>9. CASE RtCompletes
  <2>1. surf' = surf /\ ctl' = ctl /\ rt' = [rt EXCEPT !.task.done = TRUE, !.task.frame = surf.content[rt.task.from]]
        /\ rt.task # None
    BY <1>9 DEF RtCompletes
  <2>2. rt.task \in Task
    BY <2>1 DEF Typed, RuntimeTyped
  <2>3. rt'.task.to = rt.task.to
    BY <2>1, <2>2, <1>1 DEF Shapes, Task
  <2> QED
    BY <2>1, <2>3, <1>1 DEF FramesReturned, HeldOfFrames, HasTask
<1>10. CASE HandleOutput
  <2>1. /\ ctl.pc = "answer" /\ ctl.sts = "NONE" /\ ctl' = Goto(ctl, "sync") /\ surf' = AfterCall(surf) /\ rt' = rt
    BY <1>1, <1>10 DEF HandleOutput, Stages
  <2>2. ctl'.pc = "sync" /\ HasTask
    BY <1>1, <2>1, GoesTo DEF HasTask
  <2>3. surf'.app = surf.app \ {surf.given} /\ surf'.work = surf.work
    BY <1>1, <1>2, <2>1 DEF AfterCall
  <2>4. surf'.app \subseteq HeldOfFrames'
    BY <1>1, <2>1, <2>2, <2>3 DEF FramesReturned, HeldOfFrames
  <2> QED
    BY <1>1, <2>1, <2>2, <2>3, <2>4 DEF FramesReturned
<1>11. CASE HandleMoreData
  <2>1. /\ ctl.pc = "answer" /\ ctl.sts = "MORE_DATA" /\ ctl' = Goto(ctl, "load") /\ surf' = AfterCall(surf)
    BY <1>1, <1>11 DEF HandleMoreData
  <2>2. ctl'.pc = "load"
    BY <1>1, <2>1, GoesTo
  <2>3. surf'.app = surf.app \ {surf.given}
    BY <1>1, <1>2, <2>1 DEF AfterCall
  <2>4. prog # "hello_vpp"
    BY <2>1 DEF FramesReturned
  <2>5. surf'.app = {}
    BY <2>1, <2>3, <2>4 DEF FramesReturned, HeldOfFrames
  <2> QED
    BY <2>2, <2>5 DEF FramesReturned, HasTask
<1>12. CASE SyncDone
  <2>1. ctl.pc = "sync" /\ ctl' = Goto(ctl, "load") /\ surf' = AfterSync(surf)
    BY <1>12 DEF SyncDone
  <2>2. ctl'.pc = "load" /\ HasTask
    BY <1>1, <2>1, GoesTo DEF HasTask
  <2>3. CASE prog = "hello_vpp"
    <3>1. surf.app \subseteq {rt.task.to}
      BY <2>1, <2>2, <2>3 DEF FramesReturned, HeldOfFrames
    <3>2. surf'.app = surf.app \ {rt.task.to}
      BY <2>1, <2>3, <1>2 DEF AfterSync
    <3> QED
      BY <2>2, <3>1, <3>2 DEF FramesReturned, HasTask
  <2>4. CASE prog # "hello_vpp"
    <3>1. surf.app = {}
      BY <2>1, <2>4 DEF FramesReturned, HeldOfFrames
    <3>2. surf'.app = {}
      BY <2>1, <2>4, <3>1, <1>2 DEF AfterSync
    <3> QED
      BY <2>2, <3>2 DEF FramesReturned, HasTask
  <2> QED
    BY <2>3, <2>4
<1>13. CASE UNCHANGED vars
  BY <1>13 DEF vars, FramesReturned, HeldOfFrames, HasTask
<1> QED
  BY <1>1, <1>6, <1>7, <1>8, <1>9, <1>10, <1>11, <1>12, <1>13

LEMMA AppendedSlots ==
    ASSUME NEW S, NEW q \in Seq(S), NEW x \in S
    PROVE  ToSet(Append(q, x)) = ToSet(q) \cup {x}
<1> DEFINE a == Append(q, x)
<1>1. /\ DOMAIN q = 1..Len(q) /\ DOMAIN a = 1..(Len(q) + 1) /\ Len(q) \in Nat
      /\ \A k \in 1..Len(q) : a[k] = q[k]
      /\ a[Len(q) + 1] = x
  OBVIOUS
<1> HIDE DEF a
<1>2. 1..(Len(q) + 1) = 1..Len(q) \cup {Len(q) + 1}
  BY <1>1
<1>3. ToSet(a) = {a[k] : k \in 1..Len(q)} \cup {x}
  BY <1>1, <1>2 DEF ToSet
<1>4. {a[k] : k \in 1..Len(q)} = ToSet(q)
  BY <1>1 DEF ToSet
<1> QED
  BY <1>3, <1>4 DEF a

LEMMA ImportsKept ==
    ASSUME Resources, Flow, Typed, [Next]_vars, Running', ~unhandled', P.reads = "frames", ctl'.draining = 0,
           P.release # "submit", ImportsReturned
    PROVE  ImportsReturned'
<1>1. /\ ctl.draining = 0 /\ ctl.stage = 1 /\ Stages = 1 /\ Stage = {1} /\ Component # "decode" /\ ~NullInput
      /\ prog' = prog /\ prog \in Programs /\ Shapes
      /\ SetupStep \/ LoadFrame \/ RtProcess \/ RtCompletes \/ HandleOutput \/ HandleMoreData \/ SyncDone
         \/ UNCHANGED vars
  BY FramesGoOn
<1>2. DOMAIN surf = {"app", "content", "given", "work"}
  BY DEF Typed, SurfacesTyped
<1>3. prog = "sharing_vaapi_import" /\ prog # "hello_vpp"
  BY <1>1, NamedProgram
<1>4. CASE SetupStep
  <2>1. ctl.pc = "setup" /\ surf'.app = surf.app /\ rt' = rt
    BY <1>4, <1>2 DEF SetupStep
  <2>2. ~HasTask /\ surf.app \subseteq ToSet(rt.queue[1]) \cup rt.ref[1]
    BY <2>1 DEF ImportsReturned, HeldOfImports, HasTask
  <2> QED
    BY <2>1, <2>2 DEF ImportsReturned, HeldOfImports
<1>5. CASE LoadFrame
  <2>1. ctl.pc = "load"
    BY <1>5 DEF LoadFrame
  <2>2. ctl'.pc = "call" /\ rt' = rt /\ surf'.app \subseteq surf.app \cup {surf'.given}
    BY <1>1, <1>3, <1>5, FrameTaken
  <2>3. surf.app \subseteq ToSet(rt.queue[1]) \cup rt.ref[1]
    BY <2>1 DEF ImportsReturned, HeldOfImports, HasTask
  <2> QED
    BY <2>2, <2>3 DEF ImportsReturned, HeldOfImports
<1>6. CASE RtProcess
  <2>1. /\ ctl.pc = "call" /\ ctl'.pc = "answer" /\ surf' = surf /\ surf.given \in Slot
        /\ \/ ctl'.sts = "NONE"
           \/ rt'.queue[1] = Append(rt.queue[1], surf.given) /\ rt'.ref = rt.ref
    BY <1>1, <1>6, FrameProcessed
  <2>2. CASE ctl'.sts = "NONE"
    BY <2>1, <2>2 DEF ImportsReturned, HasTask
  <2>3. CASE rt'.queue[1] = Append(rt.queue[1], surf.given) /\ rt'.ref = rt.ref
    <3>1. surf.app \subseteq ToSet(rt.queue[1]) \cup rt.ref[1] \cup {surf.given}
      BY <2>1 DEF ImportsReturned, HeldOfImports, HasTask
    <3>2. ToSet(rt'.queue[1]) = ToSet(rt.queue[1]) \cup {surf.given}
      <4>1. rt.queue[1] \in Seq(Slot)
        BY <1>1 DEF Typed, RuntimeTyped
      <4> QED
        BY <4>1, <2>1, <2>3, AppendedSlots
    <3> QED
      BY <2>1, <2>3, <3>1, <3>2 DEF ImportsReturned, HeldOfImports
  <2> QED
    BY <2>1, <2>2, <2>3
<1>7. CASE RtCompletes
  <2>1. /\ surf' = surf /\ ctl' = ctl /\ rt.task # None
        /\ rt'.queue = rt.queue /\ rt'.ref = rt.ref
    BY <1>1, <1>7 DEF RtCompletes, Shapes
  <2> QED
    BY <2>1 DEF ImportsReturned, HeldOfImports, HasTask
<1>8. CASE HandleOutput
  <2>1. ctl' = Goto(ctl, "sync")
    BY <1>1, <1>8 DEF HandleOutput, Stages
  <2>2. HasTask'
    BY <1>1, <2>1, GoesTo DEF HasTask
  <2> QED
    BY <2>2 DEF ImportsReturned
<1>9. CASE HandleMoreData
  <2>1. ctl.pc = "answer" /\ ctl.sts = "MORE_DATA" /\ surf' = AfterCall(surf) /\ rt' = rt
    BY <1>1, <1>9 DEF HandleMoreData
  <2>2. surf' = surf
    BY <2>1 DEF AfterCall
  <2>3. surf.app \subseteq ToSet(rt.queue[1]) \cup rt.ref[1]
    BY <2>1 DEF ImportsReturned, HeldOfImports, HasTask
  <2> QED
    BY <2>1, <2>2, <2>3 DEF ImportsReturned, HeldOfImports
<1>10. CASE SyncDone
  <2>1. surf' = AfterSync(surf) /\ rt' = [rt EXCEPT !.task = None]
    BY <1>10 DEF SyncDone
  <2>2. rt'.queue = rt.queue /\ rt'.ref = rt.ref
    BY <1>1, <2>1 DEF Shapes
  <2>3. \A x \in surf'.app : \E k \in Stage : x \in ToSet(rt.queue[k]) \cup rt.ref[k]
    BY <1>2, <1>3, <2>1 DEF AfterSync
  <2>5. surf'.app \subseteq ToSet(rt.queue[1]) \cup rt.ref[1]
    BY <1>1, <2>3
  <2> QED
    BY <2>2, <2>5 DEF ImportsReturned, HeldOfImports
<1>11. CASE UNCHANGED vars
  BY <1>11 DEF vars, ImportsReturned, HeldOfImports, HasTask
<1> QED
  BY <1>1, <1>4, <1>5, <1>6, <1>7, <1>8, <1>9, <1>10, <1>11

LEMMA SideFound ==
    ASSUME prog \in Programs, Stages = 1, rt.task = None, rt.queue \in [Stage -> Seq(Slot)],
           NEW n \in Nat, Len(rt.queue[1]) <= n, Surfaces >= n + 2, NEW x, rt.ref[1] \subseteq {x},
           NEW side \in {InSide, OutSide}
    PROVE  GetFreeSurfaceIndex(side) \in side \ Locked
<1>1. Stage = {1} /\ Surfaces \in Nat
  BY StagesOfProgram, ExamplesAssumption
<1>2. Locked = ToSet(rt.queue[1]) \cup rt.ref[1]
  BY <1>1 DEF Locked
<1>3. IsFiniteSet(side) /\ Cardinality(side) = Surfaces
  <2>1. IsFiniteSet(1..Surfaces) /\ Cardinality(1..Surfaces) = IF 1 > Surfaces THEN 0 ELSE Surfaces - 1 + 1
    BY <1>1, FS_Interval
  <2>2. /\ IsFiniteSet(Surfaces + 1 .. 2 * Surfaces)
        /\ Cardinality(Surfaces + 1 .. 2 * Surfaces) =
              IF Surfaces + 1 > 2 * Surfaces THEN 0 ELSE 2 * Surfaces - (Surfaces + 1) + 1
    <3>1. Surfaces + 1 \in Int /\ 2 * Surfaces \in Int
      BY <1>1
    <3> QED
      BY <3>1, FS_Interval
  <2>3. Surfaces >= 2
    BY <1>1
  <2> QED
    BY <2>1, <2>2, <2>3, <1>1 DEF InSide, OutSide
<1>4. side \ Locked # {}
  <2> DEFINE q == rt.queue[1]
             R == rt.ref[1]
  <2>1. q \in Seq(Slot) /\ R \in SUBSET {x} /\ Len(q) <= n
    BY <1>1
  <2>2. Cardinality(side) >= n + 2
    BY <1>3
  <2> HIDE DEF q, R
  <2>3. side \ (ToSet(q) \cup R) # {}
    BY <2>1, <2>2, <1>3, SlotLeft
  <2> QED
    BY <2>3, <1>2 DEF q, R
<1>5. side \ Locked \in SUBSET Nat
  BY SlotNumbers
<1> QED
  BY <1>4, <1>5, LowestIsThere DEF GetFreeSurfaceIndex

LEMMA EnoughSurfaces ==
    ASSUME NEW c \in {"decode", "encode", "vpp"}
    PROVE  Delay[c] \in Nat /\ Surfaces >= Delay[c] + 2
<1>1. \A d \in {"decode", "encode", "vpp"} : Delay[d] \in Nat
  BY DelayNumber
<1>2. Delay["vpp"] = 0 /\ Surfaces \in Nat /\ Surfaces >= Delay["decode"] + Delay["encode"] + 2
  BY ExamplesAssumption
<1> QED
  BY <1>1, <1>2

\* A program that has no task finds a free surface in its pool of outputs.
LEMMA OutputFound ==
    ASSUME prog \in Programs, Stages = 1, rt.task = None, Fields, FewKept, DecoderKeeps
    PROVE  GetFreeSurfaceIndex(OutSide) \in Slot
<1>1. /\ P.reads \in {"stream", "frames"} /\ P.stages[1] \in {"decode", "encode", "vpp"}
      /\ rt.queue \in [Stage -> Seq(Slot)]
  BY StagesOfProgram DEF Fields
<1>2. PICK c \in {"decode", "encode", "vpp"} :
         Len(rt.queue[1]) <= Delay[c] /\ \E x : rt.ref[1] \subseteq {x}
  BY <1>1 DEF FewKept, DecoderKeeps
<1>3. Delay[c] \in Nat /\ Surfaces >= Delay[c] + 2
  BY EnoughSurfaces
<1>4. PICK x : rt.ref[1] \subseteq {x}
  BY <1>2
<1>5. GetFreeSurfaceIndex(OutSide) \in OutSide \ Locked
  BY <1>1, <1>2, <1>3, <1>4, SideFound
<1> QED
  BY <1>5, SlotNumbers

LEMMA DecoderStillKeeps ==
    ASSUME Resources, Flow, Typed, [Next]_vars, Running', DecoderKeeps
    PROVE  DecoderKeeps'
<1> SUFFICES ASSUME P'.reads = "stream", Stages' = 1
             PROVE  Len(rt'.queue[1]) <= Delay["decode"] /\ \E x : rt'.ref[1] \subseteq {x}
  BY DEF DecoderKeeps
<1>1. /\ Running /\ prog' = prog /\ prog \in Programs /\ Shapes
      /\ ~ (SetupFails \/ LoadFails \/ HandleUnknown \/ SyncTimeout \/ WriteFails \/ Cleanup)
  BY RunsOn
<1>2. P.reads = "stream" /\ Stages = 1 /\ Fields /\ RuntimeTyped
  BY <1>1, AtWork, SameProgram DEF Typed
<1>3. Stage = {1} /\ ctl.stage = 1 /\ Component = "decode"
  <2>1. /\ Stage = 1..Stages /\ ctl.stage \in Stage
        /\ \A s \in Stage : P.stages[s] = "decode" <=> P.reads = "stream" /\ s = 1
    BY <1>1, <1>2, StagesOfProgram DEF Fields
  <2>2. Stage = {1} /\ ctl.stage = 1
    BY <2>1, <1>2
  <2> QED
    BY <2>1, <2>2, <1>2 DEF Component
<1>4. Len(rt.queue[1]) <= Delay["decode"] /\ \E x : rt.ref[1] \subseteq {x}
  BY <1>2 DEF DecoderKeeps
<1>5. rt.queue[1] \in Seq(Slot) /\ Delay["decode"] \in Nat /\ 1 \in Stage
  BY <1>2, <1>3, DelayNumber DEF RuntimeTyped
<1>6. CASE rt'.queue = rt.queue /\ rt'.ref = rt.ref
  BY <1>4, <1>6
<1>7. ASSUME NEW q \in Seq(Slot), q # <<>>, NEW to, rt' = Emit(rt, q, to), Len(q) <= Delay["decode"] + 1
      PROVE  Len(rt'.queue[1]) <= Delay["decode"] /\ \E x : rt'.ref[1] \subseteq {x}
  <2>1. /\ rt'.queue = [rt.queue EXCEPT ![1] = Tail(q)] /\ rt'.ref = [rt.ref EXCEPT ![1] = {Head(q)}]
    <3>1. ctl.stage \in Stage /\ q \in Seq(Slot) /\ q # <<>>
      BY <1>3, <1>5, <1>7
    <3>2. /\ rt'.queue = [rt.queue EXCEPT ![ctl.stage] = Tail(q)]
          /\ rt'.ref = [rt.ref EXCEPT ![ctl.stage] = {Head(q)}]
      BY <3>1, <1>1, <1>2, <1>7, EmitGives
    <3> QED
      BY <3>2, <1>3
  <2>2. rt'.queue[1] = Tail(q) /\ rt'.ref[1] = {Head(q)}
    BY <2>1, <1>2, <1>5 DEF RuntimeTyped
  <2>3. Len(Tail(q)) = Len(q) - 1 /\ Len(q) \in Nat
    BY <1>7
  <2> QED
    BY <2>2, <2>3, <1>5, <1>7
<1>8. CASE RtDecode
  <2> DEFINE slot == WorkSurface
             q == Append(rt.queue[ctl.stage], slot)
  <2>1. slot \in Slot
    BY <1>2, <1>8, WorkTyped DEF RtDecode
  <2>2. \/ Announces(q) /\ rt' = Emit(rt, q, Head(q))
        \/ ~Announces(q) /\ rt' = Keep(rt, q)
    BY <1>8 DEF RtDecode
  <2>3. q \in Seq(Slot) /\ q # <<>> /\ Len(q) = Len(rt.queue[1]) + 1 /\ Len(rt.queue[1]) \in Nat
    <3> HIDE DEF slot
    <3> QED
      BY <1>2, <1>3, <2>1, CallQueue
  <2> HIDE DEF q
  <2>4. CASE Announces(q)
    <3>1. Len(q) <= Delay["decode"] + 1
      BY <2>3, <1>4, <1>5
    <3> QED
      BY <2>2, <2>3, <2>4, <3>1, <1>7
  <2>5. CASE ~Announces(q)
    <3>1. Len(q) <= Delay["decode"]
      BY <2>3, <2>5, <1>3, <1>5 DEF Announces
    <3>2. rt'.queue = [rt.queue EXCEPT ![1] = q] /\ rt'.ref = rt.ref
      BY <2>2, <2>5, <1>1, <1>2, <1>3, KeepGives
    <3>3. rt'.queue[1] = q
      BY <3>2, <1>2, <1>5 DEF RuntimeTyped
    <3> QED
      BY <3>1, <3>2, <3>3, <1>4
  <2> QED
    BY <2>4, <2>5
<1>9. CASE RtDrain
  <2> DEFINE q == rt.queue[ctl.stage]
  <2>1. rt' = rt \/ (q # <<>> /\ rt' = Emit(rt, q, Head(q)))
    BY <1>3, <1>9 DEF RtDrain
  <2>2. q \in Seq(Slot) /\ Len(q) <= Delay["decode"] + 1
    <3>1. Len(rt.queue[1]) \in Nat
      BY <1>5
    <3> QED
      BY <3>1, <1>3, <1>4, <1>5
  <2> HIDE DEF q
  <2> QED
    BY <2>1, <2>2, <1>6, <1>7
<1>10. CASE UNCHANGED vars \/ RtCompletes \/ RtWorkLocked \/ RtTimeout \/ RtNeedsData \/ RtRefuses
  BY <1>1, <1>6, <1>10 DEF vars, RtCompletes, RtWorkLocked, RtTimeout, RtNeedsData, RtRefuses, Shapes
<1>11. ~RtProcess
  BY <1>3 DEF RtProcess
<1>12. CASE SetupStep \/ LoadNothing \/ LoadStream \/ LoadFrame \/ ReadFails
  BY <1>6, <1>12 DEF SetupStep, LoadNothing, LoadStream, LoadFrame, ReadFails
<1>13. CASE HandleOutput \/ HandleMoreData \/ HandleMoreSurface \/ HandleIgnored \/ HandleTimeout
  BY <1>1, <1>6, <1>13
     DEF HandleOutput, HandleMoreData, HandleMoreSurface, HandleIgnored, HandleTimeout, Shapes
<1>14. CASE SyncDone \/ SyncError
  BY <1>1, <1>6, <1>14 DEF SyncDone, SyncError, Shapes
<1> QED
  BY <1>1, <1>8, <1>9, <1>10, <1>11, <1>12, <1>13, <1>14 DEF Next, Runs, RtAnswers

LEMMA WorkStillThere ==
    ASSUME Resources, Flow, Typed, [Next]_vars, Running', WorkThere, DecoderKeeps
    PROVE  WorkThere'
<1> SUFFICES ASSUME P'.surfaces = "pool", P'.stages[1] # "encode",
                    ctl'.pc \in (IF P'.reads = "stream" THEN InLoop ELSE {"call"})
             PROVE  surf'.work \in Slot
  BY DEF WorkThere
<1>1. /\ Running /\ prog' = prog /\ prog \in Programs /\ Shapes /\ P' = P
      /\ ~ (SetupFails \/ LoadFails \/ HandleUnknown \/ SyncTimeout \/ WriteFails \/ Cleanup)
  BY RunsOn, SameProgram
<1>2. Fields /\ Tasks /\ FewKept /\ Answers /\ DOMAIN surf = {"app", "content", "given", "work"}
  BY <1>1, AtWork DEF Typed, SurfacesTyped
<1>3. /\ Stages = 1 /\ Stage = {1} /\ ctl.stage = 1 /\ Len(P.stages) = 1 /\ P.reads \in {"stream", "frames"}
      /\ P.stages[1] \in {"decode", "vpp"}
      /\ P.reads = "stream" <=> P.stages[1] = "decode"
  <2>1. /\ Stages = 1 /\ Stage = 1..Stages /\ P.reads \in {"stream", "frames"} /\ ctl.stage \in Stage
        /\ \A s \in Stage : /\ P.stages[s] \in {"decode", "encode", "vpp"}
                            /\ P.stages[s] = "decode" <=> P.reads = "stream" /\ s = 1
    BY <1>1, <1>2, StagesOfProgram, NamedProgram DEF Fields
  <2>2. Stage = {1} /\ ctl.stage = 1
    BY <2>1
  <2> QED
    BY <2>1, <2>2, <1>1 DEF Stages
<1>4. /\ P.reads = "stream" => prog = "legacy_decode"
      /\ P.reads = "frames" => prog = "legacy_vpp"
  BY <1>1, <1>3, NamedProgram
<1>5. rt.task = None => GetFreeSurfaceIndex(OutSide) \in Slot
  BY <1>1, <1>2, <1>3, OutputFound
<1>6. CASE surf'.work = GetFreeSurfaceIndex(OutSide) /\ ~HasTask
  BY <1>2, <1>5, <1>6 DEF Tasks
<1>7. CASE P.reads = "stream"
  <2>1. CASE SetupStep
    <3>1. ctl.step = Len(P.setup) /\ ctl.pc = "setup"
      BY <1>1, <1>7, <2>1 DEF SetupStep, InLoop, Shapes
    <3> QED
      BY <1>2, <1>4, <1>6, <1>7, <2>1, <3>1 DEF SetupStep, HasTask
  <2>2. CASE HandleMoreSurface
    BY <1>2, <1>6, <2>2 DEF HandleMoreSurface, AnotherSurface, HasTask
  <2>3. CASE ctl.pc \in InLoop /\ surf'.work = surf.work
    BY <1>1, <1>7, <2>3 DEF WorkThere
  <2>4. CASE UNCHANGED vars
    BY <1>1, <1>7, <2>4 DEF vars, WorkThere
  <2>5. CASE RtCompletes
    BY <1>1, <1>7, <2>5 DEF RtCompletes, WorkThere
  <2>6. CASE RtAnswers
    BY <1>2, <2>3, <2>6
       DEF RtAnswers, RtDecode, RtWorkLocked, RtTimeout, RtProcess, RtDrain, RtNeedsData, RtRefuses, Called, InLoop
  <2>7. CASE LoadNothing \/ LoadStream
    BY <1>4, <1>7, <2>3, <2>7 DEF LoadNothing, LoadStream, InLoop
  <2>8. CASE HandleOutput \/ HandleMoreData \/ HandleIgnored \/ HandleTimeout
    <3>1. AfterCall(surf).work = surf.work
      BY <1>2, AfterCallGives
    <3> QED
      BY <1>2, <2>3, <2>8, <3>1 DEF HandleOutput, HandleMoreData, HandleIgnored, HandleTimeout, InLoop
  <2>9. CASE SyncDone \/ SyncError
    <3>1. AfterSync(surf).work = surf.work
      BY <1>2, AfterSyncGives
    <3> QED
      BY <2>3, <2>9, <3>1 DEF SyncDone, SyncError, InLoop
  <2>10. ~ (LoadFrame \/ ReadFails)
    BY <1>7 DEF LoadFrame, ReadFails
  <2> QED
    BY <1>1, <2>1, <2>2, <2>4, <2>5, <2>6, <2>7, <2>8, <2>9, <2>10 DEF Next, Runs
<1>8. CASE P.reads = "frames"
  <2>1. ctl'.pc = "call" /\ Component = "vpp"
    BY <1>1, <1>3, <1>8 DEF Component
  <2>2. CASE LoadNothing
    BY <1>2, <1>4, <1>6, <1>8, <2>2 DEF LoadNothing, HasTask
  <2>3. CASE LoadFrame
    <3>1. surf'.work = GetFreeSurfaceIndex(OutSide)
      BY <1>1, <1>3, <2>1, <2>3, FrameTaken
    <3> QED
      BY <1>6, <2>3, <3>1 DEF LoadFrame, HasTask
  <2>4. CASE UNCHANGED vars \/ RtCompletes
    BY <1>1, <1>8, <2>4 DEF vars, RtCompletes, WorkThere
  <2>5. ~ (SetupStep \/ LoadStream \/ ReadFails)
    BY <1>1, <1>8, <2>1 DEF SetupStep, LoadStream, ReadFails, Goto, Shapes
  <2>6. ~ RtAnswers
    <3>1. RtAnswers => \E s : ctl' = Answer(s)
      BY DEF RtAnswers, RtDecode, RtWorkLocked, RtTimeout, RtProcess, RtDrain, RtNeedsData, RtRefuses
    <3> QED
      BY <1>1, <2>1, <3>1 DEF Answer, Shapes
  <2>7. ~ (HandleOutput \/ HandleMoreData \/ HandleMoreSurface \/ HandleIgnored \/ HandleTimeout)
    <3>1. ~ (HandleOutput \/ HandleMoreData)
      <4>1. ~(ctl.stage < Len(P.stages))
        BY <1>3
      <4>2. HandleOutput \/ HandleMoreData => \E pc \in {"sync", "load"} : ctl' \in {Goto(ctl, pc), CleanUp(ctl)}
        BY <4>1 DEF HandleOutput, HandleMoreData
      <4> QED
        BY <1>1, <2>1, <4>2 DEF Goto, CleanUp, Shapes
    <3>2. ~ (HandleMoreSurface \/ HandleIgnored)
      BY <1>1, <2>1 DEF HandleMoreSurface, HandleIgnored, Goto, Shapes
    <3>3. ~ HandleTimeout
      BY <1>2, <2>1 DEF HandleTimeout, Answers
    <3> QED
      BY <3>1, <3>2, <3>3
  <2>8. ~ (SyncDone \/ SyncError)
    BY <1>1, <2>1 DEF SyncDone, SyncError, Goto, Fail, CleanUp, Shapes
  <2> QED
    BY <1>1, <2>2, <2>3, <2>4, <2>5, <2>6, <2>7, <2>8 DEF Next, Runs
<1> QED
  BY <1>3, <1>7, <1>8

\* What the program holds, while it runs.
LEMMA SurfacedKept == Resources /\ Flow /\ Typed /\ Surfaced /\ [Next]_vars => Surfaced'
<1> SUFFICES ASSUME Resources, Flow, Typed, Surfaced, [Next]_vars, Running'
             PROVE  (Returned /\ DecoderKeeps /\ WorkThere)'
  BY DEF Surfaced
<1>1. Running /\ prog' = prog /\ P' = P
  BY RunsOn, SameProgram
<1>2. Returned /\ DecoderKeeps /\ WorkThere
  BY <1>1 DEF Surfaced
<1>3. ASSUME ~unhandled', P'.reads = "stream"
      PROVE  StreamReturned'
  <2>1. StreamReturned
    BY <1>1, <1>2, <1>3, UnhandledStays DEF Returned
  <2> QED
    BY <1>1, <1>2, <1>3, <2>1, StreamKept
<1>4. ASSUME ~unhandled', P'.reads = "frames", ctl'.draining = 0
      PROVE  IF P'.release = "submit" THEN FramesReturned' ELSE ImportsReturned'
  <2>1. ctl.draining = 0
    BY <1>1, <1>2, <1>4, FramesGoOn
  <2>2. IF P.release = "submit" THEN FramesReturned ELSE ImportsReturned
    BY <1>1, <1>2, <1>4, <2>1, UnhandledStays DEF Returned
  <2> QED
    BY <1>1, <1>2, <1>4, <2>2, FramesKept, ImportsKept
<1>5. Returned'
  BY <1>3, <1>4 DEF Returned
<1>6. DecoderKeeps' /\ WorkThere'
  BY <1>2, DecoderStillKeeps, WorkStillThere
<1> QED
  BY <1>5, <1>6

LEMMA InitSurfaced ==
    ASSUME Init
    PROVE  Typed /\ Surfaced
<1>1. /\ prog \in Programs
      /\ ctl = [pc |-> "setup", step |-> 1, stage |-> 1, draining |-> 0, sts |-> "NONE",
                timeouts |-> 0, failed |-> FALSE]
      /\ input = [file |-> 0, parsed |-> 0, bs |-> [offset |-> 0, length |-> 0]]
      /\ surf = [app |-> {}, content |-> [i \in Slot |-> 0], given |-> None, work |-> None]
      /\ rt = [queue |-> [s \in Stage |-> <<>>], ref |-> [s \in Stage |-> {}], task |-> None,
               busy |-> 0, refuses |-> None]
      /\ unhandled = FALSE /\ out = <<>>
  BY DEF Init
<1>2. 1 \in Stage /\ MaxTimeouts \in Nat /\ MaxBusy \in Nat /\ NFrames \in Nat /\ BufferSize \in Nat
  BY <1>1, StagesOfProgram, ExamplesAssumption
<1>3. ctl \in Control
  BY <1>1, <1>2 DEF Control, Place, Status
<1>4. InputTyped /\ SurfacesTyped
  BY <1>1, <1>2 DEF InputTyped, SurfacesTyped
<1>5. RuntimeTyped /\ ResultTyped
  <2>1. rt.queue = [s \in Stage |-> <<>>] /\ rt.ref = [s \in Stage |-> {}]
    BY <1>1
  <2>2. rt.queue \in [Stage -> Seq(Slot)] /\ rt.ref \in [Stage -> SUBSET Slot]
    BY <2>1
  <2>3. rt.task = None /\ rt.busy = 0 /\ rt.refuses = None
    BY <1>1
  <2>4. rt.busy \in 0..MaxBusy /\ rt.refuses \in Refusal \cup {None}
    <3>1. 0 \in 0..MaxBusy
      BY <1>2
    <3>2. rt.refuses \in Refusal \cup {None}
      BY <2>3
    <3> QED
      BY <2>3, <3>1, <3>2
  <2>5. RuntimeTyped
    BY <2>2, <2>3, <2>4 DEF RuntimeTyped
  <2>6. unhandled \in BOOLEAN /\ out = <<>>
    BY <1>1
  <2>7. out \in Seq(Frame)
    BY <2>6
  <2> QED
    BY <2>5, <2>6, <2>7 DEF ResultTyped
<1>6. ctl.pc = "setup" /\ surf.app = {} /\ rt.queue[1] = <<>> /\ rt.ref[1] = {} /\ ~HasTask
  BY <1>1, <1>2 DEF HasTask
<1>7. Delay["decode"] \in Nat
  BY DelayNumber
<1>8. DecoderKeeps
  BY <1>6, <1>7 DEF DecoderKeeps
<1>9. Returned
  BY <1>6 DEF Returned, StreamReturned, FramesReturned, ImportsReturned
<1>10. WorkThere
  BY <1>6 DEF WorkThere, InLoop
<1> QED
  BY <1>3, <1>4, <1>5, <1>8, <1>9, <1>10 DEF Typed, Surfaced

LEMMA SurfacedSuffices ==
    ASSUME Resources, Flow, Typed, Surfaced
    PROVE  SurfacesReturned
<1>1. TypeOK
  BY TypedSuffices
<1> SUFFICES ASSUME ~unhandled, ctl.pc \in {"load", "call"}
             PROVE  /\ ctl.pc = "load" /\ ~IsDraining => surf.app \subseteq Locked
                    /\ ctl.pc = "call" /\ P.reads = "frames" /\ ~NullInput => surf.given # None
                    /\ ctl.pc = "call" /\ P.surfaces = "pool" /\ Component # "encode" => surf.work # None
  BY <1>1 DEF SurfacesReturned
<1>2. Running
  BY DEF Running, InLoop
<1>3. Returned /\ WorkThere /\ Fields /\ Tasks /\ prog \in Programs /\ ctl.stage \in Stage /\ ctl.draining \in 0..2
  BY <1>2, AtWork DEF Surfaced, Fields, Typed, Control
<1>4. /\ Stages \in {1, 2} /\ Stage = 1..Stages /\ P.reads \in {"stream", "frames"}
      /\ P.reads = "frames" => Component # "decode"
  BY <1>3, StagesOfProgram DEF Component
<1>5. \A s \in Slot : s # None
  BY SlotNumbers, ExamplesAssumption
<1>6. ASSUME ctl.pc = "load", ~IsDraining
      PROVE  surf.app \subseteq Locked
  <2>1. ctl.draining = 0 /\ ~HasTask
    BY <1>3, <1>6 DEF IsDraining, HasTask
  <2>2. CASE P.reads = "stream"
    BY <1>3, <1>6, <2>1, <2>2 DEF Returned, StreamReturned, HeldOfStream
  <2>3. CASE P.reads = "frames" /\ P.release = "submit"
    BY <1>3, <1>6, <2>1, <2>3 DEF Returned, FramesReturned, HeldOfFrames
  <2>4. CASE P.reads = "frames" /\ P.release # "submit"
    <3>1. surf.app \subseteq ToSet(rt.queue[1]) \cup rt.ref[1]
      BY <1>3, <1>6, <2>1, <2>4 DEF Returned, ImportsReturned, HeldOfImports
    <3>2. 1 \in Stage
      BY <1>4
    <3> QED
      BY <3>1, <3>2, QueuesLocked
  <2> QED
    BY <1>4, <2>2, <2>3, <2>4
<1>7. ASSUME ctl.pc = "call", P.reads = "frames", ~NullInput
      PROVE  surf.given # None
  BY <1>3, <1>4, <1>5, <1>7 DEF Tasks, Carries
<1>8. ASSUME ctl.pc = "call", P.surfaces = "pool", Component # "encode"
      PROVE  surf.work # None
  <2>1. Stages = 1
    BY <1>3, <1>8, NamedProgram
  <2>2. ctl.stage = 1
    BY <1>3, <1>4, <2>1
  <2>3. P.stages[1] # "encode"
    BY <1>8, <2>2 DEF Component
  <2> QED
    BY <1>3, <1>5, <1>8, <2>3 DEF WorkThere, InLoop
<1> QED
  BY <1>6, <1>7, <1>8

\* While the runtime answers what the program handles, a program gives every
\* surface back before the next round of its loop, but for the ones that the
\* runtime works on, and always finds one for its input and its output: for any
\* number of frames, any delay, and as few surfaces as the components suggest.
THEOREM SurfacesGoBack == Spec => []SurfacesReturned
<1>1. Init => Resources /\ Flow /\ Typed /\ Surfaced
  BY InitFlows, InitSurfaced
<1>2. Resources /\ Flow /\ Typed /\ Surfaced /\ [Next]_vars => (Resources /\ Flow /\ Typed /\ Surfaced)'
  BY ResourcesKept, FlowKept, TypedKept, SurfacedKept
<1>3. Resources /\ Flow /\ Typed /\ Surfaced => SurfacesReturned
  BY SurfacedSuffices
<1> QED
  BY <1>1, <1>2, <1>3, PTL DEF Spec

=============================================================================
