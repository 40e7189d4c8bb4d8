--------------------------- MODULE MicInputProofs ---------------------------
(***************************************************************************)
(* Theorems about MicInput for every hop, every window at least as long,   *)
(* and every bound. The invariant is proved in parts, each inductive on    *)
(* its own or on top of DeviceInv:                                         *)
(*   DeviceInv     who holds PortAudio at each place of the owner          *)
(*   NoLostWakeup  inductive as it stands, given DeviceInv                 *)
(*   LateInv       where a window can still come from after a stop         *)
(*   StreamInv     what queue, buffer and window hold of the stream        *)
(*   RestInv       the types of what the others do not speak of            *)
(***************************************************************************)
EXTENDS MicInput, SequenceTheorems, TLAPS

(* Places between calls or inside ReadWindow: PortAudio is all or nothing. *)
Settled == {"idle"} \union Reading

DeviceInv ==
  /\ paReady \in BOOLEAN
  /\ stream \in {"null", "open", "invalid"}
  /\ paStream \in {"closed", "stopped", "active"}
  /\ pc \in Places
  /\ after \in {"idle", "delete"}
  /\ cb \in {"idle", "push", "notify"}
  /\ paInits = IF paReady THEN 1 ELSE 0
  /\ (stream = "open") <=> (paStream # "closed")
  /\ cb # "idle" => paStream = "active"
  /\ pc \in Settled =>
       /\ paReady <=> (paStream = "active")
       /\ paStream # "stopped" /\ stream # "invalid"
  /\ pc = "start.init" => ~paReady /\ stream = "null"
  /\ pc \in {"start.device", "start.open"} => paReady /\ stream = "null"
  /\ pc = "start.stream" => paReady /\ paStream = "stopped"
  /\ pc \in {"stop", "stop.stream"} => (stream # "null" => paReady)
  /\ pc = "stop.terminate" => stream = "null"
  /\ pc \in {"delete", "gone"} => ~paReady /\ stream = "null"

(* At each place of the owner, PortAudio is held exactly as far as Start,  *)
(* Stop or the destructor have got, whichever step of them has failed.     *)
THEOREM DeviceInvariant == Spec => []DeviceInv
<1>1. Init => DeviceInv
  BY DEF Init, DeviceInv, Settled, Places
<1>2. DeviceInv /\ [Next]_vars => DeviceInv'
  <2> SUFFICES ASSUME DeviceInv, [Next]_vars
               PROVE  DeviceInv'
    OBVIOUS
  <2> USE DEF DeviceInv, Settled, Places, Starting, Stopping, Reading,
              queueVars, windowVars, deviceVars
  <2>1. CASE Calls
    BY <2>1 DEF Calls, CallStart, CallStop, CallDestroy, CallReadWindow
  <2>2. CASE StartSteps
    <3>1. CASE PaInitialize
      <4>1. stream' = "null" /\ paStream' = "closed" /\ after' = after /\ cb' = "idle"
        BY <3>1 DEF PaInitialize
      <4>2. \/ paReady' = TRUE /\ paInits' = 1 /\ pc' = "start.device"
            \/ paReady' = FALSE /\ paInits' = 0 /\ pc' = "idle"
        BY <3>1 DEF PaInitialize
      <4>3. QED
        BY <4>1, <4>2
    <3>2. CASE OpenStream
      BY <3>2, OpenAssumption DEF OpenStream
    <3>3. CASE StartStream
      BY <3>3 DEF StartStream
    <3>4. CASE FindDevice
      BY <3>4 DEF FindDevice
    <3>5. QED
      BY <2>2, <3>1, <3>2, <3>3, <3>4 DEF StartSteps
  <2>3. CASE StopSteps
    <3>1. CASE StopStore
      BY <3>1 DEF StopStore
    <3>2. CASE StopStream
      BY <3>2 DEF StopStream
    <3>3. CASE StopTerminate
      <4>1. paInits' = 0 /\ paReady' = FALSE
        BY <3>3 DEF StopTerminate
      <4>2. stream' = "null" /\ paStream' = "closed" /\ cb' = "idle" /\ after' = after
        BY <3>3 DEF StopTerminate
      <4>3. pc' \in {"idle", "delete"}
        BY <3>3 DEF StopTerminate
      <4>4. QED
        BY <4>1, <4>2, <4>3
    <3>4. CASE Delete
      BY <3>4 DEF Delete
    <3>5. QED
      BY <2>3, <3>1, <3>2, <3>3, <3>4 DEF StopSteps
  <2>4. CASE ReadSteps \/ SpuriousWake
    BY <2>4 DEF ReadSteps, ReadCheck, PopChunk, TryTakeWindow, NoWindowYet, Slide,
                PopNothing, PopBlock, Wake, Timeout, SpuriousWake
  <2>5. CASE CallbackEnter \/ CallbackSteps
    BY <2>5 DEF CallbackEnter, CallbackSteps, CallbackPush, CallbackNotify
  <2>6. CASE OnSignal \/ Gone \/ UNCHANGED vars
    BY <2>6 DEF OnSignal, Gone, vars
  <2>7. QED
    BY <2>1, <2>2, <2>3, <2>4, <2>5, <2>6 DEF Next
<1>3. QED
  BY <1>1, <1>2, PTL DEF Spec

(* AudioCallback runs only on a started stream and an existing queue. *)
THEOREM CallbackSafe == Spec => []CallbackHasQueue
<1>1. DeviceInv => CallbackHasQueue
  BY DEF DeviceInv, CallbackHasQueue
<1>2. QED
  BY <1>1, DeviceInvariant, PTL

(* Start and Stop are all or nothing, on every failure path. *)
THEOREM DeviceReleased == Spec => []NoHalfOpenDevice
<1>1. DeviceInv => NoHalfOpenDevice
  BY DEF DeviceInv, NoHalfOpenDevice, Settled
<1>2. QED
  BY <1>1, DeviceInvariant, PTL
-----------------------------------------------------------------------------
(* A blocked owner with something to read is about to be woken. *)
THEOREM WakeupNotLost == Spec => []NoLostWakeup
<1>1. Init => NoLostWakeup
  BY DEF Init, NoLostWakeup
<1>2. NoLostWakeup /\ DeviceInv /\ [Next]_vars => NoLostWakeup'
  <2> SUFFICES ASSUME NoLostWakeup, DeviceInv, [Next]_vars
               PROVE  NoLostWakeup'
    OBVIOUS
  <2> USE DEF NoLostWakeup, queueVars, windowVars, deviceVars
  <2>1. CASE Calls
    BY <2>1 DEF Calls, CallStart, CallStop, CallDestroy, CallReadWindow
  <2>2. CASE StartSteps
    BY <2>2 DEF StartSteps, PaInitialize, FindDevice, OpenStream, StartStream
  <2>3. CASE StopSteps
    BY <2>3 DEF DeviceInv, StopSteps, StopStore, StopStream, StopTerminate, Delete
  <2>4. CASE ReadSteps \/ SpuriousWake
    BY <2>4 DEF ReadSteps, ReadCheck, PopChunk, TryTakeWindow, NoWindowYet, Slide,
                PopNothing, PopBlock, Wake, Timeout, SpuriousWake
  <2>5. CASE CallbackEnter \/ CallbackSteps
    BY <2>5 DEF CallbackEnter, CallbackSteps, CallbackPush, CallbackNotify
  <2>6. CASE OnSignal \/ Gone \/ UNCHANGED vars
    BY <2>6 DEF OnSignal, Gone, vars
  <2>7. QED
    BY <2>1, <2>2, <2>3, <2>4, <2>5, <2>6 DEF Next
<1>3. QED
  BY <1>1, <1>2, DeviceInvariant, PTL DEF Spec
-----------------------------------------------------------------------------
(* A late window can only come from a ReadWindow that had passed its loop  *)
(* condition when the stop was requested; none has been delivered yet      *)
(* while such a call is in progress.                                       *)
LateInv ==
  /\ lateWindows \in {0, 1}
  /\ running => lateWindows = 0
  /\ pc \in {"read.pop", "read.blocked", "read.timeout"} => lateWindows = 0

LEMMA LateHolds == Spec => []LateInv
<1>1. Init => LateInv
  BY DEF Init, LateInv
<1>2. LateInv /\ DeviceInv /\ [Next]_vars => LateInv'
  <2> SUFFICES ASSUME LateInv, DeviceInv, [Next]_vars
               PROVE  LateInv'
    OBVIOUS
  <2> USE DEF LateInv, queueVars, windowVars, deviceVars
  <2>1. CASE Calls
    BY <2>1 DEF Calls, CallStart, CallStop, CallDestroy, CallReadWindow
  <2>2. CASE StartSteps
    BY <2>2 DEF StartSteps, PaInitialize, FindDevice, OpenStream, StartStream
  <2>3. CASE StopSteps
    BY <2>3 DEF DeviceInv, StopSteps, StopStore, StopStream, StopTerminate, Delete
  <2>4. CASE ReadSteps \/ SpuriousWake
    BY <2>4 DEF ReadSteps, ReadCheck, PopChunk, TryTakeWindow, NoWindowYet, Slide,
                PopNothing, PopBlock, Wake, Timeout, SpuriousWake
  <2>5. CASE CallbackEnter \/ CallbackSteps
    BY <2>5 DEF CallbackEnter, CallbackSteps, CallbackPush, CallbackNotify
  <2>6. CASE OnSignal \/ Gone \/ UNCHANGED vars
    BY <2>6 DEF OnSignal, Gone, vars
  <2>7. QED
    BY <2>1, <2>2, <2>3, <2>4, <2>5, <2>6 DEF Next
<1>3. QED
  BY <1>1, <1>2, DeviceInvariant, PTL DEF Spec

(* At most one window is delivered after a stop request. *)
THEOREM LateWindowBound == Spec => []AtMostOneLateWindow
<1>1. LateInv => AtMostOneLateWindow
  BY DEF LateInv, AtMostOneLateWindow
<1>2. QED
  BY <1>1, LateHolds, PTL
-----------------------------------------------------------------------------
(* Spans of the stream: their length and their samples, ... *)
LEMMA SpanProperties ==
  ASSUME NEW a \in Nat, NEW b \in Nat, a <= b + 1
  PROVE  /\ Span(a, b) \in Seq(Nat)
         /\ Len(Span(a, b)) = b - a + 1
         /\ \A i \in 1 .. b - a + 1 : Span(a, b)[i] = a + i - 1
<1>1. b - a + 1 \in Nat
  OBVIOUS
<1>2. \A i \in 1 .. b - a + 1 : a + i - 1 \in Nat
  OBVIOUS
<1>3. QED
  BY <1>1, <1>2 DEF Span

(* ... a sequence is a span when it has its length and its samples, ...    *)
LEMMA SpanFromSamples ==
  ASSUME NEW a \in Nat, NEW b \in Nat, a <= b + 1, NEW s \in Seq(Nat),
         Len(s) = b - a + 1, \A i \in 1 .. Len(s) : s[i] = a + i - 1
  PROVE  s = Span(a, b)
<1>1. s = [i \in 1 .. b - a + 1 |-> s[i]]
  OBVIOUS
<1>2. QED
  BY <1>1 DEF Span

(* ... two that meet make one, ... *)
LEMMA SpanJoin ==
  ASSUME NEW a \in Nat, NEW b \in Nat, NEW c \in Nat, a <= b + 1, b <= c
  PROVE  Span(a, b) \o Span(b + 1, c) = Span(a, c)
<1> DEFINE s == Span(a, b) \o Span(b + 1, c)
<1>1. /\ Span(a, b) \in Seq(Nat) /\ Len(Span(a, b)) = b - a + 1
      /\ \A i \in 1 .. b - a + 1 : Span(a, b)[i] = a + i - 1
  BY SpanProperties
<1>2. /\ Span(b + 1, c) \in Seq(Nat) /\ Len(Span(b + 1, c)) = c - b
      /\ \A i \in 1 .. c - b : Span(b + 1, c)[i] = b + i
  <2>1. b + 1 \in Nat /\ b + 1 <= c + 1 /\ c - (b + 1) + 1 = c - b
    OBVIOUS
  <2>2. /\ Span(b + 1, c) \in Seq(Nat) /\ Len(Span(b + 1, c)) = c - (b + 1) + 1
        /\ \A i \in 1 .. c - (b + 1) + 1 : Span(b + 1, c)[i] = (b + 1) + i - 1
    BY <2>1, SpanProperties
  <2>3. QED
    BY <2>1, <2>2
<1> DEFINE A == Span(a, b)
           B == Span(b + 1, c)
<1>3. /\ s \in Seq(Nat) /\ Len(s) = Len(A) + Len(B)
      /\ \A i \in 1 .. Len(A) + Len(B) : s[i] = IF i <= Len(A) THEN A[i] ELSE B[i - Len(A)]
  BY <1>1, <1>2, ConcatProperties
<1>4. /\ Len(A) = b - a + 1 /\ Len(B) = c - b
      /\ \A i \in 1 .. b - a + 1 : A[i] = a + i - 1
      /\ \A i \in 1 .. c - b : B[i] = b + i
  BY <1>1, <1>2
<1> HIDE DEF s, A, B
<1>5. Len(s) = c - a + 1
  BY <1>3, <1>4
<1>6. ASSUME NEW i \in 1 .. Len(s)
      PROVE  s[i] = a + i - 1
  <2>1. i \in 1 .. Len(A) + Len(B)
    BY <1>3
  <2>2. CASE i <= b - a + 1
    <3>1. i \in 1 .. b - a + 1
      BY <2>1, <2>2
    <3>2. s[i] = A[i]
      BY <1>3, <1>4, <2>1, <2>2
    <3>3. QED
      BY <1>4, <3>1, <3>2
  <2>3. CASE i > b - a + 1
    <3>1. i - (b - a + 1) \in 1 .. c - b
      BY <1>4, <2>1, <2>3
    <3>2. s[i] = B[i - (b - a + 1)]
      BY <1>3, <1>4, <2>1, <2>3
    <3>3. b + (i - (b - a + 1)) = a + i - 1
      BY <2>1
    <3>4. QED
      BY <1>4, <3>1, <3>2, <3>3
  <2>4. QED
    BY <2>1, <2>2, <2>3
<1>7. s = Span(a, c)
  <2>1. a <= c + 1 /\ s \in Seq(Nat) /\ Len(s) = c - a + 1
    BY <1>3, <1>5
  <2>2. QED
    BY <1>6, <2>1, SpanFromSamples
<1>8. QED
  BY <1>7 DEF s

(* ... and the last samples of one are one. *)
LEMMA SpanLast ==
  ASSUME NEW a \in Nat, NEW b \in Nat, NEW n \in Nat, a <= b + 1, n <= b - a + 1
  PROVE  Last(Span(a, b), n) = Span(b - n + 1, b)
<1> DEFINE s == Last(Span(a, b), n)
<1>1. /\ Span(a, b) \in Seq(Nat) /\ Len(Span(a, b)) = b - a + 1
      /\ \A i \in 1 .. b - a + 1 : Span(a, b)[i] = a + i - 1
  BY SpanProperties
<1>2. s = SubSeq(Span(a, b), (b - a + 1) - n + 1, b - a + 1)
  BY <1>1 DEF Last
<1>3. s = [i \in 1 .. n |-> Span(a, b)[i + (b - a + 1) - n]]
  BY <1>1, <1>2
<1>4. s = [i \in 1 .. n |-> (b - n + 1) + i - 1]
  <2>1. \A i \in 1 .. n : Span(a, b)[i + (b - a + 1) - n] = (b - n + 1) + i - 1
    BY <1>1
  <2>2. QED
    BY <1>3, <2>1
<1>5. b - (b - n + 1) + 1 = n
  OBVIOUS
<1>6. QED
  BY <1>4, <1>5 DEF Span

(* What queue, buffer and window hold of the stream: StreamIntact, and how *)
(* much of it is in the buffer before and after the first window.          *)
StreamInv ==
  /\ captured \in Nat /\ consumed \in Nat
  /\ chunks \in Seq(Seq(Nat))
  /\ captured = consumed + Len(chunks) * HopSamples
  /\ \A i \in 1 .. Len(chunks) :
       chunks[i] = Span(consumed + (i - 1) * HopSamples + 1, consumed + i * HopSamples)
  /\ Len(buffer) \in 0 .. consumed
  /\ buffer = Span(consumed - Len(buffer) + 1, consumed)
  /\ IF window = <<>>
     THEN Len(buffer) = consumed /\ consumed < WindowSamples
     ELSE /\ Len(buffer) = WindowSamples - HopSamples
          /\ Len(window) = WindowSamples
          /\ window[WindowSamples] = consumed

(* The chunk at the head of the queue continues the buffer. *)
LEMMA HeadContinues ==
  ASSUME StreamInv, chunks # <<>>
  PROVE  /\ Len(Head(chunks)) = HopSamples
         /\ consumed + HopSamples <= captured
         /\ buffer \o Head(chunks) = Span(consumed - Len(buffer) + 1, consumed + HopSamples)
         /\ Len(buffer \o Head(chunks)) = Len(buffer) + HopSamples
<1>0. /\ HopSamples \in Nat /\ HopSamples > 0 /\ consumed \in Nat /\ captured \in Nat
      /\ Len(buffer) \in 0 .. consumed
      /\ chunks \in Seq(Seq(Nat)) /\ Len(chunks) \in Nat
  BY HopAssumption DEF StreamInv
<1>1. Len(chunks) >= 1 /\ 1 \in 1 .. Len(chunks) /\ Head(chunks) = chunks[1]
  BY <1>0
<1>2. Head(chunks) = Span(consumed + 1, consumed + HopSamples)
  <2>1. chunks[1] = Span(consumed + (1 - 1) * HopSamples + 1, consumed + 1 * HopSamples)
    BY <1>1 DEF StreamInv
  <2>2. consumed + (1 - 1) * HopSamples + 1 = consumed + 1
        /\ consumed + 1 * HopSamples = consumed + HopSamples
    BY <1>0
  <2>3. QED
    BY <1>1, <2>1, <2>2
<1>3. PICK d \in Nat : Len(chunks) = 1 + d
  <2>1. Len(chunks) - 1 \in Nat /\ Len(chunks) = 1 + (Len(chunks) - 1)
    BY <1>0, <1>1
  <2>2. QED
    BY <2>1
<1>4. consumed + HopSamples <= captured
  <2>1. (1 + d) * HopSamples = HopSamples + d * HopSamples
    BY <1>0
  <2>2. d * HopSamples \in Int /\ d * HopSamples >= 0
    BY <1>0
  <2>3. captured = consumed + Len(chunks) * HopSamples
    BY DEF StreamInv
  <2>4. QED
    BY <1>0, <1>3, <2>1, <2>2, <2>3
<1>5. Len(Head(chunks)) = HopSamples
  <2> DEFINE a == consumed + 1
             b == consumed + HopSamples
  <2>1. a \in Nat /\ b \in Nat /\ a <= b + 1 /\ b - a + 1 = HopSamples
    BY <1>0
  <2>2. Head(chunks) = Span(a, b)
    BY <1>2
  <2> HIDE DEF a, b
  <2>3. QED
    BY <2>1, <2>2, SpanProperties
<1>6. buffer \o Head(chunks) = Span(consumed - Len(buffer) + 1, consumed + HopSamples)
  <2>1. /\ consumed - Len(buffer) + 1 \in Nat /\ consumed + HopSamples \in Nat
        /\ consumed - Len(buffer) + 1 <= consumed + 1
        /\ consumed <= consumed + HopSamples
    BY <1>0
  <2>2. buffer = Span(consumed - Len(buffer) + 1, consumed)
    BY DEF StreamInv
  <2>3. Span(consumed - Len(buffer) + 1, consumed) \o Span(consumed + 1, consumed + HopSamples)
        = Span(consumed - Len(buffer) + 1, consumed + HopSamples)
    BY <1>0, <2>1, SpanJoin
  <2>4. QED
    BY <1>2, <2>2, <2>3
<1>7. Len(buffer \o Head(chunks)) = Len(buffer) + HopSamples
  <2> DEFINE a == consumed - Len(buffer) + 1
             b == consumed + HopSamples
  <2>1. a \in Nat /\ b \in Nat /\ a <= b + 1 /\ b - a + 1 = Len(buffer) + HopSamples
    BY <1>0
  <2>2. buffer \o Head(chunks) = Span(a, b)
    BY <1>6
  <2> HIDE DEF a, b
  <2>3. QED
    BY <2>1, <2>2, SpanProperties
<1>8. QED
  BY <1>4, <1>5, <1>6, <1>7

(* Taking the head of the queue leaves the rest of it in order.            *)
LEMMA TailContinues ==
  ASSUME StreamInv, chunks # <<>>
  PROVE  /\ Tail(chunks) \in Seq(Seq(Nat))
         /\ captured = (consumed + HopSamples) + Len(Tail(chunks)) * HopSamples
         /\ \A i \in 1 .. Len(Tail(chunks)) :
              Tail(chunks)[i] = Span((consumed + HopSamples) + (i - 1) * HopSamples + 1,
                                     (consumed + HopSamples) + i * HopSamples)
<1>0. /\ HopSamples \in Nat /\ consumed \in Nat /\ captured \in Nat
      /\ chunks \in Seq(Seq(Nat)) /\ Len(chunks) \in Nat
  BY HopAssumption DEF StreamInv
<1>1. /\ Tail(chunks) \in Seq(Seq(Nat)) /\ Len(Tail(chunks)) = Len(chunks) - 1
      /\ \A i \in 1 .. Len(chunks) - 1 : Tail(chunks)[i] = chunks[i + 1]
  BY <1>0
<1>2. captured = (consumed + HopSamples) + Len(Tail(chunks)) * HopSamples
  <2>1. captured = consumed + Len(chunks) * HopSamples
    BY DEF StreamInv
  <2>2. (Len(chunks) - 1) * HopSamples = Len(chunks) * HopSamples - HopSamples
    BY <1>0
  <2>3. Len(chunks) * HopSamples \in Int
    BY <1>0
  <2>4. QED
    BY <1>0, <1>1, <2>1, <2>2, <2>3
<1>3. ASSUME NEW i \in 1 .. Len(Tail(chunks))
      PROVE  Tail(chunks)[i] = Span((consumed + HopSamples) + (i - 1) * HopSamples + 1,
                                    (consumed + HopSamples) + i * HopSamples)
  <2>1. i \in 1 .. Len(chunks) - 1 /\ i + 1 \in 1 .. Len(chunks)
    BY <1>0, <1>1
  <2>2. chunks[i + 1] = Span(consumed + ((i + 1) - 1) * HopSamples + 1,
                             consumed + (i + 1) * HopSamples)
    BY <2>1 DEF StreamInv
  <2>3. /\ consumed + ((i + 1) - 1) * HopSamples + 1
            = (consumed + HopSamples) + (i - 1) * HopSamples + 1
        /\ consumed + (i + 1) * HopSamples = (consumed + HopSamples) + i * HopSamples
    BY <1>0, <2>1
  <2>4. QED
    BY <1>1, <2>1, <2>2, <2>3
<1>4. QED
  BY <1>1, <1>2, <1>3

(* PopChunk keeps the stream in order, and the window it takes, if any, is *)
(* the one that was promised.                                              *)
LEMMA PopKeepsStream ==
  ASSUME StreamInv, PopChunk
  PROVE  /\ StreamInv'
         /\ Promise!Deliver \/ UNCHANGED <<captured, window>>
<1> DEFINE buf == buffer \o Head(chunks)
           a == consumed - Len(buffer) + 1
           c == consumed + HopSamples
<1>0. /\ HopSamples \in Nat /\ HopSamples > 0
      /\ WindowSamples \in Nat /\ HopSamples <= WindowSamples
      /\ consumed \in Nat /\ captured \in Nat /\ Len(buffer) \in 0 .. consumed
  BY HopAssumption DEF StreamInv
<1>1. /\ chunks # <<>> /\ chunks' = Tail(chunks) /\ captured' = captured
      /\ consumed' = consumed + Len(Head(chunks)) /\ TryTakeWindow(buf)
  BY DEF PopChunk
<1>2. /\ Len(Head(chunks)) = HopSamples /\ c <= captured
      /\ buf = Span(a, c) /\ Len(buf) = Len(buffer) + HopSamples
  BY <1>1, HeadContinues
<1>3. /\ a \in Nat /\ c \in Nat /\ a <= c + 1 /\ c - a + 1 = Len(buf)
      /\ a = c - Len(buf) + 1 /\ Len(buf) \in 0 .. c
  <2> HIDE DEF buf
  <2>1. QED
    BY <1>0, <1>2
<1>4. /\ chunks' \in Seq(Seq(Nat)) /\ consumed' = c
      /\ captured = c + Len(chunks') * HopSamples
      /\ \A i \in 1 .. Len(chunks') :
           chunks'[i] = Span(c + (i - 1) * HopSamples + 1, c + i * HopSamples)
  BY <1>1, <1>2, TailContinues
<1>5. IF window = <<>>
      THEN Len(buffer) = consumed /\ consumed < WindowSamples
      ELSE /\ Len(buffer) = WindowSamples - HopSamples
           /\ Len(window) = WindowSamples
           /\ window[WindowSamples] = consumed
  BY DEF StreamInv
<1>6. CASE Len(buf) < WindowSamples
  <2>1. buffer' = buf /\ window' = window
    BY <1>1, <1>6 DEF TryTakeWindow, NoWindowYet, Slide
  <2>2. window = <<>> /\ Len(buf) = c
    <3> HIDE DEF buf
    <3>1. Len(buf) = Len(buffer) + HopSamples /\ Len(buf) < WindowSamples
      BY <1>2, <1>6
    <3>2. Len(buffer) # WindowSamples - HopSamples
      BY <1>0, <3>1
    <3>3. window = <<>> /\ Len(buffer) = consumed
      BY <1>5, <3>2
    <3>4. QED
      BY <1>0, <3>1, <3>3
  <2>3. Len(buffer') = c /\ c < WindowSamples /\ window' = <<>>
    BY <1>6, <2>1, <2>2
  <2>4. buffer' = Span(consumed' - Len(buffer') + 1, consumed')
    BY <1>2, <1>3, <1>4, <2>1
  <2>5. Len(buffer') \in 0 .. consumed' /\ consumed' \in Nat /\ captured' \in Nat
    <3>1. captured' = captured /\ consumed' = c /\ c \in Nat
      BY <1>1, <1>3, <1>4
    <3> HIDE DEF c
    <3>2. QED
      BY <1>0, <2>3, <3>1
  <2>6. StreamInv'
    BY <1>1, <1>4, <2>3, <2>4, <2>5 DEF StreamInv
  <2>7. QED
    BY <1>1, <2>1, <2>6
<1>7. CASE ~(Len(buf) < WindowSamples)
  <2>0. WindowSamples <= Len(buf)
    BY <1>0, <1>3, <1>7
  <2>1. window' = Last(buf, WindowSamples) /\ buffer' = Last(buf, WindowSamples - HopSamples)
    BY <1>1, <1>7 DEF TryTakeWindow, NoWindowYet, Slide
  <2>2. WindowSamples - HopSamples \in Nat /\ WindowSamples - HopSamples <= Len(buf)
    BY <1>0, <2>0
  <2>3. /\ window' = Span(c - WindowSamples + 1, c)
        /\ buffer' = Span(c - (WindowSamples - HopSamples) + 1, c)
    <3> HIDE DEF a, c, buf
    <3>1. Last(Span(a, c), WindowSamples) = Span(c - WindowSamples + 1, c)
      BY <1>0, <1>3, <2>0, SpanLast
    <3>2. Last(Span(a, c), WindowSamples - HopSamples) = Span(c - (WindowSamples - HopSamples) + 1, c)
      BY <1>3, <2>2, SpanLast
    <3>3. QED
      BY <1>2, <2>1, <3>1, <3>2
  <2>4. /\ Len(window') = WindowSamples /\ window'[WindowSamples] = c
    <3> DEFINE b == c - WindowSamples + 1
    <3>1. /\ b \in Nat /\ b <= c + 1 /\ c - b + 1 = WindowSamples
          /\ b + WindowSamples - 1 = c /\ WindowSamples \in 1 .. WindowSamples
      BY <1>0, <1>3, <2>0
    <3>2. window' = Span(b, c)
      BY <2>3
    <3> HIDE DEF a, b, c, buf
    <3>3. QED
      BY <1>3, <3>1, <3>2, SpanProperties
  <2>5. Len(buffer') = WindowSamples - HopSamples
    <3> DEFINE b == c - (WindowSamples - HopSamples) + 1
    <3>1. b \in Nat /\ b <= c + 1 /\ c - b + 1 = WindowSamples - HopSamples
      BY <1>0, <1>3, <2>2
    <3>2. buffer' = Span(b, c)
      BY <2>3
    <3> HIDE DEF a, b, c, buf
    <3>3. QED
      BY <1>3, <3>1, <3>2, SpanProperties
  <2>6. window' # <<>>
    BY <1>0, <2>4
  <2>7. buffer' = Span(consumed' - Len(buffer') + 1, consumed')
    BY <1>4, <2>3, <2>5
  <2>8. Len(buffer') \in 0 .. consumed' /\ consumed' \in Nat /\ captured' \in Nat
    <3>1. WindowSamples - HopSamples \in 0 .. c
      <4> HIDE DEF a, c, buf
      <4>1. QED
        BY <1>0, <1>3, <2>2
    <3>2. QED
      BY <1>0, <1>1, <1>3, <1>4, <2>5, <3>1
  <2>9. StreamInv'
    BY <1>1, <1>4, <2>4, <2>5, <2>6, <2>7, <2>8 DEF StreamInv
  <2>10. c \in Promise!NextEnds
    <3>1. CASE window = <<>>
      <4>1. c \in WindowSamples .. (WindowSamples + HopSamples - 1)
        BY <1>0, <1>2, <1>3, <1>5, <2>0, <3>1
      <4>2. QED
        BY <3>1, <4>1 DEF Promise!NextEnds
    <3>2. CASE window # <<>>
      BY <1>5, <3>2 DEF Promise!NextEnds
    <3>3. QED
      BY <3>1, <3>2
  <2>11. Promise!Deliver
    <3>1. window' = Promise!Span(c - WindowSamples + 1, c)
      BY <2>3 DEF Promise!Span, Span
    <3>2. QED
      BY <1>1, <1>2, <2>10, <3>1 DEF Promise!Deliver
  <2>12. QED
    BY <2>9, <2>11
<1>8. QED
  BY <1>6, <1>7

(* The callback's chunk continues the queue.                               *)
LEMMA PushKeepsStream ==
  ASSUME StreamInv, CallbackPush
  PROVE  StreamInv' /\ Promise!Capture
<1> DEFINE n == Len(chunks)
           new == Span(captured + 1, captured + HopSamples)
<1>0. /\ HopSamples \in Nat /\ consumed \in Nat /\ captured \in Nat
      /\ chunks \in Seq(Seq(Nat)) /\ n \in Nat
      /\ captured = consumed + n * HopSamples
  BY HopAssumption DEF StreamInv
<1>1. /\ chunks' = Append(chunks, new) /\ captured' = captured + HopSamples
      /\ UNCHANGED <<consumed, buffer, window>>
  BY DEF CallbackPush, windowVars
<1>2. new \in Seq(Nat)
  <2> DEFINE a == captured + 1
             b == captured + HopSamples
  <2>1. a \in Nat /\ b \in Nat /\ a <= b + 1
    BY <1>0
  <2>2. new = Span(a, b)
    OBVIOUS
  <2> HIDE DEF a, b, new
  <2>3. QED
    BY <2>1, <2>2, SpanProperties
<1> HIDE DEF new
<1>3. /\ chunks' \in Seq(Seq(Nat)) /\ Len(chunks') = n + 1
      /\ \A i \in 1 .. n : chunks'[i] = chunks[i]
      /\ chunks'[n + 1] = new
  BY <1>0, <1>1, <1>2, AppendProperties
<1>4. n * HopSamples \in Int /\ (n + 1) * HopSamples = n * HopSamples + HopSamples
  BY <1>0
<1>5. captured' \in Nat /\ captured' = consumed' + Len(chunks') * HopSamples
  BY <1>0, <1>1, <1>3, <1>4
<1>6. ASSUME NEW i \in 1 .. Len(chunks')
      PROVE  chunks'[i] = Span(consumed' + (i - 1) * HopSamples + 1, consumed' + i * HopSamples)
  <2>1. CASE i \in 1 .. n
    <3>1. chunks[i] = Span(consumed + (i - 1) * HopSamples + 1, consumed + i * HopSamples)
      BY <2>1 DEF StreamInv
    <3>2. QED
      BY <1>1, <1>3, <2>1, <3>1
  <2>2. CASE i = n + 1
    <3>1. consumed + (i - 1) * HopSamples + 1 = captured + 1
          /\ consumed + i * HopSamples = captured + HopSamples
      BY <1>0, <1>4, <2>2
    <3>2. QED
      BY <1>1, <1>3, <2>2, <3>1 DEF new
  <2>3. QED
    BY <1>0, <1>3, <2>1, <2>2
<1>7. StreamInv'
  BY <1>1, <1>3, <1>5, <1>6 DEF StreamInv
<1>8. QED
  BY <1>1, <1>7 DEF Promise!Capture

(* Every other step leaves the stream alone.                               *)
LEMMA OthersKeepStream ==
  ASSUME [Next]_vars, ~PopChunk, ~CallbackPush
  PROVE  UNCHANGED <<chunks, captured, consumed, buffer, window>>
<1> USE DEF queueVars, windowVars, deviceVars
<1>1. CASE Calls
  BY <1>1 DEF Calls, CallStart, CallStop, CallDestroy, CallReadWindow
<1>2. CASE StartSteps \/ StopSteps
  BY <1>2 DEF StartSteps, PaInitialize, FindDevice, OpenStream, StartStream,
              StopSteps, StopStore, StopStream, StopTerminate, Delete
<1>3. CASE ReadSteps \/ SpuriousWake
  BY <1>3 DEF ReadSteps, ReadCheck, PopNothing, PopBlock, Wake, Timeout, SpuriousWake
<1>4. CASE CallbackEnter \/ CallbackSteps \/ OnSignal \/ Gone \/ UNCHANGED vars
  BY <1>4 DEF CallbackEnter, CallbackSteps, CallbackNotify, OnSignal, Gone, vars
<1>5. QED
  BY <1>1, <1>2, <1>3, <1>4 DEF Next

(* Nothing has been captured at first. *)
LEMMA StreamStarts == Init => StreamInv /\ Promise!Init
<1> SUFFICES ASSUME Init
             PROVE  StreamInv /\ Promise!Init
  OBVIOUS
<1>1. chunks = <<>> /\ buffer = <<>> /\ window = <<>> /\ captured = 0 /\ consumed = 0
  BY DEF Init
<1>2. Span(1, 0) = <<>>
  BY DEF Span
<1>3. Len(chunks) = 0 /\ Len(buffer) = 0
  BY <1>1
<1>4. WindowSamples > 0 /\ WindowSamples \in Nat /\ 0 * HopSamples = 0
  BY HopAssumption
<1>5. QED
  BY <1>1, <1>2, <1>3, <1>4 DEF StreamInv, Promise!Init

(* Every step keeps the stream in order, and is a capture, the delivery of *)
(* the next window, or nothing to the caller.                              *)
LEMMA StreamKept ==
  StreamInv /\ [Next]_vars => StreamInv' /\ [Promise!Next]_Promise!vars
<1> SUFFICES ASSUME StreamInv, [Next]_vars
             PROVE  StreamInv' /\ [Promise!Next]_Promise!vars
  OBVIOUS
<1>1. CASE PopChunk
  BY <1>1, PopKeepsStream DEF Promise!Next, Promise!vars
<1>2. CASE CallbackPush
  BY <1>2, PushKeepsStream DEF Promise!Next, Promise!vars
<1>3. CASE ~PopChunk /\ ~CallbackPush
  <2>1. UNCHANGED <<chunks, captured, consumed, buffer, window>>
    BY <1>3, OthersKeepStream
  <2>2. QED
    BY <2>1 DEF StreamInv, Promise!vars
<1>4. QED
  BY <1>1, <1>2, <1>3

(* No sample is lost, repeated or reordered on its way to the buffer.      *)
THEOREM NothingLost == Spec => []StreamIntact
<1>1. StreamInv => StreamIntact
  BY DEF StreamInv, StreamIntact
<1>2. QED
  BY <1>1, StreamStarts, StreamKept, PTL DEF Spec

(* MicInput implements WindowStream: each window is the one before moved   *)
(* by one hop, for every hop and every window at least as long.            *)
THEOREM WindowsKept == Spec => WindowsPromised
BY StreamStarts, StreamKept, PTL DEF Spec, WindowsPromised, Promise!Spec

(* The window and the counters that no other invariant speaks of.          *)
RestInv ==
  /\ running \in BOOLEAN /\ notified \in BOOLEAN
  /\ starts \in Nat /\ window \in Seq(Nat)

LEMMA WindowIsSamples ==
  ASSUME StreamInv, RestInv, PopChunk
  PROVE  window' \in Seq(Nat)
<1> DEFINE buf == buffer \o Head(chunks)
<1>1. WindowSamples \in Nat /\ HopSamples \in Nat /\ consumed \in Nat /\ Len(buffer) \in 0 .. consumed
  BY HopAssumption DEF StreamInv
<1>2. buf \in Seq(Nat)
  <2>1. buf = Span(consumed - Len(buffer) + 1, consumed + HopSamples)
    BY HeadContinues DEF PopChunk
  <2>2. /\ consumed - Len(buffer) + 1 \in Nat /\ consumed + HopSamples \in Nat
        /\ consumed - Len(buffer) + 1 <= (consumed + HopSamples) + 1
    BY <1>1
  <2>3. QED
    BY <2>1, <2>2, SpanProperties
<1>3. TryTakeWindow(buf)
  BY DEF PopChunk
<1> HIDE DEF buf
<1>4. CASE Len(buf) < WindowSamples
  BY <1>3, <1>4 DEF TryTakeWindow, NoWindowYet, RestInv
<1>5. CASE ~(Len(buf) < WindowSamples)
  <2>1. window' = Last(buf, WindowSamples)
    BY <1>3, <1>5 DEF TryTakeWindow, Slide
  <2>2. WindowSamples <= Len(buf) /\ Len(buf) \in Nat
    BY <1>1, <1>2, <1>5
  <2>3. \A i \in Len(buf) - WindowSamples + 1 .. Len(buf) : buf[i] \in Nat
    BY <1>1, <1>2, <2>2
  <2>4. SubSeq(buf, Len(buf) - WindowSamples + 1, Len(buf)) \in Seq(Nat)
    BY <1>1, <1>2, <2>2, <2>3, SubSeqProperties
  <2>5. QED
    BY <2>1, <2>4 DEF Last
<1>6. QED
  BY <1>4, <1>5

(* Every variable keeps its type, and Pa_Terminate is never called more    *)
(* often than Pa_Initialize succeeded.                                     *)
THEOREM TypeCorrect == Spec => []TypeOK
<1>1. Init => RestInv
  <2> SUFFICES ASSUME Init PROVE RestInv
    OBVIOUS
  <2>1. running = TRUE /\ notified = FALSE /\ starts = 0 /\ window = <<>>
    BY DEF Init
  <2>2. <<>> \in Seq(Nat)
    OBVIOUS
  <2>3. QED
    BY <2>1, <2>2 DEF RestInv
<1>2. StreamInv /\ DeviceInv /\ RestInv /\ [Next]_vars => RestInv'
  <2> SUFFICES ASSUME StreamInv, DeviceInv, RestInv, [Next]_vars
               PROVE  RestInv'
    OBVIOUS
  <2> USE DEF queueVars, windowVars, deviceVars
  <2>1. CASE Calls
    <3>1. /\ UNCHANGED <<notified, window>>
          /\ \/ starts' = starts + 1 /\ running' = TRUE
             \/ UNCHANGED <<starts, running>>
      BY <2>1 DEF Calls, CallStart, CallStop, CallDestroy, CallReadWindow
    <3>2. starts' \in Nat
      BY <3>1 DEF RestInv
    <3>3. running' \in BOOLEAN
      BY <3>1, Zenon DEF RestInv
    <3>4. QED
      BY <3>1, <3>2, <3>3 DEF RestInv
  <2>2. CASE StartSteps \/ StopSteps
    BY <2>2 DEF RestInv, StartSteps, PaInitialize, FindDevice, OpenStream, StartStream,
                StopSteps, StopStore, StopStream, StopTerminate, Delete
  <2>3. CASE PopChunk
    <3>1. UNCHANGED <<running, notified, starts>>
      BY <2>3 DEF PopChunk
    <3>2. QED
      BY <2>3, <3>1, WindowIsSamples DEF RestInv
  <2>4. CASE (ReadSteps /\ ~PopChunk) \/ SpuriousWake
    BY <2>4 DEF RestInv, ReadSteps, ReadCheck, PopNothing, PopBlock, Wake, Timeout, SpuriousWake
  <2>5. CASE CallbackEnter \/ CallbackSteps \/ OnSignal \/ Gone \/ UNCHANGED vars
    BY <2>5 DEF RestInv, CallbackEnter, CallbackSteps, CallbackPush, CallbackNotify, OnSignal,
                Gone, vars
  <2> HIDE DEF queueVars, windowVars, deviceVars
  <2>6. QED
    BY <2>1, <2>2, <2>3, <2>4, <2>5 DEF Next
<1>3. StreamInv => buffer \in Seq(Nat)
  <2> SUFFICES ASSUME StreamInv PROVE buffer \in Seq(Nat)
    OBVIOUS
  <2>1. /\ consumed - Len(buffer) + 1 \in Nat /\ consumed \in Nat
        /\ consumed - Len(buffer) + 1 <= consumed + 1
    BY DEF StreamInv
  <2>2. buffer = Span(consumed - Len(buffer) + 1, consumed)
    BY DEF StreamInv
  <2>3. QED
    BY <2>1, <2>2, SpanProperties
<1>4. StreamInv /\ DeviceInv /\ RestInv /\ LateInv => TypeOK
  BY <1>3 DEF StreamInv, DeviceInv, RestInv, LateInv, TypeOK
<1>5. QED
  BY <1>1, <1>2, <1>4, StreamStarts, StreamKept, DeviceInvariant, LateHolds, PTL DEF Spec
=============================================================================
