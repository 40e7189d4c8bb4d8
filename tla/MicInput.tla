------------------------------ MODULE MicInput ------------------------------
(***************************************************************************)
(* mic_input.cc: the PortAudio callback thread queues chunks of samples,   *)
(* the owner thread turns them into overlapping windows, and a signal      *)
(* handler may ask for a stop between any two steps.                       *)
(*                                                                         *)
(* Actors                                                                  *)
(*   owner     the thread that calls Start, ReadWindow, Stop and the       *)
(*             destructor; pc is the place it has reached                  *)
(*   callback  PortAudio's thread inside AudioCallback; cb is its place    *)
(*   signal    SIGINT or SIGTERM, handled by OnSignal                      *)
(*                                                                         *)
(* A sample is its position in the captured stream (1, 2, 3, ...), so a    *)
(* lost, repeated or reordered sample is visible wherever it surfaces.     *)
(* The two critical sections of AudioQueue contain no blocking call but    *)
(* the condition variable's wait, so each is one step here.                *)
(***************************************************************************)
EXTENDS Integers, Sequences

CONSTANTS
  HopSamples,         \* hop_samples_, also framesPerBuffer of the stream
  WindowSamples,      \* window_samples_
  FailedOpenLeaves,   \* what a failed Pa_OpenStream may leave in the pointer
  MaxCaptured,        \* bound: samples captured in a behaviour
  MaxStarts           \* bound: calls of Start

(* A window keeps WindowSamples - HopSamples samples of the previous one:  *)
(* the code computes that difference as an iterator offset.                *)
ASSUME HopAssumption ==
  /\ HopSamples \in Nat \ {0}
  /\ WindowSamples \in Nat
  /\ HopSamples <= WindowSamples

(* portaudio.h calls the pointer invalid after a failed open; it may also  *)
(* be the null pointer that was there before.                              *)
ASSUME OpenAssumption == FailedOpenLeaves \subseteq {"null", "invalid"}

ASSUME BoundAssumption == MaxCaptured \in Nat /\ MaxStarts \in Nat

VARIABLES
  running,      \* g_running
  chunks,       \* AudioQueue::chunks_
  notified,     \* the blocked owner has been notified and not yet woken
  buffer,       \* Impl::buffer
  window,       \* the window ReadWindow filled last, <<>> before the first
  stream,       \* Impl::stream: "null", "open", or "invalid"
  paReady,      \* Impl::portaudio_ready
  pc,           \* the owner's place
  after,        \* where the owner goes when the Stop it is in ends
  cb,           \* the callback's place
  starts,       \* calls of Start so far
  paStream,     \* PortAudio's own view of the stream
  paInits,      \* Pa_Initialize calls not yet matched by Pa_Terminate
  captured,     \* history: samples queued so far
  consumed,     \* history: samples moved from the queue to buffer so far
  lateWindows   \* history: windows delivered since running became FALSE

queueVars   == <<chunks, notified, captured>>
windowVars  == <<buffer, window, consumed, lateWindows>>
deviceVars  == <<stream, paReady, paStream, paInits>>
vars == <<queueVars, windowVars, deviceVars, running, pc, after, cb, starts>>

Starting == {"start.init", "start.device", "start.open", "start.stream"}
Stopping == {"stop", "stop.stream", "stop.terminate", "delete"}
Reading  == {"read.check", "read.pop", "read.blocked", "read.timeout"}
Places   == {"idle", "gone"} \union Starting \union Stopping \union Reading

Span(from, to) == [i \in 1 .. (to - from + 1) |-> from + i - 1]
Last(s, n) == SubSeq(s, Len(s) - n + 1, Len(s))

Init ==
  /\ running = TRUE
  /\ chunks = <<>> /\ notified = FALSE
  /\ buffer = <<>> /\ window = <<>>
  /\ stream = "null" /\ paReady = FALSE
  /\ pc = "idle" /\ after = "idle" /\ cb = "idle"
  /\ starts = 0
  /\ paStream = "closed" /\ paInits = 0
  /\ captured = 0 /\ consumed = 0 /\ lateWindows = 0

-----------------------------------------------------------------------------
(* Start *)

(* Start returns at once when the stream is open; otherwise it declares    *)
(* the program running before it touches PortAudio.                        *)
CallStart ==
  /\ pc = "idle"
  /\ stream = "null"
  /\ starts < MaxStarts
  /\ starts' = starts + 1
  /\ running' = TRUE
  /\ lateWindows' = 0
  /\ pc' = "start.init"
  /\ UNCHANGED <<queueVars, buffer, window, consumed, deviceVars, after, cb>>

(* A failed Pa_Initialize throws before the try block: nothing to undo.    *)
PaInitialize ==
  /\ pc = "start.init"
  /\ \/ /\ paInits' = paInits + 1
        /\ paReady' = TRUE
        /\ pc' = "start.device"
     \/ /\ pc' = "idle"
        /\ UNCHANGED <<paInits, paReady>>
  /\ UNCHANGED <<queueVars, windowVars, stream, paStream, running, after, cb, starts>>

(* ResolveInputDevice and RequireInputDevice: no such device, or one that  *)
(* cannot record, throws, and the catch block calls Stop and rethrows.     *)
FindDevice ==
  /\ pc = "start.device"
  /\ \/ /\ pc' = "start.open"
        /\ UNCHANGED after
     \/ /\ pc' = "stop"
        /\ after' = "idle"
  /\ UNCHANGED <<queueVars, windowVars, deviceVars, running, cb, starts>>

(* Pa_OpenStream: after a failed open the catch block calls Stop, with the *)
(* pointer the library left.                                               *)
OpenStream ==
  /\ pc = "start.open"
  /\ \/ /\ stream' = "open"
        /\ paStream' = "stopped"
        /\ pc' = "start.stream"
        /\ UNCHANGED after
     \/ /\ stream' \in {"null"} \union FailedOpenLeaves
        /\ pc' = "stop"
        /\ after' = "idle"
        /\ UNCHANGED paStream
  /\ UNCHANGED <<queueVars, windowVars, paReady, paInits, running, cb, starts>>

(* Pa_StartStream; on failure the catch block again.                       *)
StartStream ==
  /\ pc = "start.stream"
  /\ \/ /\ paStream' = "active"
        /\ pc' = "idle"
        /\ UNCHANGED after
     \/ /\ pc' = "stop"
        /\ after' = "idle"
        /\ UNCHANGED paStream
  /\ UNCHANGED <<queueVars, windowVars, stream, paReady, paInits, running, cb, starts>>

-----------------------------------------------------------------------------
(* Stop and the destructor *)

CallStop ==
  /\ pc = "idle"
  /\ pc' = "stop"
  /\ after' = "idle"
  /\ UNCHANGED <<queueVars, windowVars, deviceVars, running, cb, starts>>

(* ~MicInput calls Stop, then deletes the implementation, queue included.  *)
CallDestroy ==
  /\ pc = "idle"
  /\ pc' = "stop"
  /\ after' = "delete"
  /\ UNCHANGED <<queueVars, windowVars, deviceVars, running, cb, starts>>

StopStore ==
  /\ pc = "stop"
  /\ running' = FALSE
  /\ pc' = "stop.stream"
  /\ UNCHANGED <<queueVars, windowVars, deviceVars, after, cb, starts>>

(* Mutation: the stream is stopped without waiting for the callback.       *)
StopStream_NoWait ==
  /\ pc = "stop.stream"
  /\ paStream' = IF stream = "open" THEN "closed" ELSE paStream
  /\ stream' = "null"
  /\ pc' = "stop.terminate"
  /\ UNCHANGED <<queueVars, windowVars, paReady, paInits, running, after, cb, starts>>

(* Mutation: Stop first waits until the queue has been read.               *)
StopStream_Drains ==
  /\ chunks = <<>>
  /\ pc = "stop.stream"
  /\ stream = "open" => cb = "idle"
  /\ paStream' = IF stream = "open" THEN "closed" ELSE paStream
  /\ stream' = "null"
  /\ pc' = "stop.terminate"
  /\ UNCHANGED <<queueVars, windowVars, paReady, paInits, running, after, cb, starts>>

(* Mutation: only a stream that could be stopped is closed and forgotten.  *)
StopStream_OnlyIfOpen ==
  /\ pc = "stop.stream"
  /\ stream = "open" => cb = "idle"
  /\ IF stream = "open"
     THEN paStream' = "closed" /\ stream' = "null"
     ELSE UNCHANGED <<paStream, stream>>
  /\ pc' = "stop.terminate"
  /\ UNCHANGED <<queueVars, windowVars, paReady, paInits, running, after, cb, starts>>

(* Pa_StopStream waits for the callback in progress; Pa_CloseStream then   *)
(* frees the stream. An invalid pointer is refused with paBadStreamPtr by  *)
(* both, which nobody looks at, and forgotten like an open one.            *)
StopStream ==
  /\ pc = "stop.stream"
  /\ stream = "open" => cb = "idle"
  /\ paStream' = IF stream = "open" THEN "closed" ELSE paStream
  /\ stream' = "null"
  /\ pc' = "stop.terminate"
  /\ UNCHANGED <<queueVars, windowVars, paReady, paInits, running, after, cb, starts>>

(* Mutation: portaudio_ready is not reset.                                 *)
StopTerminate_StaysReady ==
  /\ pc = "stop.terminate"
  /\ paInits' = IF paReady THEN paInits - 1 ELSE paInits
  /\ pc' = after
  /\ UNCHANGED <<queueVars, windowVars, stream, paReady, paStream, running, after, cb, starts>>

StopTerminate ==
  /\ pc = "stop.terminate"
  /\ paInits' = IF paReady THEN paInits - 1 ELSE paInits
  /\ paReady' = FALSE
  /\ pc' = after
  /\ UNCHANGED <<queueVars, windowVars, stream, paStream, running, after, cb, starts>>

Delete ==
  /\ pc = "delete"
  /\ pc' = "gone"
  /\ UNCHANGED <<queueVars, windowVars, deviceVars, running, after, cb, starts>>

-----------------------------------------------------------------------------
(* ReadWindow, with AudioQueue::Pop inside *)

(* Callers read while the stream is open, or after a stop. *)
CallReadWindow ==
  /\ pc = "idle"
  /\ stream = "open" \/ ~running
  /\ pc' = "read.check"
  /\ UNCHANGED <<queueVars, windowVars, deviceVars, running, after, cb, starts>>

(* Mutation: ReadWindow loops without looking at g_running.                *)
ReadCheck_IgnoresStop ==
  /\ pc = "read.check"
  /\ pc' = "read.pop"
  /\ UNCHANGED <<queueVars, windowVars, deviceVars, running, after, cb, starts>>

(* The loop condition; when it fails ReadWindow returns false. *)
ReadCheck ==
  /\ pc = "read.check"
  /\ pc' = IF running THEN "read.pop" ELSE "idle"
  /\ UNCHANGED <<queueVars, windowVars, deviceVars, running, after, cb, starts>>

NoWindowYet(buf) ==
  /\ buffer' = buf
  /\ pc' = "read.check"
  /\ UNCHANGED <<window, lateWindows>>

Slide(buf, kept) ==
  /\ window' = Last(buf, WindowSamples)
  /\ buffer' = kept
  /\ lateWindows' = IF running THEN 0 ELSE lateWindows + 1
  /\ pc' = "idle"

(* Mutation: the oldest samples stay in the buffer instead of the newest.  *)
TryTakeWindow_KeepsOldest(buf) ==
  IF Len(buf) < WindowSamples
  THEN NoWindowYet(buf)
  ELSE Slide(buf, SubSeq(buf, 1, WindowSamples - HopSamples))

(* Mutation: one hop stays in the buffer instead of all but one.           *)
TryTakeWindow_KeepsHop(buf) ==
  IF Len(buf) < WindowSamples
  THEN NoWindowYet(buf)
  ELSE Slide(buf, Last(buf, HopSamples))

(* Mutation: a window is taken only from a buffer that holds more than it. *)
TryTakeWindow_NeedsMore(buf) ==
  IF Len(buf) <= WindowSamples
  THEN NoWindowYet(buf)
  ELSE Slide(buf, Last(buf, WindowSamples - HopSamples))

(* TryTakeWindow on the samples in buf: the last WindowSamples are the     *)
(* window, all but the first hop of it stays for the next one.             *)
TryTakeWindow(buf) ==
  IF Len(buf) < WindowSamples
  THEN NoWindowYet(buf)
  ELSE Slide(buf, Last(buf, WindowSamples - HopSamples))

(* Pop finds a chunk, which ReadWindow appends to buffer. A chunk is taken *)
(* even when a stop has been requested.                                    *)
PopChunk ==
  /\ pc \in {"read.pop", "read.timeout"}
  /\ chunks # <<>>
  /\ chunks' = Tail(chunks)
  /\ consumed' = consumed + Len(Head(chunks))
  /\ TryTakeWindow(buffer \o Head(chunks))
  /\ UNCHANGED <<notified, captured, deviceVars, running, after, cb, starts>>

(* Pop returns false: stopped, or the wait has timed out. *)
PopNothing ==
  /\ pc \in {"read.pop", "read.timeout"}
  /\ chunks = <<>>
  /\ ~running \/ pc = "read.timeout"
  /\ pc' = "read.check"
  /\ UNCHANGED <<queueVars, windowVars, deviceVars, running, after, cb, starts>>

(* The wait's predicate is false: release the mutex and block. *)
PopBlock ==
  /\ pc = "read.pop"
  /\ chunks = <<>> /\ running
  /\ notified' = FALSE
  /\ pc' = "read.blocked"
  /\ UNCHANGED <<chunks, captured, windowVars, deviceVars, running, after, cb, starts>>

Wake ==
  /\ pc = "read.blocked" /\ notified
  /\ notified' = FALSE
  /\ pc' = "read.pop"
  /\ UNCHANGED <<chunks, captured, windowVars, deviceVars, running, after, cb, starts>>

(* C++ lets a wait end for no reason; the predicate is evaluated again.    *)
SpuriousWake ==
  /\ pc = "read.blocked" /\ ~notified
  /\ pc' = "read.pop"
  /\ UNCHANGED <<queueVars, windowVars, deviceVars, running, after, cb, starts>>

(* Mutation: a plain wait, without a time limit.                           *)
Timeout_Unlimited == FALSE

(* 100 ms have passed; the predicate is evaluated a last time. *)
Timeout ==
  /\ pc = "read.blocked"
  /\ notified' = FALSE
  /\ pc' = "read.timeout"
  /\ UNCHANGED <<chunks, captured, windowVars, deviceVars, running, after, cb, starts>>

-----------------------------------------------------------------------------
(* The callback thread and the signal handler *)

(* PortAudio hands over framesPerBuffer = HopSamples samples. A null input *)
(* is ignored, and so is no step.                                          *)
CallbackEnter ==
  /\ cb = "idle" /\ paStream = "active"
  /\ captured + HopSamples <= MaxCaptured
  /\ cb' = "push"
  /\ UNCHANGED <<queueVars, windowVars, deviceVars, running, pc, after, starts>>

(* Mutation: the callback does not notify.                                 *)
CallbackPush_Silent ==
  /\ cb = "push"
  /\ chunks' = Append(chunks, Span(captured + 1, captured + HopSamples))
  /\ captured' = captured + HopSamples
  /\ cb' = "idle"
  /\ UNCHANGED <<notified, windowVars, deviceVars, running, pc, after, starts>>

CallbackPush ==
  /\ cb = "push"
  /\ chunks' = Append(chunks, Span(captured + 1, captured + HopSamples))
  /\ captured' = captured + HopSamples
  /\ cb' = "notify"
  /\ UNCHANGED <<notified, windowVars, deviceVars, running, pc, after, starts>>

(* notify_one, after the mutex is released: lost when nobody is blocked.   *)
CallbackNotify ==
  /\ cb = "notify"
  /\ notified' = (pc = "read.blocked")
  /\ cb' = "idle"
  /\ UNCHANGED <<chunks, captured, windowVars, deviceVars, running, pc, after, starts>>

OnSignal ==
  /\ running
  /\ running' = FALSE
  /\ UNCHANGED <<queueVars, windowVars, deviceVars, pc, after, cb, starts>>

-----------------------------------------------------------------------------
(* The object is gone and nothing is left to do. *)
Gone ==
  /\ pc = "gone" /\ ~running
  /\ UNCHANGED vars

StartSteps == PaInitialize \/ FindDevice \/ OpenStream \/ StartStream
StopSteps  == StopStore \/ StopStream \/ StopTerminate \/ Delete
ReadSteps  ==
  ReadCheck \/ PopChunk \/ PopNothing \/ PopBlock \/ Wake \/ Timeout

Calls == CallStart \/ CallStop \/ CallDestroy \/ CallReadWindow

CallbackSteps == CallbackPush \/ CallbackNotify

Next ==
  \/ Calls
  \/ StartSteps \/ StopSteps \/ ReadSteps \/ SpuriousWake
  \/ CallbackEnter \/ CallbackSteps
  \/ OnSignal
  \/ Gone

(* A thread inside a call keeps running, and so does a callback that has   *)
(* begun. Nobody owes a call, a callback, a signal or a spurious wake-up.  *)
(* Callbacks may come and go while Pa_StopStream waits: strong fairness    *)
(* says that the library does not put the stop off for ever.               *)
Fairness ==
  /\ WF_vars(StartSteps) /\ WF_vars(StopSteps) /\ WF_vars(ReadSteps)
  /\ SF_vars(StopStream)
  /\ WF_vars(CallbackSteps)

Spec == Init /\ [][Next]_vars /\ Fairness
-----------------------------------------------------------------------------
(* Every variable has its type; in particular Pa_Terminate is never called *)
(* more often than Pa_Initialize succeeded.                                *)
TypeOK ==
  /\ running \in BOOLEAN /\ notified \in BOOLEAN /\ paReady \in BOOLEAN
  /\ chunks \in Seq(Seq(Nat)) /\ buffer \in Seq(Nat) /\ window \in Seq(Nat)
  /\ stream \in {"null", "open", "invalid"}
  /\ pc \in Places
  /\ after \in {"idle", "delete"}
  /\ cb \in {"idle", "push", "notify"}
  /\ paStream \in {"closed", "stopped", "active"}
  /\ paInits \in Nat /\ starts \in Nat
  /\ captured \in Nat /\ consumed \in Nat /\ lateWindows \in Nat

(* No sample is lost, repeated or reordered between the callback and the   *)
(* sliding buffer: buffer ends where the queue begins, the chunks of the   *)
(* queue follow each other, and the last one ends at the newest sample,    *)
(* whatever stops and restarts happened in between.                        *)
StreamIntact ==
  /\ buffer = Span(consumed - Len(buffer) + 1, consumed)
  /\ captured = consumed + Len(chunks) * HopSamples
  /\ \A i \in 1 .. Len(chunks) :
       chunks[i] = Span(consumed + (i - 1) * HopSamples + 1,
                        consumed + i * HopSamples)

(* Once a stop is requested (a signal, or Stop), ReadWindow delivers at    *)
(* most the one window it was already working on.                          *)
AtMostOneLateWindow == lateWindows <= 1

(* The owner is never left blocked with a chunk in the queue unless it has *)
(* been notified or the callback is about to notify it: the 100 ms timeout *)
(* is not what delivers audio.                                             *)
NoLostWakeup ==
  pc = "read.blocked" /\ chunks # <<>> => notified \/ cb = "notify"

(* AudioCallback never runs on a queue that the destructor has deleted, or *)
(* on a stream that is not started.                                        *)
CallbackHasQueue ==
  cb # "idle" => pc # "gone" /\ paStream = "active"

(* No call, failed or not, leaves PortAudio half open: between calls the   *)
(* library is initialised exactly when the stream is open and running, the *)
(* next Start does not take what a failed open left for a stream, and      *)
(* after the destructor everything is released.                            *)
NoHalfOpenDevice ==
  /\ pc \in {"idle", "gone"} =>
       /\ paInits = IF stream = "open" THEN 1 ELSE 0
       /\ (stream = "open") <=> (paStream = "active")
       /\ stream # "invalid"
  /\ pc = "gone" => stream = "null"

(* MicInput implements the stream of overlapping windows: each window is   *)
(* the previous one moved by exactly one hop.                              *)
Promise == INSTANCE WindowStream
WindowsPromised == Promise!Spec

(* A ReadWindow in progress when a stop is requested returns, although     *)
(* OnSignal notifies nobody and the device may have stopped calling back.  *)
ReadWindowStops == pc \in Reading /\ ~running ~> pc \notin Reading

(* A ReadWindow with enough samples in the buffer and the queue returns,   *)
(* even if the microphone never delivers again.                            *)
WindowArrives ==
  pc \in Reading /\ Len(buffer) + HopSamples * Len(chunks) >= WindowSamples ~> pc \notin Reading

(* Stop and the destructor end: Pa_StopStream waits for a callback that    *)
(* needs nothing from the owner.                                           *)
StopEnds == pc \in Stopping ~> pc \in {"idle", "gone"}
=============================================================================
