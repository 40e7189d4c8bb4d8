---------------------------- MODULE RunMicrophone ----------------------------
(***************************************************************************)
(* main.cc, RunMicrophone: the loop that connects the microphone, the      *)
(* speech gate, the keyword engine and the action, with a cooldown between *)
(* actions and a stop requested by a signal at any moment.                 *)
(*                                                                         *)
(* The microphone and the gate are taken at their callers' level: their    *)
(* steps here are steps of WindowStream and SpeechGate, which MicInput and *)
(* VadDetector implement. The unit of audio is the hop (400 ms, one        *)
(* callback), so a window is WindowHops of them. Time passes in ticks; the *)
(* microphone delivers a hop every HopTicks, whatever the loop is doing,   *)
(* and the loop may spend up to MaxBusy ticks on a window.                 *)
(***************************************************************************)
EXTENDS Integers, Sequences

CONSTANTS
  WindowHops,     \* kWindowSec / kHopSec
  HopTicks,       \* kHopSec
  CooldownTicks,  \* kCooldownSec
  MaxBusy,        \* longest processing of one window: VAD, KWS and action
  MaxHops         \* bound: hops captured in a behaviour

ASSUME TimeAssumption ==
  /\ WindowHops \in Nat \ {0} /\ HopTicks \in Nat \ {0}
  /\ CooldownTicks \in Nat /\ MaxBusy \in Nat /\ MaxHops \in Nat

VARIABLES
  pc,             \* place of the main thread
  running,        \* g_running
  opened,         \* PortAudio calls back
  captured,       \* hops the callback has queued
  window,         \* the window ReadWindow filled last
  active, voice,  \* the gate: its speech_active and its last answer
  first_window,
  elapsed,        \* ticks since now was read, CooldownTicks at most
  gap,            \* ticks since last_hit, CooldownTicks at most
  phase,          \* ticks since the last hop was queued
  busy,           \* ticks spent on the window so far
  exit_code,      \* what main returns
  signalled,      \* history: a signal has been handled
  fed,            \* history: the hops the gate has heard
  kept,           \* history: the hops of a call that threw, see FeedVad
  spoken,         \* history: the gate has answered has_speech
  hitEnd,         \* history: last hop of the window of the last action
  lateActions     \* history: actions begun since running became FALSE

micVars    == <<captured, window>>
gateVars   == <<active, voice, spoken, fed, kept, first_window>>
hitVars    == <<hitEnd, lateActions>>
timeVars   == <<elapsed, gap, phase, busy>>
signalVars == <<running, signalled>>
vars == <<micVars, gateVars, hitVars, timeVars, signalVars, pc, opened, exit_code>>

Mic  == INSTANCE WindowStream WITH HopSamples <- 1, WindowSamples <- WindowHops
Gate == INSTANCE SpeechGate

Processing == {"feed", "infer", "act"}
Places == {"install", "start", "open", "read", "wait", "stop", "exited"} \union Processing

Capped(n) == IF n < CooldownTicks THEN n ELSE CooldownTicks

Init ==
  /\ pc = "install" /\ opened = FALSE /\ exit_code = 0
  /\ running = TRUE /\ signalled = FALSE
  /\ Mic!Init /\ Gate!Init
  /\ first_window = TRUE /\ spoken = FALSE /\ fed = <<>> /\ kept = <<>>
  /\ hitEnd = 0 /\ lateActions = 0
  /\ elapsed = 0 /\ gap = 0 /\ phase = 0 /\ busy = 0

-----------------------------------------------------------------------------
(* InstallSignalHandlers: from here on a signal is OnSignal's. *)
Install ==
  /\ pc = "install"
  /\ pc' = "start"
  /\ UNCHANGED <<micVars, gateVars, hitVars, timeVars, signalVars, opened, exit_code>>

(* MicInput::Start stores TRUE before it opens the device. *)
Start ==
  /\ pc = "start"
  /\ running' = TRUE
  /\ pc' = "open"
  /\ UNCHANGED <<micVars, gateVars, hitVars, timeVars, signalled, opened, exit_code>>

(* An exception ends in main: the microphone is stopped on the way.        *)
Throw ==
  /\ running' = FALSE
  /\ opened' = FALSE
  /\ exit_code' = 1
  /\ pc' = "exited"

(* The rest of Start, and last_hit set to 2000 ms ago. *)
Open ==
  /\ pc = "open"
  /\ \/ /\ opened' = TRUE
        /\ pc' = "read"
        /\ gap' = CooldownTicks
        /\ UNCHANGED <<running, exit_code>>
     \/ Throw /\ UNCHANGED gap
  /\ UNCHANGED <<micVars, gateVars, hitVars, elapsed, phase, busy, signalled>>

-----------------------------------------------------------------------------
(* ReadWindow: the loop condition, then a window or a wait that times out. *)
(* Mutation: the wait for a chunk begins even when one is in the queue.    *)
WindowReady_SleepsOn == \E end \in Mic!NextEnds : end < captured

WindowReady == \E end \in Mic!NextEnds : end <= captured

(* Mutation: the loop does not look at g_running. *)
ReadCheck_IgnoresStop ==
  /\ pc = "read"
  /\ pc' = "wait"
  /\ UNCHANGED <<micVars, gateVars, hitVars, timeVars, signalVars, opened, exit_code>>

ReadCheck ==
  /\ pc = "read"
  /\ pc' = IF running THEN "wait" ELSE "stop"
  /\ UNCHANGED <<micVars, gateVars, hitVars, timeVars, signalVars, opened, exit_code>>

(* Mutation: a window is taken only when there is more than one of them.   *)
ReadWindow_WaitsForMore ==
  /\ pc = "wait"
  /\ \E end \in Mic!NextEnds : end < captured
  /\ Mic!Deliver
  /\ busy' = 0
  /\ pc' = "feed"
  /\ UNCHANGED <<gateVars, hitVars, elapsed, gap, phase, signalVars, opened, exit_code>>

ReadWindow ==
  /\ pc = "wait"
  /\ Mic!Deliver
  /\ busy' = 0
  /\ pc' = "feed"
  /\ UNCHANGED <<gateVars, hitVars, elapsed, gap, phase, signalVars, opened, exit_code>>

(* Mutation: a wait that times out waits again, without the loop condition. *)
ReadTimeout_WaitsOn ==
  /\ pc = "wait" /\ ~WindowReady
  /\ UNCHANGED vars

(* Mutation: a wait that times out makes ReadWindow return false.          *)
ReadTimeout_Ends ==
  /\ pc = "wait" /\ ~WindowReady
  /\ pc' = "stop"
  /\ UNCHANGED <<micVars, gateVars, hitVars, timeVars, signalVars, opened, exit_code>>

ReadTimeout ==
  /\ pc = "wait" /\ ~WindowReady
  /\ pc' = "read"
  /\ UNCHANGED <<micVars, gateVars, hitVars, timeVars, signalVars, opened, exit_code>>

(* The whole first window, later only the newest hop. *)
NewAudio ==
  IF ~first_window /\ Len(window) > 1
  THEN <<window[WindowHops]>>
  ELSE window

(* Mutation: the engine runs on every window, speech or not.               *)
FeedVad_Ungated ==
  /\ pc = "feed"
  /\ fed' = fed \o kept \o NewAudio
  /\ first_window' = FALSE
  /\ Gate!Answer /\ kept' = <<>>
  /\ spoken' = (spoken \/ voice'.has_speech)
  /\ pc' = "infer"
  /\ UNCHANGED <<micVars, hitVars, timeVars, signalVars, opened, exit_code>>

(* Mutation: the loop catches what Feed throws and goes on reading.        *)
FeedVad_GoesOn ==
  /\ pc = "feed"
  /\ fed' = fed \o kept \o NewAudio
  /\ first_window' = FALSE
  /\ \/ /\ Gate!Answer /\ kept' = <<>>
        /\ spoken' = (spoken \/ voice'.has_speech)
        /\ pc' = IF ~voice'.has_speech /\ ~voice'.speech_active THEN "read" ELSE "infer"
     \/ /\ Gate!Fail /\ kept' = kept \o NewAudio
        /\ pc' = "read"
        /\ UNCHANGED spoken
  /\ UNCHANGED <<micVars, hitVars, timeVars, signalVars, opened, exit_code>>

(* Feed puts its audio behind pending and takes it out only when it        *)
(* returns: a call that throws in the middle keeps all it was given, the   *)
(* chunks it has heard included, for the next call to hear (again).        *)
FeedVad ==
  /\ pc = "feed"
  /\ fed' = fed \o kept \o NewAudio
  /\ first_window' = FALSE
  /\ \/ /\ Gate!Answer /\ kept' = <<>>
        /\ spoken' = (spoken \/ voice'.has_speech)
        /\ pc' = IF ~voice'.has_speech /\ ~voice'.speech_active THEN "read" ELSE "infer"
        /\ UNCHANGED <<running, opened, exit_code>>
     \/ /\ Gate!Fail /\ kept' = kept \o NewAudio
        /\ Throw
        /\ UNCHANGED spoken
  /\ UNCHANGED <<micVars, hitVars, timeVars, signalled>>

(* Infer, then now is read: nothing found, or too soon, goes on reading.   *)
Infer ==
  /\ pc = "infer"
  /\ \/ \E detected \in BOOLEAN :
          /\ pc' = IF ~detected \/ gap < CooldownTicks THEN "read" ELSE "act"
          /\ elapsed' = 0
          /\ UNCHANGED <<running, opened, exit_code>>
     \/ Throw /\ UNCHANGED elapsed
  /\ UNCHANGED <<micVars, gateVars, hitVars, gap, phase, busy, signalled>>

(* Mutation: last_hit is set only once, before the loop.                   *)
Act_KeepsLastHit ==
  /\ pc = "act"
  /\ hitEnd' = window[WindowHops]
  /\ lateActions' = IF running THEN 0 ELSE lateActions + 1
  /\ pc' = "read"
  /\ UNCHANGED <<micVars, gateVars, timeVars, signalVars, opened, exit_code>>

(* OnKeyword, whose whole duration counts as cooldown: last_hit is the now *)
(* read before it.                                                         *)
Act ==
  /\ pc = "act"
  /\ hitEnd' = window[WindowHops]
  /\ lateActions' = IF running THEN 0 ELSE lateActions + 1
  /\ gap' = elapsed
  /\ pc' = "read"
  /\ UNCHANGED <<micVars, gateVars, elapsed, phase, busy, signalVars, opened, exit_code>>

Stop ==
  /\ pc = "stop"
  /\ running' = FALSE
  /\ opened' = FALSE
  /\ pc' = "exited"
  /\ UNCHANGED <<micVars, gateVars, hitVars, timeVars, signalled, exit_code>>

-----------------------------------------------------------------------------
OnSignal ==
  /\ pc \notin {"install", "exited"}
  /\ running' = FALSE
  /\ signalled' = TRUE
  /\ UNCHANGED <<micVars, gateVars, hitVars, timeVars, pc, opened, exit_code>>

(* A tick of the steady clock, which the microphone keeps pace with. The   *)
(* loop takes a window that is ready at once, and is done with it within   *)
(* MaxBusy ticks.                                                          *)
Tick ==
  /\ opened
  /\ pc \in Processing => busy < MaxBusy
  /\ pc \notin Processing => ~WindowReady
  /\ busy' = IF pc \in Processing THEN busy + 1 ELSE busy
  /\ elapsed' = Capped(elapsed + 1)
  /\ gap' = Capped(gap + 1)
  /\ IF phase + 1 < HopTicks
     THEN phase' = phase + 1 /\ UNCHANGED micVars
     ELSE captured < MaxHops /\ phase' = 0 /\ Mic!Capture
  /\ UNCHANGED <<gateVars, hitVars, signalVars, pc, opened, exit_code>>

Exited == pc = "exited" /\ UNCHANGED vars

MainThread ==
  \/ Install \/ Start \/ Open
  \/ ReadCheck \/ ReadWindow \/ ReadTimeout
  \/ FeedVad \/ Infer \/ Act \/ Stop

Next == MainThread \/ OnSignal \/ Tick \/ Exited

(* The main thread keeps running: each call returns, ReadWindow's wait by  *)
(* its timeout. Nobody owes a signal or another hop of audio.              *)
Spec == Init /\ [][Next]_vars /\ WF_vars(MainThread)
-----------------------------------------------------------------------------
(* Every variable has its type, neither the gate nor an action is ahead of *)
(* the microphone, and only a program that has ended keeps unheard audio.  *)
TypeOK ==
  /\ pc \in Places /\ exit_code \in {0, 1}
  /\ running \in BOOLEAN /\ signalled \in BOOLEAN /\ opened \in BOOLEAN
  /\ first_window \in BOOLEAN /\ spoken \in BOOLEAN
  /\ active \in BOOLEAN /\ voice \in Gate!Answers
  /\ captured \in Nat /\ lateActions \in Nat
  /\ window = <<>> \/ Len(window) = WindowHops
  /\ elapsed \in 0 .. CooldownTicks /\ gap \in 0 .. CooldownTicks
  /\ phase \in 0 .. HopTicks - 1 /\ busy \in 0 .. MaxBusy
  /\ kept = <<>> \/ pc = "exited"
  /\ Len(fed) <= captured /\ hitEnd \in 0 .. captured

(* The overlapping windows give the gate a stream without a repeated or    *)
(* missing hop, and the window the engine sees is the one the gate has     *)
(* just judged. A failure of the network in the middle of a call makes no  *)
(* exception: no later call hears the chunks it has left behind again.     *)
VadHearsEveryHopOnce ==
  /\ fed = Mic!Span(1, Len(fed))
  /\ pc \in {"infer", "act"} => Len(fed) = window[WindowHops]

(* The engine runs, and an action is taken, only on a stream in which the  *)
(* gate has heard speech at some time: speech_active alone never opens it. *)
NoKeywordWithoutSpeech == pc \in {"infer", "act"} => spoken

(* While the loop keeps up with the microphone, the windows of two actions *)
(* are as far apart as the cooldown, but for the time spent on a window.   *)
HitsSpaced ==
  [][hitEnd # 0 /\ hitEnd' # hitEnd
       => (hitEnd' - hitEnd) * HopTicks >= CooldownTicks - MaxBusy]_vars

(* Adjacent windows never both lead to an action (the comment at           *)
(* main.cc:184).                                                           *)
AdjacentWindowsActOnce ==
  [][hitEnd # 0 /\ hitEnd' # hitEnd => hitEnd' - hitEnd > 1]_vars

(* The queue has no limit, but a loop that needs at most a hop's time for  *)
(* a window needs none: no more than one hop is ever behind the window the *)
(* loop is at, so no window is older than a hop when it is read.           *)
BacklogBounded ==
  pc # "exited" => captured <= IF window = <<>> THEN WindowHops ELSE window[WindowHops] + 1

(* After a stop request at most the action of one window is taken.         *)
AtMostOneLateAction == lateActions <= 1

(* The program returns 0 only when it was told to stop: silence or a       *)
(* timeout never ends the loop.                                            *)
NormalExitRequested == pc = "exited" /\ exit_code = 0 => signalled

(* Once Start has stored running, a stop request ends the program, even if *)
(* the microphone never delivers again.                                    *)
StopHonoured ==
  ~running /\ pc \notin {"install", "start"} ~> pc = "exited"

(* Every hop that completes a window reaches the gate, also when it is the *)
(* last one the microphone ever delivers, unless the program ends.         *)
EveryHopHeard ==
  \A hop \in WindowHops .. MaxHops : captured >= hop ~> Len(fed) >= hop \/ pc = "exited"

(* A signal ends the program whenever it is handled (the comment at        *)
(* mic_input.cc:26 and the prompt at main.cc:182).                         *)
SignalStops == signalled ~> pc = "exited"
=============================================================================
