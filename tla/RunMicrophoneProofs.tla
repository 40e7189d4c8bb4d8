------------------------- MODULE RunMicrophoneProofs -------------------------
(***************************************************************************)
(* Theorems about RunMicrophone for every window, hop, cooldown and bound. *)
(* Three of them rest on small invariants of their own, over the place of  *)
(* the loop; VadHearsEveryHopOnce on what the gate has been fed, and       *)
(* HitsSpaced on the microphone's clock.                                   *)
(***************************************************************************)
EXTENDS RunMicrophone, SequenceTheorems, TLAPS

(* Speech is going on only after it has been heard. A call that throws may *)
(* leave the gate in any state, but ends the program.                      *)
SpokenInv ==
  /\ active \in BOOLEAN /\ spoken \in BOOLEAN
  /\ active /\ pc # "exited" => spoken
  /\ pc \in {"infer", "act"} => spoken

(* The engine runs, and an action is taken, only after speech was heard.   *)
THEOREM KeywordNeedsSpeech == Spec => []NoKeywordWithoutSpeech
<1>1. Init => SpokenInv
  BY DEF Init, SpokenInv, Gate!Init
<1>2. SpokenInv /\ [Next]_vars => SpokenInv'
  <2> SUFFICES ASSUME SpokenInv, [Next]_vars
               PROVE  SpokenInv'
    OBVIOUS
  <2> USE DEF SpokenInv, micVars, gateVars, hitVars, timeVars, signalVars
  <2>1. CASE Install \/ Start \/ Open \/ ReadCheck \/ ReadWindow \/ ReadTimeout
    BY <2>1 DEF Install, Start, Open, Throw, ReadCheck, ReadWindow, ReadTimeout
  <2>2. CASE FeedVad
    <3>1. CASE /\ Gate!Answer
               /\ spoken' = (spoken \/ voice'.has_speech)
               /\ pc' = IF ~voice'.has_speech /\ ~voice'.speech_active THEN "read" ELSE "infer"
      <4>1. voice'.has_speech \in BOOLEAN /\ voice'.speech_active \in BOOLEAN
        BY <3>1 DEF Gate!Answer, Gate!Answers
      <4>2. pc # "exited"
        BY <2>2 DEF FeedVad
      <4>3. active' = voice'.speech_active /\ (voice'.speech_active => voice'.has_speech \/ active)
        BY <3>1 DEF Gate!Answer
      <4>4. QED
        BY <3>1, <4>1, <4>2, <4>3
    <3>2. CASE Gate!Fail /\ Throw /\ UNCHANGED spoken
      BY <3>2 DEF Gate!Fail, Throw
    <3>3. QED
      BY <2>2, <3>1, <3>2 DEF FeedVad
  <2>3. CASE Infer \/ Act \/ Stop
    BY <2>3 DEF Infer, Act, Stop, Throw
  <2>4. CASE OnSignal \/ Tick \/ Exited \/ UNCHANGED vars
    BY <2>4 DEF OnSignal, Tick, Exited, vars
  <2>5. QED
    BY <2>1, <2>2, <2>3, <2>4 DEF Next, MainThread
<1>3. SpokenInv => NoKeywordWithoutSpeech
  BY DEF SpokenInv, NoKeywordWithoutSpeech
<1>4. QED
  BY <1>1, <1>2, <1>3, PTL DEF Spec
-----------------------------------------------------------------------------
(* The flag is cleared by a signal, or on the way out of the program; only *)
(* an exception gets there without a signal.                               *)
RequestInv ==
  /\ ~running /\ pc # "exited" => signalled
  /\ pc = "stop" => signalled
  /\ pc = "exited" => signalled \/ exit_code = 1

(* The program returns 0 only when a signal told it to stop.               *)
THEOREM ExitOnRequest == Spec => []NormalExitRequested
<1>1. Init => RequestInv
  BY DEF Init, RequestInv
<1>2. RequestInv /\ [Next]_vars => RequestInv'
  <2> SUFFICES ASSUME RequestInv, [Next]_vars
               PROVE  RequestInv'
    OBVIOUS
  <2> USE DEF RequestInv, micVars, gateVars, hitVars, timeVars, signalVars
  <2>1. CASE Install \/ Start \/ Open \/ ReadCheck \/ ReadWindow \/ ReadTimeout
    BY <2>1 DEF Install, Start, Open, Throw, ReadCheck, ReadWindow, ReadTimeout
  <2>2. CASE FeedVad \/ Infer \/ Act \/ Stop
    BY <2>2 DEF FeedVad, Infer, Act, Stop, Throw
  <2>3. CASE OnSignal \/ Tick \/ Exited \/ UNCHANGED vars
    BY <2>3 DEF OnSignal, Tick, Exited, vars
  <2>4. QED
    BY <2>1, <2>2, <2>3 DEF Next, MainThread
<1>3. RequestInv => NormalExitRequested
  BY DEF RequestInv, NormalExitRequested
<1>4. QED
  BY <1>1, <1>2, <1>3, PTL DEF Spec
-----------------------------------------------------------------------------
(* A late action is only counted by the window the loop was in when the    *)
(* stop was requested, and the loop condition ends what follows.           *)
LateInv ==
  /\ lateActions \in {0, 1}
  /\ running => lateActions = 0
  /\ pc \notin {"read", "stop", "exited"} => lateActions = 0

(* At most one action is begun after a stop request.                       *)
THEOREM LateActionBound == Spec => []AtMostOneLateAction
<1>1. Init => LateInv
  BY DEF Init, LateInv
<1>2. LateInv /\ [Next]_vars => LateInv'
  <2> SUFFICES ASSUME LateInv, [Next]_vars
               PROVE  LateInv'
    OBVIOUS
  <2> USE DEF LateInv, micVars, gateVars, hitVars, timeVars, signalVars
  <2>1. CASE Install \/ Start \/ Open \/ ReadCheck \/ ReadWindow \/ ReadTimeout
    BY <2>1 DEF Install, Start, Open, Throw, ReadCheck, ReadWindow, ReadTimeout
  <2>2. CASE FeedVad \/ Infer \/ Act \/ Stop
    BY <2>2 DEF FeedVad, Infer, Act, Stop, Throw
  <2>3. CASE OnSignal \/ Tick \/ Exited \/ UNCHANGED vars
    BY <2>3 DEF OnSignal, Tick, Exited, vars
  <2>4. QED
    BY <2>1, <2>2, <2>3 DEF Next, MainThread
<1>3. LateInv => AtMostOneLateAction
  BY DEF LateInv, AtMostOneLateAction
<1>4. QED
  BY <1>1, <1>2, <1>3, PTL DEF Spec
-----------------------------------------------------------------------------
(* The hop the next window ends with. *)
NextEnd == IF window = <<>> THEN WindowHops ELSE window[WindowHops] + 1

(* At one hop a callback the first window has no choice of where to end. *)
LEMMA NextEndsAreOne == Mic!NextEnds = {NextEnd}
  BY TimeAssumption DEF Mic!NextEnds, NextEnd

(* A delivered window ends where it had to, and reaches back WindowHops.   *)
LEMMA Delivered ==
  ASSUME NextEnd \in Nat, NextEnd >= WindowHops, Mic!Deliver
  PROVE  /\ window' = Mic!Span(NextEnd - WindowHops + 1, NextEnd)
         /\ window' # <<>>
         /\ Len(window') = WindowHops
         /\ window'[WindowHops] = NextEnd
         /\ NextEnd <= captured /\ captured' = captured
<1>1. /\ NextEnd <= captured /\ captured' = captured
      /\ window' = Mic!Span(NextEnd - WindowHops + 1, NextEnd)
  BY NextEndsAreOne DEF Mic!Deliver
<1>2. NextEnd - (NextEnd - WindowHops + 1) + 1 = WindowHops
  BY TimeAssumption
<1>3. window' = [i \in 1 .. WindowHops |-> (NextEnd - WindowHops + 1) + i - 1]
  BY <1>1, <1>2 DEF Mic!Span
<1>4. WindowHops \in 1 .. WindowHops
  BY TimeAssumption
<1>5. window'[WindowHops] = (NextEnd - WindowHops + 1) + WindowHops - 1
  BY <1>3, <1>4
<1>6. window'[WindowHops] = NextEnd
  BY <1>5, TimeAssumption
<1>7. window' \in Seq(Int) /\ Len(window') = WindowHops
  BY <1>3, TimeAssumption
<1>8. window' # <<>>
  BY <1>7, TimeAssumption
<1>9. QED
  BY <1>1, <1>6, <1>7, <1>8

(* Two spans of the stream that meet are one span.                         *)
LEMMA SpanGrows ==
  ASSUME NEW n \in Nat
  PROVE  Mic!Span(1, n) \o <<n + 1>> = Mic!Span(1, n + 1)
<1>1. /\ Mic!Span(1, n) = [i \in 1 .. n |-> i]
      /\ Mic!Span(1, n + 1) = [i \in 1 .. n + 1 |-> i]
  BY DEF Mic!Span
<1>2. /\ Mic!Span(1, n) \in Seq(Int) /\ Len(Mic!Span(1, n)) = n
      /\ Mic!Span(1, n + 1) \in Seq(Int) /\ Len(Mic!Span(1, n + 1)) = n + 1
  BY <1>1
<1>3. DEFINE s == Mic!Span(1, n) \o <<n + 1>>
<1>4. /\ s \in Seq(Int) /\ Len(s) = n + 1
      /\ \A i \in 1 .. n + 1 : s[i] = i
  BY <1>1, <1>2, ConcatProperties
<1>5. QED
  BY <1>1, <1>2, <1>4

(* What the gate has been fed: everything up to the last window, or up to  *)
(* the window before when the last one is still to be fed. What a call     *)
(* that threw has kept is never fed, as the loop is over by then.          *)
StreamInv ==
  /\ NextEnd \in Nat /\ NextEnd >= WindowHops
  /\ window # <<>> =>
       /\ window[WindowHops] \in Nat /\ window[WindowHops] >= WindowHops
       /\ window = Mic!Span(window[WindowHops] - WindowHops + 1, window[WindowHops])
       /\ Len(window) = WindowHops
  /\ fed = Mic!Span(1, Len(fed))
  /\ kept # <<>> => pc = "exited"
  /\ (first_window) <=> (fed = <<>>)
  /\ pc = "feed" =>
       /\ window # <<>>
       /\ IF first_window THEN window[WindowHops] = WindowHops
                          ELSE window[WindowHops] = Len(fed) + 1
  /\ pc # "feed" =>
       IF window = <<>> THEN fed = <<>> ELSE Len(fed) = window[WindowHops]
  /\ pc \in {"infer", "act"} => window # <<>>

LEMMA StreamHolds == Spec => []StreamInv
<1>1. Init => StreamInv
  <2> SUFFICES ASSUME Init PROVE StreamInv
    OBVIOUS
  <2>1. window = <<>> /\ fed = <<>> /\ kept = <<>> /\ first_window = TRUE /\ pc = "install"
    BY DEF Init, Mic!Init
  <2>2. NextEnd = WindowHops
    BY <2>1 DEF NextEnd
  <2>3. Mic!Span(1, 0) = <<>>
    BY DEF Mic!Span
  <2>4. Len(fed) = 0
    BY <2>1
  <2>5. QED
    BY <2>1, <2>2, <2>3, <2>4, TimeAssumption DEF StreamInv
<1>2. StreamInv /\ [Next]_vars => StreamInv'
  <2> SUFFICES ASSUME StreamInv, [Next]_vars
               PROVE  StreamInv'
    OBVIOUS
  <2>1. CASE ReadWindow
    <3>1. NextEnd \in Nat /\ NextEnd >= WindowHops /\ Mic!Deliver /\ pc = "wait" /\ pc' = "feed"
      BY <2>1 DEF ReadWindow, StreamInv
    <3>2. /\ window' = Mic!Span(NextEnd - WindowHops + 1, NextEnd)
          /\ window' # <<>> /\ Len(window') = WindowHops /\ window'[WindowHops] = NextEnd
      BY <3>1, Delivered
    <3>3. fed' = fed /\ kept' = kept /\ (first_window' <=> first_window)
      BY <2>1 DEF ReadWindow, gateVars
    <3>4. IF window = <<>> THEN fed = <<>> ELSE Len(fed) = window[WindowHops]
      BY <3>1 DEF StreamInv
    <3>5. IF first_window THEN NextEnd = WindowHops ELSE NextEnd = Len(fed) + 1
      <4>1. CASE window = <<>>
        BY <4>1, <3>4 DEF StreamInv, NextEnd
      <4>2. CASE window # <<>>
        <5>1. Len(fed) = window[WindowHops] /\ NextEnd = window[WindowHops] + 1
          BY <4>2, <3>4 DEF NextEnd
        <5>2. Len(fed) # 0
          BY <4>2, <5>1, TimeAssumption DEF StreamInv
        <5>3. fed # <<>>
          BY <5>2
        <5>4. QED
          BY <5>1, <5>3 DEF StreamInv
      <4>3. QED
        BY <4>1, <4>2
    <3>6. NextEnd' = NextEnd + 1
      BY <3>2 DEF NextEnd
    <3>7. QED
      BY <3>1, <3>2, <3>3, <3>5, <3>6 DEF StreamInv
  <2>2. CASE FeedVad
    <3>1. /\ window' = window /\ first_window' = FALSE /\ fed' = fed \o kept \o NewAudio
          /\ pc = "feed" /\ pc' # "feed" /\ (kept' # <<>> => pc' = "exited")
      BY <2>2 DEF FeedVad, micVars, Throw
    <3>2. /\ window # <<>> /\ Len(window) = WindowHops /\ window[WindowHops] \in Nat
          /\ window = Mic!Span(window[WindowHops] - WindowHops + 1, window[WindowHops])
          /\ fed = Mic!Span(1, Len(fed)) /\ kept = <<>>
      BY <3>1 DEF StreamInv
    <3>3. fed' = Mic!Span(1, window[WindowHops]) /\ window[WindowHops] > 0
      <4>1. CASE first_window
        <5>1. window[WindowHops] = WindowHops /\ fed = <<>>
          BY <3>1, <4>1 DEF StreamInv
        <5>2. NewAudio = window
          BY <4>1 DEF NewAudio
        <5>3. window = Mic!Span(1, WindowHops)
          BY <3>2, <5>1, TimeAssumption
        <5>4. window \in Seq(Int)
          BY <5>3, TimeAssumption DEF Mic!Span
        <5>5. <<>> \o <<>> \o window = window
          BY <5>4, ConcatEmptySeq
        <5>6. QED
          BY <3>1, <3>2, <5>1, <5>2, <5>3, <5>5, TimeAssumption
      <4>2. CASE ~first_window
        <5>1. window[WindowHops] = Len(fed) + 1
          BY <3>1, <4>2 DEF StreamInv
        <5>2. Len(fed) \in Nat /\ fed \in Seq(Int)
          <6>1. DEFINE n == Len(fed)
          <6>2. n \in Int
            BY <3>2, <5>1
          <6>3. fed = [i \in 1 .. n |-> i]
            BY <3>2, <6>2 DEF Mic!Span
          <6>4. fed \in Seq(Int)
            BY <6>3, <6>2
          <6>5. QED
            BY <6>4, LenProperties
        <5>3. NewAudio = <<window[WindowHops]>>
          <6>1. CASE Len(window) > 1
            BY <6>1, <4>2 DEF NewAudio
          <6>2. CASE ~(Len(window) > 1)
            <7>1. WindowHops = 1
              BY <6>2, <3>2, TimeAssumption
            <7>2. NewAudio = window
              BY <6>2 DEF NewAudio
            <7>3. window = [i \in 1 .. 1 |-> window[WindowHops] + i - 1]
              BY <3>2, <7>1 DEF Mic!Span
            <7>4. QED
              BY <7>1, <7>2, <7>3, <3>2
          <6>3. QED
            BY <6>1, <6>2
        <5>4. fed \o kept = fed
          BY <3>2, <5>2, ConcatEmptySeq
        <5>5. fed' = fed \o <<Len(fed) + 1>>
          BY <3>1, <5>1, <5>3, <5>4
        <5>6. Mic!Span(1, Len(fed)) \o <<Len(fed) + 1>> = Mic!Span(1, Len(fed) + 1)
          BY <5>2, SpanGrows
        <5>7. QED
          BY <3>2, <5>1, <5>2, <5>5, <5>6
      <4>3. QED
        BY <4>1, <4>2
    <3>4. Len(fed') = window[WindowHops]
      <4>1. fed' = [i \in 1 .. window[WindowHops] |-> i]
        BY <3>2, <3>3 DEF Mic!Span
      <4>2. QED
        BY <4>1, <3>2
    <3>5. fed' # <<>>
      BY <3>3, <3>4
    <3>6. NextEnd' = NextEnd
      BY <3>1 DEF NextEnd
    <3>7. QED
      BY <3>1, <3>2, <3>3, <3>4, <3>5, <3>6 DEF StreamInv
  <2>3. CASE /\ UNCHANGED <<window, fed, kept, first_window>>
             /\ (pc # "feed" /\ pc' # "feed") \/ pc' = pc
             /\ pc' \in {"infer", "act"} => pc \in {"infer", "act"}
             /\ pc = "exited" => pc' = "exited"
    <3>1. NextEnd' = NextEnd
      BY <2>3 DEF NextEnd
    <3>2. QED
      BY <2>3, <3>1 DEF StreamInv
  <2> HIDE DEF NextEnd
  <2> USE DEF micVars, gateVars, hitVars, timeVars, signalVars
  <2>4. CASE Install \/ Start \/ Open \/ ReadCheck \/ ReadTimeout
    BY <2>4, <2>3 DEF Install, Start, Open, Throw, ReadCheck, ReadTimeout
  <2>5. CASE Infer \/ Act \/ Stop
    BY <2>5, <2>3 DEF Infer, Act, Stop, Throw
  <2>6. CASE Tick
    BY <2>6, <2>3 DEF Tick, Mic!Capture
  <2>7. CASE OnSignal \/ Exited \/ UNCHANGED vars
    BY <2>7, <2>3 DEF OnSignal, Exited, vars
  <2>8. QED
    BY <2>1, <2>2, <2>4, <2>5, <2>6, <2>7 DEF Next, MainThread
<1>3. QED
  BY <1>1, <1>2, PTL DEF Spec

(* The overlapping windows reach the gate as one stream.                   *)
THEOREM GateHearsStream == Spec => []VadHearsEveryHopOnce
<1>1. StreamInv => VadHearsEveryHopOnce
  BY DEF StreamInv, VadHearsEveryHopOnce
<1>2. QED
  BY <1>1, StreamHolds, PTL
-----------------------------------------------------------------------------
(* What is a place, a flag or an answer.                                   *)
FlagInv ==
  /\ pc \in Places /\ exit_code \in {0, 1}
  /\ running \in BOOLEAN /\ signalled \in BOOLEAN /\ opened \in BOOLEAN
  /\ first_window \in BOOLEAN /\ spoken \in BOOLEAN
  /\ active \in BOOLEAN /\ voice \in Gate!Answers

LEMMA FlagsHold == Spec => []FlagInv
<1>1. Init => FlagInv
  <2> SUFFICES ASSUME Init
               PROVE  FlagInv
    OBVIOUS
  <2>1. /\ pc = "install" /\ exit_code = 0 /\ voice = Gate!Silent
        /\ running = TRUE /\ signalled = FALSE /\ opened = FALSE
        /\ first_window = TRUE /\ spoken = FALSE /\ active = FALSE
    BY DEF Init, Gate!Init
  <2>2. Gate!Silent \in Gate!Answers
    BY DEF Gate!Silent, Gate!Answers
  <2>3. "install" \in Places
    BY DEF Places
  <2>4. QED
    BY <2>1, <2>2, <2>3, Zenon DEF FlagInv
<1>2. FlagInv /\ [Next]_vars => FlagInv'
  <2> SUFFICES ASSUME FlagInv, [Next]_vars
               PROVE  FlagInv'
    OBVIOUS
  <2> USE DEF FlagInv, Places, Processing, micVars, gateVars, hitVars, timeVars, signalVars
  <2>1. CASE Install \/ Start \/ Open \/ ReadCheck \/ ReadWindow \/ ReadTimeout
    <3>1. CASE Install \/ Start \/ Open
      BY <2>1, <3>1 DEF Install, Start, Open, Throw
    <3>2. CASE ReadCheck \/ ReadWindow \/ ReadTimeout
      BY <2>1, <3>2 DEF ReadCheck, ReadWindow, ReadTimeout
    <3>3. QED
      BY <2>1, <3>1, <3>2
  <2>2. CASE FeedVad
    <3>1. CASE /\ Gate!Answer
               /\ spoken' = (spoken \/ voice'.has_speech)
               /\ pc' = IF ~voice'.has_speech /\ ~voice'.speech_active THEN "read" ELSE "infer"
               /\ UNCHANGED <<running, opened, exit_code>>
      <4>1. /\ voice' \in Gate!Answers /\ active' = voice'.speech_active
            /\ first_window' = FALSE /\ signalled' = signalled
        BY <2>2, <3>1 DEF FeedVad, Gate!Answer
      <4>2. voice'.has_speech \in BOOLEAN /\ voice'.speech_active \in BOOLEAN
        BY <4>1 DEF Gate!Answers
      <4>3. spoken' \in BOOLEAN /\ pc' \in {"read", "infer"}
        BY <3>1, <4>2
      <4>4. QED
        BY <3>1, <4>1, <4>2, <4>3
    <3>2. CASE Gate!Fail /\ Throw /\ UNCHANGED spoken
      BY <2>2, <3>2 DEF FeedVad, Gate!Fail, Throw
    <3>3. QED
      BY <2>2, <3>1, <3>2 DEF FeedVad
  <2>3. CASE Infer \/ Act \/ Stop
    BY <2>3 DEF Infer, Act, Stop, Throw
  <2>4. CASE OnSignal \/ Tick \/ Exited \/ UNCHANGED vars
    <3>1. CASE Tick
      <4>1. UNCHANGED <<active, voice, spoken, first_window, running, signalled, pc, opened, exit_code>>
        BY <3>1, Zenon DEF Tick
      <4>2. QED
        BY <4>1
    <3>2. CASE OnSignal
      BY <3>2 DEF OnSignal
    <3>3. CASE Exited \/ UNCHANGED vars
      BY <3>3 DEF Exited, vars
    <3>4. QED
      BY <2>4, <3>1, <3>2, <3>3
  <2>5. QED
    BY <2>1, <2>2, <2>3, <2>4 DEF Next, MainThread
<1>3. QED
  BY <1>1, <1>2, PTL DEF Spec

(* What is counted. The last window is one the microphone has delivered.   *)
CountInv ==
  /\ captured \in Nat /\ lateActions \in Nat
  /\ elapsed \in 0 .. CooldownTicks /\ gap \in 0 .. CooldownTicks
  /\ phase \in 0 .. HopTicks - 1 /\ busy \in 0 .. MaxBusy
  /\ hitEnd \in 0 .. captured
  /\ window # <<>> => Len(window) = WindowHops /\ window[WindowHops] \in 0 .. captured

LEMMA CountsHold == Spec => []CountInv
<1> USE TimeAssumption
<1>1. Init => CountInv
  BY DEF Init, CountInv, Mic!Init
<1>2. CountInv /\ StreamInv /\ [Next]_vars => CountInv'
  <2> SUFFICES ASSUME CountInv, StreamInv, [Next]_vars
               PROVE  CountInv'
    OBVIOUS
  <2> USE DEF CountInv, micVars, gateVars, hitVars, timeVars, signalVars
  <2>1. CASE Install \/ Start \/ Open \/ ReadCheck \/ ReadTimeout
    <3>1. /\ UNCHANGED <<captured, window, elapsed, phase, busy, hitEnd, lateActions>>
          /\ gap' \in {gap, CooldownTicks}
      BY <2>1 DEF Install, Start, Open, ReadCheck, ReadTimeout
    <3>2. QED
      BY <3>1
  <2>2. CASE ReadWindow
    <3>1. /\ UNCHANGED <<lateActions, elapsed, gap, phase, hitEnd>> /\ busy' = 0
          /\ Mic!Deliver
      BY <2>2 DEF ReadWindow
    <3>2. NextEnd \in Nat /\ NextEnd >= WindowHops
      BY DEF StreamInv
    <3>3. /\ Len(window') = WindowHops /\ window'[WindowHops] = NextEnd
          /\ NextEnd <= captured /\ captured' = captured
      BY <3>1, <3>2, Delivered
    <3>4. QED
      BY <3>1, <3>2, <3>3
  <2>3. CASE FeedVad \/ Infer \/ Stop
    BY <2>3 DEF FeedVad, Infer, Stop
  <2>4. CASE Act
    <3>1. window # <<>>
      BY <2>4 DEF Act, StreamInv
    <3>2. lateActions' \in Nat
      BY <2>4 DEF Act
    <3>3. hitEnd' \in 0 .. captured /\ gap' \in 0 .. CooldownTicks
      BY <2>4, <3>1 DEF Act
    <3>4. QED
      BY <2>4, <3>2, <3>3 DEF Act
  <2>5. CASE Tick
    <3>1. busy' \in 0 .. MaxBusy
      BY <2>5 DEF Tick
    <3>2. elapsed' \in 0 .. CooldownTicks /\ gap' \in 0 .. CooldownTicks
      BY <2>5 DEF Tick, Capped
    <3>3. phase' \in 0 .. HopTicks - 1 /\ captured' \in {captured, captured + 1} /\ window' = window
      BY <2>5 DEF Tick, Mic!Capture
    <3>4. UNCHANGED <<lateActions, hitEnd>>
      BY <2>5 DEF Tick
    <3>5. QED
      BY <3>1, <3>2, <3>3, <3>4
  <2>6. CASE OnSignal \/ Exited \/ UNCHANGED vars
    BY <2>6 DEF OnSignal, Exited, vars
  <2>7. QED
    BY <2>1, <2>2, <2>3, <2>4, <2>5, <2>6 DEF Next, MainThread
<1>3. QED
  BY <1>1, <1>2, StreamHolds, PTL DEF Spec

(* Every variable has its type, neither the gate nor an action is ahead of *)
(* the microphone, and only a program that has ended keeps unheard audio.  *)
THEOREM TypeCorrect == Spec => []TypeOK
<1>1. FlagInv /\ CountInv /\ StreamInv => TypeOK
  <2> SUFFICES ASSUME FlagInv, CountInv, StreamInv
               PROVE  TypeOK
    OBVIOUS
  <2>1. captured \in Nat /\ (kept = <<>> \/ pc = "exited")
    BY DEF CountInv, StreamInv
  <2>2. CASE window = <<>>
    <3>1. fed = <<>>
      BY <2>2 DEF StreamInv
    <3>2. Len(fed) <= captured
      BY <2>1, <3>1
    <3>3. QED
      BY <2>1, <2>2, <3>2 DEF FlagInv, CountInv, TypeOK
  <2>3. CASE window # <<>>
    <3>1. window[WindowHops] \in 0 .. captured
      BY <2>3 DEF CountInv
    <3>2. Len(fed) <= captured
      <4>1. CASE pc = "feed" /\ first_window
        <5>1. fed = <<>>
          BY <4>1 DEF StreamInv
        <5>2. QED
          BY <2>1, <5>1
      <4>2. CASE pc = "feed" /\ ~first_window
        <5>1. window[WindowHops] = Len(fed) + 1
          BY <4>2 DEF StreamInv
        <5>2. QED
          BY <2>1, <3>1, <5>1
      <4>3. CASE pc # "feed"
        <5>1. Len(fed) = window[WindowHops]
          BY <2>3, <4>3 DEF StreamInv
        <5>2. QED
          BY <2>1, <3>1, <5>1
      <4>4. QED
        BY <4>1, <4>2, <4>3
    <3>3. QED
      BY <2>1, <2>3, <3>2 DEF FlagInv, CountInv, TypeOK
  <2>4. QED
    BY <2>2, <2>3
<1>2. QED
  BY <1>1, FlagsHold, CountsHold, StreamHolds, PTL
-----------------------------------------------------------------------------
(* The microphone's clock, in ticks: what it has delivered and the part of *)
(* the next hop that has passed.                                           *)
Clock == captured * HopTicks + phase

(* A loop that needs at most a hop's time for a window never falls behind: *)
(* when it is not processing, the next window is not overdue, and while it *)
(* is, the window's age is the time spent on it. The time since the last   *)
(* action is bounded by the age of that action's window.                   *)
PaceInv ==
  /\ captured \in Nat /\ phase \in 0 .. HopTicks - 1 /\ busy \in 0 .. MaxBusy
  /\ elapsed \in Nat /\ gap \in Nat /\ hitEnd \in Nat
  /\ NextEnd \in Nat /\ NextEnd >= WindowHops
  /\ window # <<>> => Len(window) = WindowHops /\ window[WindowHops] \in Nat
  /\ pc \in Processing =>
       /\ window # <<>>
       /\ Clock = window[WindowHops] * HopTicks + busy
  /\ pc \notin Processing \union {"exited"} => Clock <= NextEnd * HopTicks
  /\ pc = "act" => elapsed <= busy /\ gap >= CooldownTicks
  /\ hitEnd # 0 => gap <= Clock - hitEnd * HopTicks
  /\ pc \in {"install", "start", "open"} => hitEnd = 0

(* Each tick moves the clock by one. *)
LEMMA ClockTicks ==
  ASSUME captured \in Nat, phase \in 0 .. HopTicks - 1, Tick
  PROVE  /\ captured' \in Nat /\ phase' \in 0 .. HopTicks - 1
         /\ window' = window
         /\ Clock' = Clock + 1
<1>1. HopTicks \in Nat /\ HopTicks > 0
  BY TimeAssumption
<1>2. CASE phase + 1 < HopTicks
  BY <1>1, <1>2 DEF Tick, micVars, Clock
<1>3. CASE ~(phase + 1 < HopTicks)
  <2>1. captured' = captured + 1 /\ phase' = 0 /\ window' = window
    BY <1>3 DEF Tick, Mic!Capture
  <2>2. phase + 1 = HopTicks
    BY <1>1, <1>3
  <2>3. (captured + 1) * HopTicks = captured * HopTicks + HopTicks
    BY <1>1
  <2>4. QED
    BY <1>1, <2>1, <2>2, <2>3 DEF Clock
<1>4. QED
  BY <1>2, <1>3

(* Before its next window is due a loop is at most one tick early.         *)
LEMMA NotDue ==
  ASSUME captured \in Nat, phase \in 0 .. HopTicks - 1, NextEnd \in Nat, ~WindowReady
  PROVE  Clock + 1 <= NextEnd * HopTicks
<1>1. HopTicks \in Nat /\ HopTicks > 0
  BY TimeAssumption
<1>2. captured + 1 <= NextEnd
  BY NextEndsAreOne DEF WindowReady
<1>3. PICK d \in Nat : NextEnd = captured + 1 + d
  BY <1>2
<1>4. (captured + 1 + d) * HopTicks = captured * HopTicks + HopTicks + d * HopTicks
  BY <1>1, <1>3
<1>5. d * HopTicks >= 0 /\ d * HopTicks \in Int /\ captured * HopTicks \in Int
  BY <1>1
<1>6. QED
  BY <1>1, <1>3, <1>4, <1>5 DEF Clock

(* A window that can be delivered has its last hop on the clock.           *)
LEMMA Due ==
  ASSUME captured \in Nat, phase \in 0 .. HopTicks - 1, NextEnd \in Nat, NextEnd <= captured
  PROVE  NextEnd * HopTicks <= Clock
<1>1. HopTicks \in Nat /\ HopTicks > 0
  BY TimeAssumption
<1>2. PICK d \in Nat : captured = NextEnd + d
  OBVIOUS
<1>3. (NextEnd + d) * HopTicks = NextEnd * HopTicks + d * HopTicks
  BY <1>1, <1>2
<1>4. d * HopTicks >= 0 /\ d * HopTicks \in Int /\ NextEnd * HopTicks \in Int
  BY <1>1
<1>5. QED
  BY <1>1, <1>2, <1>3, <1>4 DEF Clock

(* The loop keeps the microphone's pace from the first hop to the last.    *)
LEMMA PaceHolds ==
  ASSUME MaxBusy <= HopTicks
  PROVE  Spec => []PaceInv
<1> USE DEF Processing
<1>1. Init => PaceInv
  <2> SUFFICES ASSUME Init PROVE PaceInv
    OBVIOUS
  <2>1. /\ window = <<>> /\ captured = 0 /\ pc = "install" /\ hitEnd = 0
        /\ elapsed = 0 /\ gap = 0 /\ phase = 0 /\ busy = 0
    BY DEF Init, Mic!Init
  <2>2. NextEnd = WindowHops
    BY <2>1 DEF NextEnd
  <2>3. Clock = 0
    BY <2>1, TimeAssumption DEF Clock
  <2>4. WindowHops * HopTicks >= 0
    BY TimeAssumption
  <2>5. QED
    BY <2>1, <2>2, <2>3, <2>4, TimeAssumption DEF PaceInv
<1>2. PaceInv /\ [Next]_vars => PaceInv'
  <2> SUFFICES ASSUME PaceInv, [Next]_vars
               PROVE  PaceInv'
    OBVIOUS
  <2>0. /\ captured \in Nat /\ phase \in 0 .. HopTicks - 1 /\ busy \in 0 .. MaxBusy
        /\ elapsed \in Nat /\ gap \in Nat /\ hitEnd \in Nat
        /\ NextEnd \in Nat /\ NextEnd >= WindowHops
        /\ HopTicks \in Nat /\ HopTicks > 0 /\ CooldownTicks \in Nat /\ MaxBusy \in Nat
    BY TimeAssumption DEF PaceInv
  <2>a. Clock \in Int
    BY <2>0 DEF Clock
  <2>1. CASE ReadWindow
    <3>1. /\ pc = "wait" /\ pc' = "feed" /\ busy' = 0
          /\ UNCHANGED <<hitEnd, elapsed, gap, phase>> /\ Mic!Deliver
      BY <2>1 DEF ReadWindow, hitVars
    <3>2. /\ window' # <<>> /\ Len(window') = WindowHops /\ window'[WindowHops] = NextEnd
          /\ NextEnd <= captured /\ captured' = captured
      BY <2>0, <3>1, Delivered
    <3>3. Clock' = Clock
      BY <3>1, <3>2 DEF Clock
    <3>4. Clock = NextEnd * HopTicks
      <4>1. Clock <= NextEnd * HopTicks
        BY <3>1 DEF PaceInv
      <4>2. NextEnd * HopTicks <= Clock
        BY <2>0, <3>2, Due
      <4>3. NextEnd * HopTicks \in Int
        BY <2>0
      <4>4. QED
        BY <4>1, <4>2, <4>3, <2>a
    <3>5. NextEnd' = NextEnd + 1
      BY <3>2 DEF NextEnd
    <3>6. hitEnd # 0 => gap <= Clock - hitEnd * HopTicks
      BY DEF PaceInv
    <3>7. QED
      BY <2>0, <2>a, <3>1, <3>2, <3>3, <3>4, <3>5, <3>6 DEF PaceInv
  <2>2. CASE Tick
    <3>1. /\ captured' \in Nat /\ phase' \in 0 .. HopTicks - 1
          /\ window' = window /\ Clock' = Clock + 1
      BY <2>0, <2>2, ClockTicks
    <3>2. NextEnd' = NextEnd
      BY <3>1 DEF NextEnd
    <3>3. /\ pc' = pc /\ hitEnd' = hitEnd
          /\ elapsed' = Capped(elapsed + 1) /\ gap' = Capped(gap + 1)
      BY <2>2 DEF Tick, hitVars
    <3>4. /\ elapsed' \in Nat /\ elapsed' <= elapsed + 1
          /\ gap' \in Nat /\ gap' <= gap + 1
          /\ gap >= CooldownTicks => gap' >= CooldownTicks
      BY <2>0, <3>3 DEF Capped
    <3>5. CASE pc \in Processing
      <4>1. busy' = busy + 1 /\ busy < MaxBusy
        BY <2>2, <3>5 DEF Tick
      <4>2. window # <<>> /\ Clock = window[WindowHops] * HopTicks + busy
        BY <3>5 DEF PaceInv
      <4>3. Clock' = window'[WindowHops] * HopTicks + busy'
        <5>1. window[WindowHops] \in Nat
          BY <4>2 DEF PaceInv
        <5>2. window[WindowHops] * HopTicks \in Int
          BY <5>1, <2>0
        <5>3. QED
          BY <2>0, <3>1, <4>1, <4>2, <5>2
      <4>4. pc = "act" => elapsed' <= busy' /\ gap' >= CooldownTicks
        BY <2>0, <3>4, <4>1 DEF PaceInv
      <4>5. hitEnd # 0 => gap' <= Clock' - hitEnd * HopTicks
        <5> DEFINE last == hitEnd * HopTicks
        <5>1. last \in Int /\ (hitEnd # 0 => gap <= Clock - last)
          BY <2>0 DEF PaceInv
        <5> HIDE DEF last
        <5>2. hitEnd # 0 => gap' <= Clock' - last
          BY <2>0, <2>a, <3>1, <3>4, <5>1
        <5>3. QED
          BY <5>2 DEF last
      <4>6. window # <<>> => Len(window) = WindowHops /\ window[WindowHops] \in Nat
        BY DEF PaceInv
      <4>7. QED
        BY <2>0, <3>1, <3>2, <3>3, <3>4, <3>5, <4>1, <4>2, <4>3, <4>4, <4>5, <4>6 DEF PaceInv
    <3>6. CASE pc \notin Processing
      <4>1. busy' = busy /\ ~WindowReady
        BY <2>2, <3>6 DEF Tick
      <4>2. Clock' <= NextEnd' * HopTicks
        BY <2>0, <3>1, <3>2, <4>1, NotDue
      <4>3. hitEnd # 0 => gap' <= Clock' - hitEnd * HopTicks
        <5> DEFINE last == hitEnd * HopTicks
        <5>1. last \in Int /\ (hitEnd # 0 => gap <= Clock - last)
          BY <2>0 DEF PaceInv
        <5> HIDE DEF last
        <5>2. hitEnd # 0 => gap' <= Clock' - last
          BY <2>0, <2>a, <3>1, <3>4, <5>1
        <5>3. QED
          BY <5>2 DEF last
      <4>4. /\ window # <<>> => Len(window) = WindowHops /\ window[WindowHops] \in Nat
            /\ pc \in {"install", "start", "open"} => hitEnd = 0
        BY DEF PaceInv
      <4>5. QED
        BY <2>0, <3>1, <3>2, <3>3, <3>4, <3>6, <4>1, <4>2, <4>3, <4>4 DEF PaceInv
    <3>7. QED
      BY <3>5, <3>6
  <2>3. ASSUME UNCHANGED <<captured, window, phase>>
        PROVE  Clock' = Clock /\ NextEnd' = NextEnd
    BY <2>3 DEF Clock, NextEnd
  <2>4. ASSUME pc \in Processing
        PROVE  /\ window[WindowHops] \in Nat
               /\ Clock = window[WindowHops] * HopTicks + busy
               /\ Clock <= NextEnd * HopTicks
    <3>1. /\ window # <<>> /\ window[WindowHops] \in Nat
          /\ Clock = window[WindowHops] * HopTicks + busy
      BY <2>4 DEF PaceInv
    <3>2. NextEnd = window[WindowHops] + 1
      BY <3>1 DEF NextEnd
    <3>3. (window[WindowHops] + 1) * HopTicks = window[WindowHops] * HopTicks + HopTicks
      BY <2>0, <3>1
    <3>4. window[WindowHops] * HopTicks \in Int
      BY <2>0, <3>1
    <3>5. busy <= HopTicks
      BY <2>0
    <3> DEFINE end == window[WindowHops] * HopTicks
    <3>6. NextEnd * HopTicks = end + HopTicks /\ Clock = end + busy /\ end \in Int
      BY <3>1, <3>2, <3>3, <3>4
    <3> HIDE DEF end
    <3>7. Clock <= NextEnd * HopTicks
      BY <2>0, <3>5, <3>6
    <3>8. QED
      BY <3>1, <3>7
  <2>5. CASE Act
    <3>1. /\ UNCHANGED <<captured, window, phase, busy, elapsed>>
          /\ pc = "act" /\ pc' = "read" /\ gap' = elapsed /\ hitEnd' = window[WindowHops]
      BY <2>5 DEF Act, micVars
    <3>2. Clock' = Clock /\ NextEnd' = NextEnd
      BY <2>3, <3>1
    <3>3. /\ window[WindowHops] \in Nat
          /\ Clock = window[WindowHops] * HopTicks + busy
          /\ Clock <= NextEnd * HopTicks
      BY <2>4, <3>1
    <3>4. elapsed <= busy
      BY <3>1 DEF PaceInv
    <3>5. gap' <= Clock' - hitEnd' * HopTicks
      <4> DEFINE end == window[WindowHops] * HopTicks
      <4>1. end \in Int /\ Clock' = end + busy
        BY <2>0, <3>2, <3>3
      <4> HIDE DEF end
      <4>2. gap' <= Clock' - end
        BY <2>0, <3>1, <3>4, <4>1
      <4>3. QED
        BY <3>1, <4>2 DEF end
    <3>6. window # <<>> => Len(window) = WindowHops /\ window[WindowHops] \in Nat
      BY DEF PaceInv
    <3>7. QED
      BY <2>0, <3>1, <3>2, <3>3, <3>5, <3>6 DEF PaceInv
  <2> USE DEF micVars, gateVars, hitVars, timeVars, signalVars
  <2>6. CASE FeedVad \/ Infer
    <3>1. /\ UNCHANGED <<captured, window, phase, busy, gap, hitEnd>>
          /\ pc \in {"feed", "infer"} /\ pc' \in {"read", "infer", "act", "exited"}
          /\ elapsed' \in {elapsed, 0}
          /\ pc' = "act" => elapsed' = 0 /\ gap >= CooldownTicks
      BY <2>0, <2>6 DEF FeedVad, Infer, Throw
    <3>2. Clock' = Clock /\ NextEnd' = NextEnd
      BY <2>3, <3>1
    <3>3. /\ window[WindowHops] \in Nat
          /\ Clock = window[WindowHops] * HopTicks + busy
          /\ Clock <= NextEnd * HopTicks
      BY <2>4, <3>1
    <3>4. /\ window # <<>>
          /\ Len(window) = WindowHops /\ window[WindowHops] \in Nat
          /\ hitEnd # 0 => gap <= Clock - hitEnd * HopTicks
      BY <3>1 DEF PaceInv
    <3>5. /\ elapsed' \in Nat
          /\ pc' = "act" => elapsed' <= busy' /\ gap' >= CooldownTicks
      BY <2>0, <3>1
    <3>6. /\ pc' \in Processing =>
               window' # <<>> /\ Clock' = window'[WindowHops] * HopTicks + busy'
          /\ pc' \notin Processing \union {"exited"} => Clock' <= NextEnd' * HopTicks
          /\ hitEnd' # 0 => gap' <= Clock' - hitEnd' * HopTicks
      <4> HIDE DEF Clock, NextEnd
      <4>1. QED
        BY <3>1, <3>2, <3>3, <3>4
    <3>7. pc' \notin {"install", "start", "open"}
      BY <3>1
    <3>8. QED
      BY <2>0, <3>1, <3>2, <3>4, <3>5, <3>6, <3>7 DEF PaceInv
  <2>7. CASE Install \/ Start \/ Open \/ ReadCheck \/ ReadTimeout \/ Stop \/ OnSignal
                \/ Exited \/ UNCHANGED vars
    <3>1. /\ UNCHANGED <<captured, window, phase, busy, hitEnd, elapsed>>
          /\ \/ pc' = pc
             \/ pc \notin Processing \union {"exited"} /\ pc' \notin Processing
          /\ \/ gap' = gap
             \/ gap' = CooldownTicks /\ hitEnd = 0 /\ pc' # "act"
          /\ pc' \in {"install", "start", "open"} => pc \in {"install", "start", "open"}
      BY <2>7 DEF PaceInv, Install, Start, Open, Throw, ReadCheck, ReadTimeout, Stop, OnSignal,
                  Exited, vars
    <3>2. Clock' = Clock /\ NextEnd' = NextEnd
      BY <2>3, <3>1
    <3>3. QED
      BY <2>0, <3>1, <3>2 DEF PaceInv
  <2>8. QED
    BY <2>1, <2>2, <2>5, <2>6, <2>7 DEF Next, MainThread
<1>3. QED
  BY <1>1, <1>2, PTL DEF Spec

(* A loop that keeps up with the microphone never acts on two windows that *)
(* are closer than the cooldown less the time it spends on a window.       *)
THEOREM ActionsSpaced ==
  ASSUME MaxBusy <= HopTicks
  PROVE  Spec => HitsSpaced
<1>1. PaceInv /\ [Next]_vars =>
        [hitEnd # 0 /\ hitEnd' # hitEnd
           => (hitEnd' - hitEnd) * HopTicks >= CooldownTicks - MaxBusy]_vars
  <2> SUFFICES ASSUME PaceInv, Next, hitEnd # 0, hitEnd' # hitEnd
               PROVE  (hitEnd' - hitEnd) * HopTicks >= CooldownTicks - MaxBusy
    OBVIOUS
  <2>1. Act
    BY DEF Next, MainThread, Install, Start, Open, ReadCheck, ReadWindow, ReadTimeout, FeedVad,
           Infer, Stop, OnSignal, Tick, Exited, vars, hitVars
  <2>2. pc = "act" /\ hitEnd' = window[WindowHops]
    BY <2>1 DEF Act
  <2>3. /\ window # <<>> /\ window[WindowHops] \in Nat
        /\ Clock = window[WindowHops] * HopTicks + busy
        /\ gap >= CooldownTicks /\ gap <= Clock - hitEnd * HopTicks
        /\ gap \in Nat /\ hitEnd \in Nat /\ busy \in 0 .. MaxBusy
    BY <2>2 DEF PaceInv, Processing
  <2>4. HopTicks \in Nat /\ CooldownTicks \in Nat /\ MaxBusy \in Nat
    BY TimeAssumption
  <2>5. (window[WindowHops] - hitEnd) * HopTicks = window[WindowHops] * HopTicks - hitEnd * HopTicks
    BY <2>3, <2>4
  <2>6. window[WindowHops] * HopTicks \in Int /\ hitEnd * HopTicks \in Int
    BY <2>3, <2>4
  <2>7. window[WindowHops] * HopTicks - hitEnd * HopTicks >= CooldownTicks - MaxBusy
    <3> DEFINE end == window[WindowHops] * HopTicks
               last == hitEnd * HopTicks
    <3>1. /\ end \in Int /\ last \in Int /\ Clock = end + busy
          /\ gap <= Clock - last
      BY <2>3, <2>6
    <3> HIDE DEF end, last
    <3>2. end - last >= CooldownTicks - MaxBusy
      BY <2>3, <2>4, <3>1
    <3>3. QED
      BY <3>2 DEF end, last
  <2>8. QED
    BY <2>2, <2>5, <2>7
<1>2. QED
  BY <1>1, PaceHolds, PTL DEF Spec, HitsSpaced

(* Whole hops compare as their ticks do. *)
LEMMA HopsCompare ==
  ASSUME NEW a \in Nat, NEW b \in Nat, NEW rest \in Nat,
         rest < HopTicks, a * HopTicks <= b * HopTicks + rest
  PROVE  a <= b
<1>1. HopTicks \in Nat /\ HopTicks > 0
  BY TimeAssumption
<1>2. SUFFICES ASSUME a > b PROVE FALSE
  OBVIOUS
<1>3. PICK d \in Nat : a = b + 1 + d
  <2>1. a - (b + 1) \in Nat /\ a = b + 1 + (a - (b + 1))
    BY <1>2
  <2>2. QED
    BY <2>1
<1>4. a * HopTicks = b * HopTicks + HopTicks + d * HopTicks
  BY <1>1, <1>3
<1>5. d * HopTicks \in Nat /\ b * HopTicks \in Nat
  BY <1>1, <1>3
<1>6. QED
  BY <1>1, <1>4, <1>5

(* The queue of a loop that keeps up with the microphone needs no limit:   *)
(* never is more than a hop behind the window the loop is at.              *)
THEOREM QueueStaysShort ==
  ASSUME MaxBusy <= HopTicks
  PROVE  Spec => []BacklogBounded
<1>1. PaceInv => BacklogBounded
  <2> SUFFICES ASSUME PaceInv, pc # "exited"
               PROVE  captured <= NextEnd
    BY DEF BacklogBounded, NextEnd
  <2>1. /\ captured \in Nat /\ phase \in 0 .. HopTicks - 1 /\ busy \in 0 .. MaxBusy
        /\ NextEnd \in Nat
    BY DEF PaceInv
  <2>2. HopTicks \in Nat /\ HopTicks > 0 /\ MaxBusy \in Nat
    BY TimeAssumption
  <2>3. Clock <= NextEnd * HopTicks
    <3>1. CASE pc \in Processing
      <4>1. window # <<>> /\ window[WindowHops] \in Nat
            /\ Clock = window[WindowHops] * HopTicks + busy
        BY <3>1 DEF PaceInv
      <4>2. NextEnd * HopTicks = window[WindowHops] * HopTicks + HopTicks
        BY <4>1, <2>2 DEF NextEnd
      <4>3. window[WindowHops] * HopTicks \in Nat
        BY <4>1, <2>2
      <4>4. QED
        BY <4>1, <4>2, <4>3, <2>1, <2>2
    <3>2. CASE pc \notin Processing
      BY <3>2 DEF PaceInv
    <3>3. QED
      BY <3>1, <3>2
  <2>4. captured * HopTicks \in Nat /\ NextEnd * HopTicks \in Nat
    BY <2>1, <2>2
  <2>5. captured * HopTicks <= NextEnd * HopTicks + 0
    BY <2>1, <2>2, <2>3, <2>4 DEF Clock
  <2>6. QED
    BY <2>1, <2>2, <2>5, HopsCompare
<1>2. QED
  BY <1>1, PaceHolds, PTL
=============================================================================
