------------------------------ MODULE Program -------------------------------
(***************************************************************************)
(* main.cc around the two modes: ParseArgs, the loading of the models,     *)
(* ReadWav and RunWavFile, and the program's exit status. RunMicrophone is *)
(* a module of its own; here it is a mode that acts any number of times.   *)
(*                                                                         *)
(* A word of the command line is an option, the empty string or one of a   *)
(* few values. What the code tells of a value read by std::stof is whether *)
(* it is between 0 and 1, whether it is outside, and "nan" is neither.     *)
(***************************************************************************)
EXTENDS InputDevice, SequencesExt

CONSTANTS
  Values,     \* bound: words of the command line that are no options
  Numbers,    \* those std::stof reads
  Thresholds, \* those greater than 0 and less than 1
  OutOfRange, \* those at most 0 or at least 1
  WavFiles,   \* bound: contents of the file of --wav
  FrameSamples, \* samples below which there is no frame
  MaxArgs,    \* bound: words on the command line
  MaxHits     \* bound: actions in microphone mode

Options == {"-h", "--help", "--keyword", "--model-dir", "--device", "--min-score",
            "--vad-threshold", "--verbose", "--wav"}
Empty == ""

ASSUME ValueAssumption ==
  /\ Empty \in Values /\ Numbers \subseteq Values
  /\ Thresholds \subseteq Numbers /\ OutOfRange \subseteq Numbers \ Thresholds
  /\ {"0.15", "0.5"} \subseteq Thresholds
  /\ DigitWords \subseteq Values
  /\ Values \intersect Options = {} /\ Empty \notin Numbers
  /\ MaxArgs \in Nat /\ MaxHits \in Nat /\ FrameSamples \in Nat
  /\ WavFiles \subseteq
       [opens : BOOLEAN, header : BOOLEAN, riff : BOOLEAN, format : BOOLEAN, bytes : Nat]

VARIABLES
  pc,      \* where the program is
  argv, i, \* the command line and the word ParseArgs is at
  missing, \* history: options reported to lack their value
  opt,     \* Options
  bytes,   \* bytes of audio ReadWav has read
  hits,    \* calls of OnKeyword
  next_direction, angle_degrees, \* the simulated locator and servo
  hardware, device_index_, \* what PortAudio has found and what is opened of it
  status   \* exit status

actionVars == <<hits, next_direction, angle_degrees>>
deviceVars == <<hardware, device_index_>>
vars == <<pc, argv, i, missing, opt, bytes, actionVars, deviceVars, status>>

(* Before PortAudio has looked, as when it found nothing.                  *)
Unknown == [devices |-> <<>>, default |-> paNoDevice]

DefaultOptions ==
  [keywords |-> "words", model_dir |-> "./onnx_model", device |-> Empty, wav |-> Empty,
   min_score |-> "0.15", vad_threshold |-> "0.5", verbose |-> FALSE]

Init ==
  /\ pc = "parse" /\ argv \in BoundedSeq(Options \union Values, MaxArgs) /\ i = 1
  /\ missing = {} /\ opt = DefaultOptions
  /\ bytes = 0 /\ hits = 0 /\ next_direction = 0 /\ angle_degrees = 90
  /\ hardware = Unknown /\ device_index_ = paNoDevice
  /\ status = 0

Exit(code) == pc' = "exit" /\ status' = code

-----------------------------------------------------------------------------
(* ParseArgs *)

TextField ==
  [option \in {"--keyword", "--model-dir", "--device", "--wav"} |->
     CASE option = "--keyword" -> "keywords"
       [] option = "--model-dir" -> "model_dir"
       [] option = "--device" -> "device"
       [] option = "--wav" -> "wav"]

NumberField ==
  [option \in {"--min-score", "--vad-threshold"} |->
     IF option = "--min-score" THEN "min_score" ELSE "vad_threshold"]

loaded == <<argv, bytes, actionVars, deviceVars>>

ParseHelp ==
  /\ pc = "parse" /\ i <= Len(argv) /\ argv[i] \in {"-h", "--help"}
  /\ Exit(0)
  /\ UNCHANGED <<loaded, i, missing, opt>>

ParseVerbose ==
  /\ pc = "parse" /\ i <= Len(argv) /\ argv[i] = "--verbose"
  /\ opt' = [opt EXCEPT !.verbose = TRUE]
  /\ i' = i + 1
  /\ UNCHANGED <<loaded, pc, missing, status>>

ParseUnknown ==
  /\ pc = "parse" /\ i <= Len(argv) /\ argv[i] \notin Options
  /\ Exit(1)
  /\ UNCHANGED <<loaded, i, missing, opt>>

(* The lambda need: the next word, whatever it is, or an empty string.     *)
need == IF i + 1 > Len(argv) THEN Empty ELSE argv[i + 1]

ReportMissing == missing' = IF i + 1 > Len(argv) THEN missing \union {argv[i]} ELSE missing

ParseText ==
  /\ pc = "parse" /\ i <= Len(argv) /\ argv[i] \in DOMAIN TextField
  /\ opt' = [opt EXCEPT ![TextField[argv[i]]] = need]
  /\ ReportMissing
  /\ i' = i + 2
  /\ UNCHANGED <<loaded, pc, status>>

(* std::stof throws when the word is no number, and main catches it.       *)
ParseNumber ==
  /\ pc = "parse" /\ i <= Len(argv) /\ argv[i] \in DOMAIN NumberField
  /\ ReportMissing
  /\ IF need \in Numbers
     THEN /\ opt' = [opt EXCEPT ![NumberField[argv[i]]] = need]
          /\ i' = i + 2
          /\ UNCHANGED <<pc, status>>
     ELSE Exit(1) /\ UNCHANGED <<opt, i>>
  /\ UNCHANGED loaded

(* Mutation: the condition of the detector's constructor, turned round.    *)
Accepted_NotOutOfRange ==
  opt.keywords # Empty /\ opt.model_dir # Empty /\ opt.vad_threshold \notin OutOfRange

Accepted ==
  opt.keywords # Empty /\ opt.model_dir # Empty /\ opt.vad_threshold \in Thresholds

ParseEnd ==
  /\ pc = "parse" /\ i > Len(argv)
  /\ IF Accepted THEN pc' = "load.vad" /\ UNCHANGED status ELSE Exit(1)
  /\ UNCHANGED <<loaded, i, missing, opt>>

-----------------------------------------------------------------------------
(* main *)

parsed == <<argv, i, missing, opt>>

(* The detector's constructor throws for a threshold out of range.         *)
LoadVad ==
  /\ pc = "load.vad"
  /\ IF opt.vad_threshold \in OutOfRange
     THEN Exit(1)
     ELSE pc' = "load.engine" /\ UNCHANGED status
  /\ UNCHANGED <<parsed, bytes, actionVars, deviceVars>>

LoadEngine ==
  /\ pc = "load.engine"
  /\ pc' = IF opt.wav # Empty THEN "wav.read" ELSE "open"
  /\ UNCHANGED <<parsed, bytes, actionVars, deviceVars, status>>

samples == bytes \div 2

(* A model that cannot be loaded, a network that fails, a microphone that  *)
(* cannot be opened: the catch of main.                                    *)
Throw ==
  /\ \/ pc \in {"load.vad", "load.engine", "open", "microphone"}
     \/ pc = "wav.detect" /\ samples > 0
     \/ pc = "wav.infer" /\ samples >= FrameSamples
  /\ Exit(1)
  /\ UNCHANGED <<parsed, bytes, actionVars, deviceVars>>

(* The default actions: the report, then the locator and the servo.        *)
OnKeyword ==
  LET kDirections == <<-60, -30, 0, 30, 60>>
      direction == kDirections[(next_direction % Len(kDirections)) + 1]
  IN
  /\ hits' = hits + 1
  /\ next_direction' = next_direction + 1
  /\ angle_degrees' = IF direction + 90 < 0 THEN 0
                      ELSE IF direction + 90 > 180 THEN 180 ELSE direction + 90

ReadWav(file) ==
  /\ pc = "wav.read"
  /\ IF file.opens /\ file.header /\ file.riff /\ file.format
     THEN bytes' = file.bytes /\ pc' = "wav.detect" /\ UNCHANGED status
     ELSE Exit(1) /\ UNCHANGED bytes
  /\ UNCHANGED <<parsed, actionVars, deviceVars>>

(* Detect and Infer answer what they like, but never hear speech in no     *)
(* sample, nor a keyword in less than a frame.                             *)
Detect(has_speech) ==
  /\ pc = "wav.detect"
  /\ has_speech => samples > 0
  /\ IF has_speech THEN pc' = "wav.infer" /\ UNCHANGED status ELSE Exit(2)
  /\ UNCHANGED <<parsed, bytes, actionVars, deviceVars>>

(* Mutation: a file without a keyword is no failure.                       *)
Infer_NothingIsFine(detected) ==
  /\ pc = "wav.infer"
  /\ detected => samples >= FrameSamples
  /\ IF detected THEN OnKeyword ELSE UNCHANGED actionVars
  /\ Exit(0)
  /\ UNCHANGED <<parsed, bytes, deviceVars>>

Infer(detected) ==
  /\ pc = "wav.infer"
  /\ detected => samples >= FrameSamples
  /\ IF detected
     THEN OnKeyword /\ Exit(0)
     ELSE Exit(2) /\ UNCHANGED actionVars
  /\ UNCHANGED <<parsed, bytes, deviceVars>>

(* MicInput::Start up to its device; InputDevice says which one it takes.  *)
OpenMicrophone(found) ==
  /\ pc = "open"
  /\ hardware' = found
  /\ IF Resolvable(opt.device)
     THEN /\ device_index_' = ResolveInputDevice(found, opt.device)
          /\ IF IsInput(found, device_index_')
             THEN pc' = "microphone" /\ UNCHANGED status
             ELSE Exit(1)
     ELSE Exit(1) /\ UNCHANGED device_index_
  /\ UNCHANGED <<parsed, bytes, actionVars>>

ActInMicrophoneMode ==
  /\ pc = "microphone" /\ hits < MaxHits
  /\ OnKeyword
  /\ UNCHANGED <<parsed, pc, bytes, deviceVars, status>>

EndMicrophoneMode ==
  /\ pc = "microphone"
  /\ Exit(0)
  /\ UNCHANGED <<parsed, bytes, actionVars, deviceVars>>

Exited == pc = "exit" /\ UNCHANGED vars

Next ==
  \/ ParseHelp \/ ParseVerbose \/ ParseUnknown \/ ParseText \/ ParseNumber \/ ParseEnd
  \/ LoadVad \/ LoadEngine \/ Throw
  \/ \E file \in WavFiles : ReadWav(file)
  \/ \E answer \in BOOLEAN : Detect(answer) \/ Infer(answer)
  \/ \E found \in Hardware : OpenMicrophone(found)
  \/ ActInMicrophoneMode \/ EndMicrophoneMode
  \/ Exited

Spec == Init /\ [][Next]_vars
-----------------------------------------------------------------------------
Word == Options \union Values \union {"words", "./onnx_model"}

(* Every variable has its type: what is kept as a number was read as one,  *)
(* and the servo is within its half turn.                                  *)
TypeOK ==
  /\ pc \in {"parse", "load.vad", "load.engine", "wav.read", "wav.detect", "wav.infer",
            "open", "microphone", "exit"}
  /\ argv \in Seq(Options \union Values) /\ i \in Nat /\ missing \subseteq Options
  /\ opt \in [keywords : Word, model_dir : Word, device : Word, wav : Word,
              min_score : Numbers, vad_threshold : Numbers, verbose : BOOLEAN]
  /\ hardware \in Hardware \union {Unknown} /\ device_index_ \in Nat \union {paNoDevice}
  /\ bytes \in Nat /\ hits \in Nat /\ next_direction = hits
  /\ angle_degrees \in 0 .. 180 /\ status \in 0 .. 2

(* The exit status of WAV mode tells what was heard: 0 for a keyword and   *)
(* its one action, which on a fresh start turns the servo from 90 to 30    *)
(* degrees (README.md), 2 for none, and nothing has been done otherwise.   *)
StatusTells ==
  (pc = "exit" /\ i > Len(argv) /\ opt.wav # Empty) =>
    IF status = 0
    THEN hits = 1 /\ angle_degrees = 30
    ELSE hits = 0 /\ angle_degrees = 90

(* What gets past ParseArgs can be used. Every comparison with a NaN is    *)
(* false, so the constructor of the detector would take one: only          *)
(* main.cc:94-95 keeps it away from the gate. Of the options reported to   *)
(* lack their value, nobody stops at once, and only --device and --wav let *)
(* the program go on (in microphone mode, with the default device).        *)
OptionsUsable ==
  pc \notin {"parse", "exit"} =>
    /\ opt.vad_threshold \in Thresholds
    /\ missing \subseteq {"--device", "--wav"}

(* Microphone mode listens to the first of the devices that are meant by   *)
(* --device (the comment at mic_input.cc:81) and can be listened to; when  *)
(* there is none, the program ends with status 1: a loudspeaker of the     *)
(* same name, a number of no device and one too large for an int included. *)
DeviceAsAsked ==
  hardware # Unknown \/ pc = "microphone" =>
    IF Meant(hardware, opt.device) = {}
    THEN pc = "exit" /\ status = 1
    ELSE device_index_ = Min(Meant(hardware, opt.device))
=============================================================================
