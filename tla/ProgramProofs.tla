---------------------------- MODULE ProgramProofs ----------------------------
(***************************************************************************)
(* Theorems about Program and InputDevice for every command line, every    *)
(* word and every set of devices. ParseInv follows what ParseArgs keeps,   *)
(* HitInv the actions, and OneDevice relates the search of the code to the *)
(* devices that are meant.                                                 *)
(***************************************************************************)
EXTENDS Program, NumberLemmas, SequenceTheorems, TLAPS

(* The device the code resolves is an input exactly when one is meant, and *)
(* then it is the first of those.                                          *)
LEMMA OneDevice ==
  ASSUME NEW found \in Hardware, NEW spec
  PROVE  /\ (Meant(found, spec) # {}) <=>
              (Resolvable(spec) /\ IsInput(found, ResolveInputDevice(found, spec)))
         /\ Meant(found, spec) # {} => ResolveInputDevice(found, spec) = Min(Meant(found, spec))
<1> DEFINE device == ResolveInputDevice(found, spec)
<1>1. Devices(found) \subseteq Nat
  <2>1. Len(found.devices) \in Nat
    BY HardwareAssumption
  <2>2. QED
    BY <2>1 DEF Devices
<1>2. CASE spec = "" \/ spec \in DOMAIN Stoi
  <2>1. /\ Resolvable(spec)
        /\ device = IF spec = "" THEN found.default ELSE Stoi[spec]
    BY <1>2, HardwareAssumption DEF Resolvable, ResolveInputDevice
  <2>2. Meant(found, spec) = {n \in Devices(found) : Device(found, n).inputs > 0 /\ n = device}
    <3>1. CASE spec = ""
      <4>1. spec \notin DOMAIN Stoi /\ device = found.default
        BY <3>1, <2>1, HardwareAssumption
      <4>2. QED
        BY <3>1, <4>1 DEF Meant
    <3>2. CASE spec \in DOMAIN Stoi
      <4>1. spec # "" /\ spec \in DigitWords /\ device = Stoi[spec]
        BY <3>2, <2>1, HardwareAssumption
      <4>2. QED
        BY <3>2, <4>1 DEF Meant
    <3>3. QED
      BY <1>2, <3>1, <3>2
  <2> HIDE DEF device
  <2>3. CASE IsInput(found, device)
    <3>1. device \in Devices(found) /\ Meant(found, spec) = {device}
      BY <2>2, <2>3 DEF IsInput
    <3>2. Min({device}) = device
      BY <1>1, <3>1, MinOfOne
    <3>3. QED
      BY <2>1, <2>3, <3>1, <3>2 DEF device
  <2>4. CASE ~IsInput(found, device)
    <3>1. Meant(found, spec) = {}
      BY <2>2, <2>4 DEF IsInput
    <3>2. QED
      BY <2>4, <3>1 DEF device
  <2>5. QED
    BY <2>3, <2>4
<1>3. CASE spec \in DigitWords \ DOMAIN Stoi
  <2>1. ~Resolvable(spec)
    BY <1>3 DEF Resolvable
  <2>2. Meant(found, spec) = {}
    BY <1>3, HardwareAssumption DEF Meant
  <2>3. QED
    BY <2>1, <2>2
<1>4. CASE spec \notin DigitWords \union {""}
  <2>1. spec \notin DOMAIN Stoi /\ Resolvable(spec)
    BY <1>4, HardwareAssumption DEF Resolvable
  <2>2. Meant(found, spec) = {n \in Devices(found) : IsInput(found, n) /\ Named(found, n, spec)}
    BY <1>4, <2>1 DEF Meant, IsInput
  <2>3. device = First(Meant(found, spec))
    BY <1>4, <2>2 DEF ResolveInputDevice
  <2> HIDE DEF device
  <2>4. CASE Meant(found, spec) = {}
    <3>1. device = -1
      BY <2>3, <2>4 DEF First, paNoDevice
    <3>2. device \notin Devices(found)
      BY <1>1, <3>1
    <3>3. QED
      BY <2>4, <3>2 DEF device, IsInput
  <2>5. CASE Meant(found, spec) # {}
    <3>1. device = Min(Meant(found, spec))
      BY <2>3, <2>5 DEF First
    <3>2. Meant(found, spec) \subseteq Nat
      BY <1>1, <2>2
    <3>3. device \in Meant(found, spec)
      BY <2>5, <3>1, <3>2, MinIsLeast
    <3>4. IsInput(found, device)
      BY <2>2, <3>3
    <3>5. QED
      BY <2>1, <2>5, <3>1, <3>4 DEF device
  <2>6. QED
    BY <2>4, <2>5
<1>5. QED
  BY <1>2, <1>3, <1>4

LEMMA NoDeviceUnknown == \A spec : Meant(Unknown, spec) = {}
<1>1. Devices(Unknown) = {}
  BY DEF Devices, Unknown
<1>2. QED
  BY <1>1 DEF Meant

(* Nothing is known of the hardware before the microphone is opened.       *)
DeviceInv ==
  /\ pc \notin {"microphone", "exit"} => hardware = Unknown
  /\ DeviceAsAsked

(* Microphone mode takes the first of the devices that are meant, and the  *)
(* program ends with status 1 when there is none, for every word and every *)
(* set of devices.                                                         *)
THEOREM DeviceChosen == Spec => []DeviceAsAsked
<1>1. Init => DeviceInv
  BY DEF Init, DeviceInv, DeviceAsAsked
<1>2. DeviceInv /\ [Next]_vars => DeviceInv'
  <2> SUFFICES ASSUME DeviceInv, [Next]_vars
               PROVE  DeviceInv'
    OBVIOUS
  <2>1. CASE ParseHelp \/ ParseVerbose \/ ParseUnknown \/ ParseText \/ ParseNumber \/ ParseEnd
    <3>1. /\ pc = "parse" /\ pc' \in {"parse", "load.vad", "exit"} /\ hardware' = hardware
      BY <2>1 DEF ParseHelp, ParseVerbose, ParseUnknown, ParseText, ParseNumber, ParseEnd, Exit,
                  loaded, deviceVars
    <3>2. QED
      BY <3>1 DEF DeviceInv, DeviceAsAsked
  <2>2. CASE LoadVad \/ LoadEngine \/ Throw \/ (\E file \in WavFiles : ReadWav(file))
               \/ (\E answer \in BOOLEAN : Detect(answer) \/ Infer(answer))
    <3>1. /\ pc \notin {"exit"} /\ pc' # "microphone"
          /\ pc = "microphone" => pc' = "exit"
          /\ UNCHANGED <<hardware, device_index_, opt>>
      BY <2>2 DEF LoadVad, LoadEngine, Throw, ReadWav, Detect, Infer, Exit, parsed, deviceVars
    <3>2. QED
      BY <3>1 DEF DeviceInv, DeviceAsAsked
  <2>3. ASSUME NEW found \in Hardware, OpenMicrophone(found)
        PROVE  DeviceInv'
    <3> DEFINE spec == opt.device
               device == ResolveInputDevice(found, spec)
    <3>1. hardware' = found /\ opt' = opt
      BY <2>3 DEF OpenMicrophone, parsed
    <3>2. CASE Resolvable(spec) /\ IsInput(found, device)
      <4>1. device_index_' = device /\ pc' = "microphone"
        BY <2>3, <3>2 DEF OpenMicrophone
      <4>2. Meant(found, spec) # {} /\ device = Min(Meant(found, spec))
        BY <3>2, OneDevice
      <4>3. QED
        BY <3>1, <4>1, <4>2 DEF DeviceInv, DeviceAsAsked
    <3>3. CASE ~(Resolvable(spec) /\ IsInput(found, device))
      <4>1. pc' = "exit" /\ status' = 1
        BY <2>3, <3>3 DEF OpenMicrophone, Exit
      <4>2. Meant(found, spec) = {}
        BY <3>3, OneDevice
      <4>3. QED
        BY <3>1, <4>1, <4>2 DEF DeviceInv, DeviceAsAsked
    <3>4. QED
      BY <3>2, <3>3
  <2>4. CASE ActInMicrophoneMode \/ EndMicrophoneMode \/ Exited \/ UNCHANGED vars
    <3>1. /\ UNCHANGED <<hardware, device_index_, opt>>
          /\ \/ UNCHANGED <<pc, status>>
             \/ pc = "microphone" /\ pc' = "exit"
      BY <2>4 DEF ActInMicrophoneMode, EndMicrophoneMode, Exit, Exited, vars, parsed, deviceVars
    <3>2. QED
      BY <3>1 DEF DeviceInv, DeviceAsAsked
  <2>5. QED
    BY <2>1, <2>2, <2>3, <2>4 DEF Next
<1>3. QED
  BY <1>1, <1>2, PTL DEF Spec, DeviceInv
-----------------------------------------------------------------------------
(* What ParseArgs keeps. A missing value is always that of the last word;  *)
(* it leaves an empty string where ParseArgs will look for one, or has     *)
(* ended the program, since std::stof reads no number in it.               *)
ParseInv ==
  /\ argv \in Seq(Options \union Values) /\ i \in Nat \ {0}
  /\ opt \in [keywords : Word, model_dir : Word, device : Word, wav : Word,
              min_score : Word, vad_threshold : Word, verbose : BOOLEAN]
  /\ pc \notin {"parse", "exit"} => i > Len(argv) /\ Accepted
  /\ pc # "exit" =>
       /\ missing \subseteq DOMAIN TextField
       /\ missing # {} => i > Len(argv)
       /\ "--keyword" \in missing => opt.keywords = Empty
       /\ "--model-dir" \in missing => opt.model_dir = Empty

LEMMA WordAtHand ==
  ASSUME ParseInv, i <= Len(argv)
  PROVE  argv[i] \in Options \union Values /\ need \in Options \union Values
<1>1. argv \in Seq(Options \union Values) /\ i \in Nat \ {0}
  BY DEF ParseInv
<1>2. i \in 1 .. Len(argv) /\ argv[i] \in Options \union Values
  BY <1>1, ElementOfSeq
<1>3. CASE i + 1 > Len(argv)
  BY <1>2, <1>3, ValueAssumption DEF need
<1>4. CASE ~(i + 1 > Len(argv))
  <2>1. i + 1 \in 1 .. Len(argv)
    BY <1>1, <1>4
  <2>2. argv[i + 1] \in Options \union Values
    BY <1>1, <2>1, ElementOfSeq
  <2>3. QED
    BY <1>2, <1>4, <2>2 DEF need
<1>5. QED
  BY <1>3, <1>4

(* The word behind an option goes to the option's field. *)
LEMMA TextKept ==
  ASSUME ParseInv, ParseText
  PROVE  ParseInv'
<1>1. /\ pc = "parse" /\ pc' = "parse" /\ i <= Len(argv) /\ argv' = argv /\ i' = i + 2
      /\ argv[i] \in {"--keyword", "--model-dir", "--device", "--wav"}
      /\ opt' = [opt EXCEPT ![TextField[argv[i]]] = need]
      /\ missing' = IF i + 1 > Len(argv) THEN missing \union {argv[i]} ELSE missing
  BY DEF ParseText, TextField, ReportMissing, loaded
<1>2. /\ argv \in Seq(Options \union Values) /\ i \in Nat \ {0} /\ missing = {}
      /\ opt \in [keywords : Word, model_dir : Word, device : Word, wav : Word,
                  min_score : Word, vad_threshold : Word, verbose : BOOLEAN]
  BY <1>1 DEF ParseInv
<1>3. need \in Word
  BY <1>1, WordAtHand DEF Word
<1>4. /\ TextField["--keyword"] = "keywords" /\ TextField["--model-dir"] = "model_dir"
      /\ TextField["--device"] = "device" /\ TextField["--wav"] = "wav"
      /\ DOMAIN TextField = {"--keyword", "--model-dir", "--device", "--wav"}
  BY DEF TextField
<1>5. opt' \in [keywords : Word, model_dir : Word, device : Word, wav : Word,
                min_score : Word, vad_threshold : Word, verbose : BOOLEAN]
  <2>1. CASE argv[i] = "--keyword"
    BY <1>1, <1>2, <1>3, <1>4, <2>1
  <2>2. CASE argv[i] = "--model-dir"
    BY <1>1, <1>2, <1>3, <1>4, <2>2
  <2>3. CASE argv[i] = "--device"
    BY <1>1, <1>2, <1>3, <1>4, <2>3
  <2>4. CASE argv[i] = "--wav"
    BY <1>1, <1>2, <1>3, <1>4, <2>4
  <2>5. QED
    BY <1>1, <2>1, <2>2, <2>3, <2>4
<1>6. CASE i + 1 > Len(argv)
  <2>1. missing' = {argv[i]} /\ need = Empty /\ i' > Len(argv')
    BY <1>1, <1>2, <1>6 DEF need
  <2>2. argv[i] = "--keyword" => opt'.keywords = Empty
    BY <1>1, <1>2, <1>4, <2>1
  <2>3. argv[i] = "--model-dir" => opt'.model_dir = Empty
    BY <1>1, <1>2, <1>4, <2>1
  <2>4. QED
    BY <1>1, <1>2, <1>4, <1>5, <2>1, <2>2, <2>3 DEF ParseInv
<1>7. CASE ~(i + 1 > Len(argv))
  BY <1>1, <1>2, <1>5, <1>7 DEF ParseInv
<1>8. QED
  BY <1>6, <1>7

(* A number is kept only when there is one. *)
LEMMA NumberKept ==
  ASSUME ParseInv, ParseNumber
  PROVE  ParseInv'
<1>1. /\ pc = "parse" /\ i <= Len(argv) /\ argv' = argv
      /\ argv[i] \in {"--min-score", "--vad-threshold"}
      /\ missing' = IF i + 1 > Len(argv) THEN missing \union {argv[i]} ELSE missing
  BY DEF ParseNumber, NumberField, ReportMissing, loaded
<1>2. /\ argv \in Seq(Options \union Values) /\ i \in Nat \ {0} /\ missing = {}
      /\ opt \in [keywords : Word, model_dir : Word, device : Word, wav : Word,
                  min_score : Word, vad_threshold : Word, verbose : BOOLEAN]
  BY <1>1 DEF ParseInv
<1>3. CASE need \in Numbers
  <2>1. opt' = [opt EXCEPT ![NumberField[argv[i]]] = need] /\ i' = i + 2 /\ pc' = "parse"
    BY <1>1, <1>3 DEF ParseNumber
  <2>2. missing' = {}
    BY <1>1, <1>2, <1>3, ValueAssumption DEF need
  <2>3. need \in Word
    BY <1>1, WordAtHand DEF Word
  <2>4. NumberField["--min-score"] = "min_score" /\ NumberField["--vad-threshold"] = "vad_threshold"
    BY DEF NumberField
  <2>5. opt' \in [keywords : Word, model_dir : Word, device : Word, wav : Word,
                  min_score : Word, vad_threshold : Word, verbose : BOOLEAN]
    <3>1. CASE argv[i] = "--min-score"
      BY <1>2, <2>1, <2>3, <2>4, <3>1
    <3>2. CASE argv[i] = "--vad-threshold"
      BY <1>2, <2>1, <2>3, <2>4, <3>2
    <3>3. QED
      BY <1>1, <3>1, <3>2
  <2>6. i' \in Nat \ {0} /\ argv' \in Seq(Options \union Values)
    BY <1>1, <1>2, <2>1
  <2>7. QED
    BY <2>1, <2>2, <2>5, <2>6 DEF ParseInv
<1>4. CASE need \notin Numbers
  <2>1. pc' = "exit" /\ opt' = opt /\ i' = i
    BY <1>4 DEF ParseNumber, Exit
  <2>2. QED
    BY <1>1, <1>2, <2>1 DEF ParseInv
<1>5. QED
  BY <1>3, <1>4

LEMMA ParseHolds == Spec => []ParseInv
<1>1. Init => ParseInv
  <2> SUFFICES ASSUME Init PROVE ParseInv
    OBVIOUS
  <2>1. /\ pc = "parse" /\ i = 1 /\ missing = {} /\ opt = DefaultOptions
        /\ argv \in BoundedSeq(Options \union Values, MaxArgs)
    BY DEF Init
  <2>2. argv \in Seq(Options \union Values)
    <3>1. PICK n \in 0 .. MaxArgs : argv \in [1 .. n -> Options \union Values]
      BY <2>1 DEF BoundedSeq, SeqOf
    <3>2. n \in Nat
      BY <3>1, ValueAssumption
    <3>3. QED
      BY <3>1, <3>2
  <2>3. Empty \in Word /\ "words" \in Word /\ "./onnx_model" \in Word
        /\ "0.15" \in Word /\ "0.5" \in Word
    BY ValueAssumption DEF Word
  <2>4. QED
    BY <2>1, <2>2, <2>3 DEF ParseInv, DefaultOptions
<1>2. ParseInv /\ [Next]_vars => ParseInv'
  <2> SUFFICES ASSUME ParseInv, [Next]_vars
               PROVE  ParseInv'
    OBVIOUS
  <2>1. CASE ParseText
    BY <2>1, TextKept
  <2>2. CASE ParseNumber
    BY <2>2, NumberKept
  <2>3. CASE ParseVerbose
    <3>1. /\ pc = "parse" /\ pc' = "parse" /\ i <= Len(argv) /\ i' = i + 1
          /\ UNCHANGED <<argv, missing>> /\ opt' = [opt EXCEPT !.verbose = TRUE]
      BY <2>3 DEF ParseVerbose, loaded
    <3>2. /\ i \in Nat \ {0} /\ missing = {} /\ argv \in Seq(Options \union Values)
          /\ opt \in [keywords : Word, model_dir : Word, device : Word, wav : Word,
                      min_score : Word, vad_threshold : Word, verbose : BOOLEAN]
      BY <3>1 DEF ParseInv
    <3>3. opt' \in [keywords : Word, model_dir : Word, device : Word, wav : Word,
                    min_score : Word, vad_threshold : Word, verbose : BOOLEAN]
      BY <3>1, <3>2
    <3>4. QED
      BY <3>1, <3>2, <3>3 DEF ParseInv
  <2>4. CASE ParseHelp \/ ParseUnknown
    BY <2>4 DEF ParseHelp, ParseUnknown, Exit, loaded, ParseInv
  <2>5. CASE ParseEnd
    <3>1. /\ UNCHANGED <<argv, i, missing, opt>> /\ pc = "parse" /\ i > Len(argv)
          /\ (Accepted /\ pc' = "load.vad") \/ pc' = "exit"
      BY <2>5 DEF ParseEnd, Exit, loaded
    <3>2. Accepted => Accepted'
      BY <3>1 DEF Accepted
    <3>3. QED
      BY <3>1, <3>2 DEF ParseInv
  <2>6. ASSUME UNCHANGED <<argv, i, missing, opt>>, pc # "parse",
               pc = "exit" => pc' = "exit", pc' # "parse"
        PROVE  ParseInv'
    <3>1. Accepted => Accepted'
      BY <2>6 DEF Accepted
    <3>2. QED
      BY <2>6, <3>1 DEF ParseInv
  <2>7. CASE LoadVad \/ LoadEngine \/ Throw \/ (\E file \in WavFiles : ReadWav(file))
               \/ (\E answer \in BOOLEAN : Detect(answer) \/ Infer(answer))
    BY <2>6, <2>7 DEF LoadVad, LoadEngine, Throw, ReadWav, Detect, Infer, Exit, parsed
  <2>8. CASE (\E found \in Hardware : OpenMicrophone(found)) \/ ActInMicrophoneMode
               \/ EndMicrophoneMode
    BY <2>6, <2>8 DEF OpenMicrophone, ActInMicrophoneMode, EndMicrophoneMode, Exit, parsed
  <2>9. CASE Exited \/ UNCHANGED vars
    BY <2>9 DEF Exited, vars, ParseInv, Accepted
  <2>10. QED
    BY <2>1, <2>2, <2>3, <2>4, <2>5, <2>7, <2>8, <2>9 DEF Next
<1>3. QED
  BY <1>1, <1>2, PTL DEF Spec

(* The gate is never given a threshold that is not between 0 and 1, a NaN  *)
(* included, and an option without its value ends the program, but for     *)
(* --device and --wav.                                                     *)
THEOREM OptionsChecked == Spec => []OptionsUsable
<1>1. ParseInv => OptionsUsable
  <2> SUFFICES ASSUME ParseInv, pc \notin {"parse", "exit"}
               PROVE  /\ opt.vad_threshold \in Thresholds
                      /\ missing \subseteq {"--device", "--wav"}
    BY DEF OptionsUsable
  <2>1. Accepted /\ missing \subseteq DOMAIN TextField
    BY DEF ParseInv
  <2>2. "--keyword" \notin missing /\ "--model-dir" \notin missing
    BY <2>1 DEF ParseInv, Accepted
  <2>3. DOMAIN TextField = {"--keyword", "--model-dir", "--device", "--wav"}
    BY DEF TextField
  <2>4. opt.vad_threshold \in Thresholds
    BY <2>1 DEF Accepted
  <2>5. QED
    BY <2>1, <2>2, <2>3, <2>4
<1>2. QED
  BY <1>1, ParseHolds, PTL
-----------------------------------------------------------------------------
(* Nothing has been done before the mode is chosen, and nothing but the    *)
(* one action in WAV mode.                                                 *)
HitInv ==
  /\ pc \notin {"microphone", "exit"} => hits = 0 /\ next_direction = 0 /\ angle_degrees = 90
  /\ pc \in {"open", "microphone"} => i > Len(argv) /\ opt.wav = Empty
  /\ pc \in {"load.vad", "load.engine", "wav.read", "wav.detect", "wav.infer"} => i > Len(argv)
  /\ StatusTells

(* The first action turns the servo to the first direction.                *)
LEMMA FirstAction ==
  ASSUME hits = 0, next_direction = 0, OnKeyword
  PROVE  hits' = 1 /\ angle_degrees' = 30
BY DEF OnKeyword

(* The exit status of WAV mode is the answer, and the action was taken for *)
(* a keyword only.                                                         *)
THEOREM StatusIsAnswer == Spec => []StatusTells
<1>1. Init => HitInv
  BY DEF Init, HitInv, StatusTells
<1>2. ParseInv /\ HitInv /\ [Next]_vars => HitInv'
  <2> SUFFICES ASSUME ParseInv, HitInv, [Next]_vars
               PROVE  HitInv'
    OBVIOUS
  <2> USE DEF HitInv, StatusTells, Exit, loaded, parsed, actionVars, deviceVars
  <2>1. CASE ParseHelp \/ ParseVerbose \/ ParseUnknown \/ ParseText \/ ParseNumber \/ ParseEnd
    <3>1. /\ pc = "parse" /\ UNCHANGED <<hits, next_direction, angle_degrees>>
          /\ \/ pc' = "parse"
             \/ /\ i > Len(argv) /\ i' = i /\ argv' = argv
                /\ pc' = "load.vad" \/ (pc' = "exit" /\ status' = 1)
             \/ i <= Len(argv) /\ i' = i /\ argv' = argv /\ pc' = "exit"
      BY <2>1 DEF ParseHelp, ParseVerbose, ParseUnknown, ParseText, ParseNumber, ParseEnd
    <3>2. hits = 0 /\ angle_degrees = 90 /\ next_direction = 0
      BY <3>1
    <3>3. i \in Int /\ Len(argv) \in Int
      BY DEF ParseInv
    <3>4. pc' = "exit" /\ i' > Len(argv') => status' = 1
      BY <3>1, <3>3
    <3>5. pc' = "load.vad" => i' > Len(argv')
      BY <3>1
    <3>6. QED
      BY <3>1, <3>2, <3>4, <3>5
  <2>2. CASE LoadVad \/ LoadEngine \/ Throw \/ (\E file \in WavFiles : ReadWav(file))
    BY <2>2 DEF LoadVad, LoadEngine, Throw, ReadWav
  <2>3. ASSUME NEW answer \in BOOLEAN, Detect(answer)
        PROVE  HitInv'
    BY <2>3 DEF Detect
  <2>4. ASSUME NEW answer \in BOOLEAN, Infer(answer)
        PROVE  HitInv'
    <3>1. /\ pc = "wav.infer" /\ pc' = "exit" /\ UNCHANGED <<argv, i, opt>>
          /\ IF answer THEN OnKeyword /\ status' = 0
                       ELSE status' = 2 /\ UNCHANGED <<hits, angle_degrees>>
      BY <2>4 DEF Infer
    <3>2. hits = 0 /\ next_direction = 0 /\ angle_degrees = 90
      BY <3>1
    <3>3. CASE answer
      BY <3>1, <3>2, <3>3, FirstAction
    <3>4. CASE ~answer
      BY <3>1, <3>2, <3>4
    <3>5. QED
      BY <3>3, <3>4
  <2>5. CASE \E found \in Hardware : OpenMicrophone(found)
    BY <2>5 DEF OpenMicrophone
  <2>6. CASE ActInMicrophoneMode \/ EndMicrophoneMode
    BY <2>6 DEF ActInMicrophoneMode, EndMicrophoneMode
  <2>7. CASE Exited \/ UNCHANGED vars
    BY <2>7 DEF Exited, vars
  <2>8. QED
    BY <2>1, <2>2, <2>3, <2>4, <2>5, <2>6, <2>7 DEF Next
<1>3. QED
  BY <1>1, <1>2, ParseHolds, PTL DEF Spec, HitInv
-----------------------------------------------------------------------------
(* What std::stof has read, and the options that may lack their value.     *)
NumberInv ==
  /\ pc \in {"parse", "load.vad", "load.engine", "wav.read", "wav.detect", "wav.infer",
            "open", "microphone", "exit"}
  /\ missing \subseteq Options
  /\ opt.min_score \in Numbers /\ opt.vad_threshold \in Numbers

LEMMA NumbersHold == Spec => []NumberInv
<1>1. Init => NumberInv
  BY ValueAssumption DEF Init, NumberInv, DefaultOptions
<1>2. NumberInv /\ ParseInv /\ [Next]_vars => NumberInv'
  <2> SUFFICES ASSUME NumberInv, ParseInv, [Next]_vars
               PROVE  NumberInv'
    OBVIOUS
  <2> USE DEF Exit, loaded, parsed
  <2>1. opt \in [keywords : Word, model_dir : Word, device : Word, wav : Word,
                 min_score : Word, vad_threshold : Word, verbose : BOOLEAN]
    BY DEF ParseInv
  <2>2. ASSUME ReportMissing, argv[i] \in Options
        PROVE  missing' \subseteq Options
    BY <2>2 DEF ReportMissing, NumberInv
  <2>3. CASE ParseText
    <3>1. /\ pc' = pc /\ argv[i] \in DOMAIN TextField /\ ReportMissing
          /\ opt' = [opt EXCEPT ![TextField[argv[i]]] = need]
      BY <2>3 DEF ParseText
    <3>2. argv[i] \in Options /\ TextField[argv[i]] \notin {"min_score", "vad_threshold"}
      BY <3>1 DEF TextField, Options
    <3>3. opt'.min_score = opt.min_score /\ opt'.vad_threshold = opt.vad_threshold
      BY <2>1, <3>1, <3>2
    <3>4. QED
      BY <2>2, <3>1, <3>2, <3>3 DEF NumberInv
  <2>4. CASE ParseNumber
    <3>1. /\ argv[i] \in DOMAIN NumberField /\ ReportMissing
          /\ \/ /\ need \in Numbers /\ pc' = pc
                /\ opt' = [opt EXCEPT ![NumberField[argv[i]]] = need]
             \/ opt' = opt /\ pc' = "exit"
      BY <2>4 DEF ParseNumber
    <3>2. argv[i] \in Options
      BY <3>1 DEF NumberField, Options
    <3>3. opt'.min_score \in Numbers /\ opt'.vad_threshold \in Numbers
      <4>1. CASE need \in Numbers /\ opt' = [opt EXCEPT ![NumberField[argv[i]]] = need]
        <5>1. /\ opt'.min_score \in {opt.min_score, need}
              /\ opt'.vad_threshold \in {opt.vad_threshold, need}
          BY <2>1, <4>1
        <5>2. QED
          BY <4>1, <5>1 DEF NumberInv
      <4>2. CASE opt' = opt
        BY <4>2 DEF NumberInv
      <4>3. QED
        BY <3>1, <4>1, <4>2
    <3>4. QED
      BY <2>2, <3>1, <3>2, <3>3 DEF NumberInv
  <2>5. CASE ParseVerbose
    <3>1. /\ pc' = pc /\ missing' = missing /\ opt' = [opt EXCEPT !.verbose = TRUE]
      BY <2>5 DEF ParseVerbose
    <3>2. opt'.min_score = opt.min_score /\ opt'.vad_threshold = opt.vad_threshold
      BY <2>1, <3>1
    <3>3. QED
      BY <3>1, <3>2 DEF NumberInv
  <2>6. CASE ParseHelp \/ ParseUnknown \/ ParseEnd
    BY <2>6 DEF ParseHelp, ParseUnknown, ParseEnd, NumberInv
  <2>7. CASE LoadVad \/ LoadEngine \/ Throw \/ (\E file \in WavFiles : ReadWav(file))
    BY <2>7 DEF LoadVad, LoadEngine, Throw, ReadWav, NumberInv
  <2>8. CASE \E answer \in BOOLEAN : Detect(answer) \/ Infer(answer)
    BY <2>8 DEF Detect, Infer, NumberInv
  <2>9. CASE (\E found \in Hardware : OpenMicrophone(found)) \/ ActInMicrophoneMode
               \/ EndMicrophoneMode
    BY <2>9 DEF OpenMicrophone, ActInMicrophoneMode, EndMicrophoneMode, NumberInv
  <2>10. CASE Exited \/ UNCHANGED vars
    BY <2>10 DEF Exited, vars, NumberInv
  <2>11. QED
    BY <2>3, <2>4, <2>5, <2>6, <2>7, <2>8, <2>9, <2>10 DEF Next
<1>3. QED
  BY <1>1, <1>2, ParseHolds, PTL DEF Spec

(* What is counted, and the servo.                                         *)
CountInv ==
  /\ bytes \in Nat /\ hits \in Nat /\ next_direction = hits
  /\ angle_degrees \in 0 .. 180 /\ status \in 0 .. 2

(* Every action leaves the servo within its half turn.                     *)
LEMMA ServoTurns ==
  ASSUME hits \in Nat, next_direction = hits, OnKeyword
  PROVE  hits' \in Nat /\ next_direction' = hits' /\ angle_degrees' \in 0 .. 180
<1> DEFINE kDirections == <<-60, -30, 0, 30, 60>>
           place == (next_direction % 5) + 1
<1>1. place \in 1 .. 5
  OBVIOUS
<1>2. Len(kDirections) = 5 /\ kDirections[place] \in {-60, -30, 0, 30, 60}
  BY <1>1
<1>3. angle_degrees' = IF kDirections[place] + 90 < 0 THEN 0
                       ELSE IF kDirections[place] + 90 > 180 THEN 180
                       ELSE kDirections[place] + 90
  BY <1>2 DEF OnKeyword
<1>4. angle_degrees' \in 0 .. 180
  <2> HIDE DEF kDirections, place
  <2>1. QED
    BY <1>2, <1>3
<1>5. hits' = hits + 1 /\ next_direction' = next_direction + 1
  BY DEF OnKeyword
<1>6. QED
  BY <1>4, <1>5

LEMMA CountsHold == Spec => []CountInv
<1>1. Init => CountInv
  BY DEF Init, CountInv
<1>2. CountInv /\ [Next]_vars => CountInv'
  <2> SUFFICES ASSUME CountInv, [Next]_vars
               PROVE  CountInv'
    OBVIOUS
  <2> USE DEF Exit, loaded, actionVars, deviceVars
  <2>1. ASSUME UNCHANGED <<bytes, hits, next_direction, angle_degrees>>,
               status' = status \/ status' \in 0 .. 2
        PROVE  CountInv'
    BY <2>1 DEF CountInv
  <2>2. CASE ParseHelp \/ ParseVerbose \/ ParseUnknown \/ ParseText \/ ParseNumber \/ ParseEnd
    BY <2>1, <2>2 DEF ParseHelp, ParseVerbose, ParseUnknown, ParseText, ParseNumber, ParseEnd
  <2>3. CASE LoadVad \/ LoadEngine \/ Throw \/ EndMicrophoneMode
    BY <2>1, <2>3 DEF LoadVad, LoadEngine, Throw, EndMicrophoneMode
  <2>4. ASSUME NEW file \in WavFiles, ReadWav(file)
        PROVE  CountInv'
    <3>1. file.bytes \in Nat
      BY <2>4, ValueAssumption
    <3>2. /\ UNCHANGED <<hits, next_direction, angle_degrees>>
          /\ bytes' \in {bytes, file.bytes} /\ status' \in {status, 1}
      BY <2>4 DEF ReadWav
    <3>3. QED
      BY <3>1, <3>2 DEF CountInv
  <2>5. ASSUME NEW answer \in BOOLEAN, Detect(answer)
        PROVE  CountInv'
    BY <2>1, <2>5 DEF Detect
  <2>6. ASSUME NEW answer \in BOOLEAN, Infer(answer)
        PROVE  CountInv'
    <3>1. bytes' = bytes /\ status' \in {0, 2} /\ (OnKeyword \/ UNCHANGED actionVars)
      BY <2>6 DEF Infer
    <3>2. hits' \in Nat /\ next_direction' = hits' /\ angle_degrees' \in 0 .. 180
      BY <3>1, ServoTurns DEF CountInv
    <3>3. QED
      BY <3>1, <3>2 DEF CountInv
  <2>7. CASE \E found \in Hardware : OpenMicrophone(found)
    BY <2>1, <2>7 DEF OpenMicrophone
  <2>8. CASE ActInMicrophoneMode
    <3>1. bytes' = bytes /\ status' = status /\ OnKeyword
      BY <2>8 DEF ActInMicrophoneMode
    <3>2. QED
      BY <3>1, ServoTurns DEF CountInv
  <2>9. CASE Exited \/ UNCHANGED vars
    BY <2>1, <2>9 DEF Exited, vars
  <2>10. QED
    BY <2>2, <2>3, <2>4, <2>5, <2>6, <2>7, <2>8, <2>9 DEF Next
<1>3. QED
  BY <1>1, <1>2, PTL DEF Spec

(* The number the search returns, whether or not there is such a device.   *)
LEMMA ResolvedNumber ==
  ASSUME NEW found \in Hardware, NEW spec, Resolvable(spec)
  PROVE  ResolveInputDevice(found, spec) \in Nat \union {paNoDevice}
<1> DEFINE named == {n \in Devices(found) : IsInput(found, n) /\ Named(found, n, spec)}
<1>1. Devices(found) \subseteq Nat
  <2>1. Len(found.devices) \in Nat
    BY HardwareAssumption
  <2>2. QED
    BY <2>1 DEF Devices
<1>2. CASE spec = ""
  BY <1>1, <1>2, HardwareAssumption DEF ResolveInputDevice
<1>3. CASE spec # "" /\ spec \in DigitWords
  BY <1>3, HardwareAssumption DEF ResolveInputDevice, Resolvable
<1>4. CASE spec # "" /\ spec \notin DigitWords
  <2>1. ResolveInputDevice(found, spec) = First(named)
    BY <1>4 DEF ResolveInputDevice
  <2>2. named \subseteq Nat
    BY <1>1
  <2> HIDE DEF named
  <2>3. CASE named = {}
    BY <2>1, <2>3 DEF First
  <2>4. CASE named # {}
    BY <2>1, <2>2, <2>4, MinIsLeast DEF First
  <2>5. QED
    BY <2>3, <2>4
<1>5. QED
  BY <1>2, <1>3, <1>4

HardwareInv ==
  hardware \in Hardware \union {Unknown} /\ device_index_ \in Nat \union {paNoDevice}

LEMMA HardwareHolds == Spec => []HardwareInv
<1>1. Init => HardwareInv
  BY DEF Init, HardwareInv
<1>2. HardwareInv /\ [Next]_vars => HardwareInv'
  <2> SUFFICES ASSUME HardwareInv, [Next]_vars
               PROVE  HardwareInv'
    OBVIOUS
  <2>1. ASSUME UNCHANGED deviceVars
        PROVE  HardwareInv'
    BY <2>1 DEF deviceVars, HardwareInv
  <2>2. CASE ParseHelp \/ ParseVerbose \/ ParseUnknown \/ ParseText \/ ParseNumber \/ ParseEnd
    BY <2>1, <2>2 DEF ParseHelp, ParseVerbose, ParseUnknown, ParseText, ParseNumber, ParseEnd,
                      loaded
  <2>3. CASE LoadVad \/ LoadEngine \/ Throw \/ (\E file \in WavFiles : ReadWav(file))
    BY <2>1, <2>3 DEF LoadVad, LoadEngine, Throw, ReadWav
  <2>4. CASE \E answer \in BOOLEAN : Detect(answer) \/ Infer(answer)
    BY <2>1, <2>4 DEF Detect, Infer
  <2>5. ASSUME NEW found \in Hardware, OpenMicrophone(found)
        PROVE  HardwareInv'
    <3>1. hardware' = found
      BY <2>5 DEF OpenMicrophone
    <3>2. CASE Resolvable(opt.device)
      <4>1. device_index_' = ResolveInputDevice(found, opt.device)
        BY <2>5, <3>2 DEF OpenMicrophone
      <4>2. QED
        BY <3>1, <3>2, <4>1, ResolvedNumber DEF HardwareInv
    <3>3. CASE ~Resolvable(opt.device)
      BY <2>5, <3>1, <3>3 DEF OpenMicrophone, HardwareInv
    <3>4. QED
      BY <3>2, <3>3
  <2>6. CASE ActInMicrophoneMode \/ EndMicrophoneMode
    BY <2>1, <2>6 DEF ActInMicrophoneMode, EndMicrophoneMode
  <2>7. CASE Exited \/ UNCHANGED vars
    BY <2>1, <2>7 DEF Exited, vars, deviceVars
  <2>8. QED
    BY <2>2, <2>3, <2>4, <2>5, <2>6, <2>7 DEF Next
<1>3. QED
  BY <1>1, <1>2, PTL DEF Spec

(* Every variable has its type: what is kept as a number was read as one,  *)
(* and the servo is within its half turn after any number of actions.      *)
THEOREM TypeCorrect == Spec => []TypeOK
<1>1. ParseInv /\ NumberInv /\ CountInv /\ HardwareInv => TypeOK
  <2> SUFFICES ASSUME ParseInv, NumberInv, CountInv, HardwareInv
               PROVE  TypeOK
    OBVIOUS
  <2>1. /\ argv \in Seq(Options \union Values) /\ i \in Nat
        /\ opt \in [keywords : Word, model_dir : Word, device : Word, wav : Word,
                    min_score : Word, vad_threshold : Word, verbose : BOOLEAN]
    BY DEF ParseInv
  <2>2. opt.min_score \in Numbers /\ opt.vad_threshold \in Numbers
    BY DEF NumberInv
  <2>3. opt \in [keywords : Word, model_dir : Word, device : Word, wav : Word,
                 min_score : Numbers, vad_threshold : Numbers, verbose : BOOLEAN]
    BY <2>1, <2>2
  <2>4. QED
    BY <2>1, <2>3, Zenon DEF NumberInv, CountInv, HardwareInv, TypeOK
<1>2. QED
  BY <1>1, ParseHolds, NumbersHold, CountsHold, HardwareHolds, PTL
=============================================================================
