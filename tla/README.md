# A verification of FSMN-VAD's keyword listener

The program (`src/main.cc` and the modules beside it) listens to a microphone or reads a WAV file,
lets a Silero network decide whether somebody is speaking, runs an acoustic model and a CTC decoder
on what may hold a keyword, and triggers an action when it finds one. These modules model its own
code in TLA+: TLC checks them on small instances, TLAPS proves the most important results for every
value of the constants. Everything is written from the source; the two networks and the numeric
filter bank are inputs that may answer anything.

## 1. Inventory

| component | source | state it keeps | operations | talks to |
|---|---|---|---|---|
| Microphone input | `mic_input.*` | `g_running` (a process-wide atomic), `AudioQueue` (mutex, condition variable, deque of chunks), the sliding buffer, the PortAudio stream pointer, `portaudio_ready` | `Start`, `Stop`, destructor, `ReadWindow`, `AudioCallback`, `OnSignal` | PortAudio (calls it, is called back from another thread), the main loop |
| Voice activity detector | `vad_detector.*` | recurrent state, context samples, `pending`, `speech_active`, `silence_samples` | `Reset`, `Feed`, `Detect` | the Silero network; called by main |
| Feature extractor | `kws_engine.cc`, part 1 | CMVN means and scales | `LoadCmvn`, `Compute` (filter bank, LFR stacking, CMVN) | kaldi-native-fbank |
| Keyword decoder | `kws_engine.cc`, part 2 | tokens, lexicon, keyword token ids; per call the beam | `Load`, `RunCtcBeam`, `MatchKeywords` | called by the engine |
| Keyword engine | `kws_engine.cc`, part 3 | the two above, the ONNX environment, session and answers, the threshold | constructor, `Infer`, `RunOnnx`, destruction | the acoustic model; called by main |
| Input device | `mic_input.cc`, `ResolveInputDevice`, `RequireInputDevice` | none | which of PortAudio's devices is meant by `--device` | PortAudio; called by `Start` and by main |
| Keyword configuration | `common.*` | none | `SplitCsv`, `ExpandKeywords`, `DisplayName`, `Utf8Chars` | main, the decoder |
| Keyword actions | `keyword_action.*`, `sound_tracking_action.*` | list of actions, next simulated direction, servo angle | `OnKeyword` | called by main |
| Main loop | `main.cc`, `RunMicrophone` | `first_window`, `last_hit`, the window | the loop | all of the above |
| Command line, WAV mode, exit codes | `main.cc` | options | `ParseArgs`, `ReadWav`, `RunWavFile`, `main` | all of the above |
| kaldi-native-fbank, PortAudio, ONNX Runtime | `third_party/`, `include/` | | | vendored or external |

What is hard in it:

* *Concurrency.* Three actors share the microphone: PortAudio's callback thread, the owner of the
  `MicInput`, and a signal handler that may run between any two instructions. The condition variable
  is notified after the mutex is released, the signal handler notifies nobody, the destructor
  deletes the queue a callback might be using, and `Pa_StopStream` waits for that callback.
* *Partial failure.* `Start` can fail at four places and cleans up through `Stop`; the VAD can throw
  in the middle of a call that has already consumed part of its input; the engine can fail while it
  reads its files and at every call of the network, and its members go in the order of their
  declaration whatever has been made of them.
* *Ordering and staleness.* Windows overlap by 80 %, and only the newest hop of each goes to the VAD,
  which has to see one stream; the VAD re-cuts it into chunks that do not divide a hop.
* *Time.* The cooldown is measured on the clock of the loop, the windows on the microphone's, and an
  unbounded queue lets the two drift apart.
* *Pointers that outlive a call.* `RunOnnx` hands out a pointer into a tensor that the next call
  replaces; after a failed open PortAudio may leave a stream pointer that must not be used.
* *Long histories.* `silence_samples` and the beam depend on everything heard since a reset.

What makes each component correct: the microphone loses, repeats and reorders no sample and always
stops; the detector's answer depends on the stream and not on how it was cut into calls; the decoder
computes the CTC distribution and reports only what was heard; the feature extractor stacks the
frames there are, leaves no audio out and has a mean and a scale for every value; the engine reads
only answers that exist and releases everything in order; the device opened is the one asked for;
the configuration gives the decoder the keywords that can be spelled and no others; the loop feeds
the gate one stream, spaces actions, and ends on request and on nothing else; the command line never
lets an unusable option through, and the exit status tells what happened.

## 2. Modules and how they correspond to the code

| module | models | how |
|---|---|---|
| `WindowStream` | what `MicInput` promises | abstract specification: captured samples, and windows cut from them one hop apart |
| `MicInput` | `mic_input.cc` | owner, callback and signal handler; one action per critical section, PortAudio call or return |
| `SpeechGate` | what `VadDetector` promises | abstract specification: an answer per call, and no `speech_active` out of nothing |
| `VadDetector` | `vad_detector.cc` | one action per turn of `Feed`'s loop, plus the padding of `Detect` and a network that throws |
| `RunMicrophone` | `RunMicrophone` and `main`'s catch | composes `WindowStream` and `SpeechGate` with the loop, the engine, the action, the clock and the signal |
| `KeywordSpotter` | what the keyword engine promises about one waveform | abstract specification: frames heard, then one answer, which was heard in time order |
| `KeywordDecoder` | `RunCtcBeam`, `MatchKeywords`, `ApplyScoreThreshold` | one action per `ExpandOneStep` |
| `KeywordConfiguration` | `common.cc`, `KeywordDecoder::Load` | one action per line of the lexicon and per keyword |
| `FeatureExtractor` | `Compute`, `ApplyLfrAndCmvn` | one action per slot of a feature row |
| `KwsEngine` | `KwsEngine::Impl`: constructor with `LoadCmvn`, `Infer`, `RunOnnx`, destruction | extends `FeatureExtractor`; one action per line of the CMVN file, call of the network and member released |
| `InputDevice` | `ResolveInputDevice`, `RequireInputDevice` | operators on a list of devices, used by `Program` |
| `Program` | `ParseArgs`, `main`, `ReadWav`, `RunWavFile`, the default actions | one action per word of the command line, then one per thing that can fail |
| `MC...` | | the instances TLC checks |
| `...Proofs` | | theorems and proofs about the module of that name |
| `NumberLemmas` | | lemmas about `Min`, sums over a finite set and induction, used by three of them |

`MicInput` is shown to implement `WindowStream`, `VadDetector` to implement `SpeechGate` and
`KeywordDecoder` to implement `KeywordSpotter`, by the runs and by proofs, so
`RunMicrophone` can use the first two abstract modules in place of the components; its steps on them are
literally `Mic!Capture`, `Mic!Deliver`, `Gate!Answer` and `Gate!Fail`.

**MicInput.** A sample is its position in the captured stream, so that a lost, repeated or reordered
one shows. `pc` is the place the owner has reached (`"read.pop"` is the evaluation of the wait's
predicate, `"read.blocked"` the wait itself, `"read.timeout"` the predicate after the time limit),
`cb` that of the callback. `AudioQueue`'s two critical sections are one step each, because nothing
in them blocks but the wait. `paStream` and `paInits` are PortAudio's own view, against which the
program's (`stream`, `portaudio_ready`) is compared. After a failed open the library leaves the
pointer null or invalid (`FailedOpenLeaves`; the header calls it invalid); it refuses calls with an
invalid one. A trailing action of a function is part of the
function's step, and the catch block of `Start` goes through the very same `Stop` steps. The history
variables `captured`, `consumed` and `lateWindows` appear only in properties and in the bound.

**VadDetector.** A probability is a percentage the network chooses freely. The recurrent state is
modelled by the list of inputs it is a function of, which is what `ModelHearsStream` compares with
the stream. `PredictThrows` is `session.Run` throwing before state and context are written.

**RunMicrophone.** The unit of audio is a hop, the unit of time a tick of 100 ms. `Tick` advances
the steady clock and the microphone together: it cannot pass while a window is ready and the loop is
only waiting (the condition variable wakes it at once), and a window takes at most `MaxBusy` ticks
from its delivery to the end of its processing. Except for these two assumptions about speed, the
loop, the signal and the microphone are independent. `gap` and `elapsed` stand for
`now - last_hit` and for the time since `now` was read; both are capped at the cooldown, beyond
which nothing depends on them. `kept` is a history variable beside `fed`: `Feed` puts its audio behind
`pending` and takes it out only when it returns (`vad_detector.cc:135-149`), so a call that throws
leaves everything it was given, what it has heard included, to the next call. The program ends
instead, which is why `VadHearsEveryHopOnce` needs no exception for failures; a loop that caught the
exception and went on would violate it.

**KeywordDecoder.** Probabilities are parts of a unit and masses parts of its powers, so the model is
exact where the code rounds; the absolute tolerance of `ExpandRepeat` and the limits of the beam are
kept. The order of the turns within a frame is the code's (candidates outside, `std::map`'s prefixes
inside), because emissions depend on it; what `partial_sort` and `sort` do with ties is left open.
The candidates of a frame are a function from the places `partial_sort` fills to tokens. The history
variable `used` keeps the frames that were not skipped, of which the refinement of `KeywordSpotter`
takes the rows; `lost` remembers whether the beam has been cut or a faint source dropped. The
reference for the masses knows nothing of beams: an alignment gives each frame one of its candidates
(`Alignments`), `Collapse` removes its repeats and blanks, and `CtcMass` is the sum of the products
of the alignments that leave a prefix.

**KeywordConfiguration.** A string is a sequence of characters, so that trimming, cutting at commas
and cutting into characters do what they do in the code; the value of `--keyword` is given already
cut at its commas. The files are inputs: missing, of the wrong length, with a word twice, and a
lexicon with lines in any order, repeated, without pieces or with unknown ones. `DecoderUsable` is
`KeywordDecoder`'s `TokenAssumption` discharged. `ExpandKeywords` collects what `add` puts into
`out` in a recursive function over the words with their aliases.

**FeatureExtractor.** A frame of the filter bank is its number and a slot of the result remembers
the frame it was computed from; the values, and what CMVN makes of them, are left out.

**KwsEngine.** A line of the CMVN file is a tag or not, and holds so many numbers or a word among
them; behind a tag the next line is the vector, whatever it is, as in the code. A tensor is named by
the call that made it, so that a pointer to one that has been replaced is visible. The network may
throw, or answer any of `Shapes`; the decoder may answer anything but a keyword without a frame. An
exception, in the constructor or in `Infer`, leads to the destruction of what exists, in the reverse
of the order of declaration.

**InputDevice.** A device has a number of input channels and the words that occur in its name;
`Meant` is the reference the search is compared with.

**Program.** A value `std::stof` reads is between 0 and 1, out of that range, or `nan`, for which
both of the code's comparisons are false. The microphone is opened on any list of devices
PortAudio may find. A load, a network or a microphone may fail whenever the
code calls one. Microphone mode is a mode that acts any number of times: `RunMicrophone` says when.

## 3. Runs

| run | question | answer |
|---|---|---|
| `mic_input` | Every interleaving of callback, owner and signal, two starts, a failure at every point of `Start` with either pointer left behind. Are the windows the promised ones (`WindowsPromised`, `StreamIntact`), is PortAudio held or released completely (`NoHalfOpenDevice`), can a wake-up be lost (`NoLostWakeup`), can a callback meet a deleted queue (`CallbackHasQueue`), does everything end after a stop (`ReadWindowStops`, `StopEnds`), how late can a window come (`AtMostOneLateWindow`), and does a complete window come even if no other chunk ever does (`WindowArrives`)? | all hold |
| `vad_detector` | Six chunks, every cut into calls of one, two and five samples, every sequence of answers at and around both thresholds, a network that throws once at any chunk. Does the network hear the stream (`ModelHearsStream`); is `speech_active` what its history says (`SpeechActiveExact`); is the gate's promise kept (`GateKept`)? | all hold |
| `vad_detector_gap` | Is the low probability that ends speech continuous, as the comment says? | no: chunks between the thresholds do not restart the count |
| `vad_detector_low_threshold` | Does silence end speech at every accepted threshold? | no: below 0.15 nothing does |
| `run_microphone` | A loop that just keeps up, with a hop's time for each window. Does the gate hear each hop once, also when the network fails in the middle of a call (`VadHearsEveryHopOnce`), the last one too (`EveryHopHeard`), and does the queue stay within a hop (`BacklogBounded`); does the engine run only after speech (`NoKeywordWithoutSpeech`), how close can two actions be (`HitsSpaced`), how many follow a stop (`AtMostOneLateAction`), does the loop end on request (`StopHonoured`) and only then (`NormalExitRequested`)? | all hold |
| `run_microphone_slow` | A window takes 1.6 s. Do adjacent windows never both trigger? | they do |
| `run_microphone_signal` | Does a signal end the program whenever it is handled? | not between `InstallSignalHandlers` and the store in `Start` |
| `keyword_configuration` | Does filtering the lexicon change a keyword (`FilterHarmless`), can a damaged entry take another keyword along (`DecoderUsable`, `RefusedForCause`), is everything that can be detected shown as what it means, a variant as its word and any other keyword as itself, and was it or its word asked for (`ShownAsMeant`)? | all as they should |
| `feature_extractor` | One engine, any of 16 CMVN files, two calls with audio of any length, a failure at every call. Is a frame read that is not there (`FramesInWaveform`), are the rows the padded frames stacked, and is the network asked about nothing else and never about no frame (`RowsAreStacks`), is audio left out (`AudioHeard`), does every value have a mean and a scale (`CmvnCoversRows`), does the decoder read this call's tensor while it exists (`LogitsReadable`), is everything released in order (`ReleasedInOrder`)? | all as they should |
| `program` | Every short command line, every failure, every list of up to two devices. Can an unusable option, `nan` included, get past the command line, or a missing value go unnoticed where it matters (`OptionsUsable`); does the exit status tell what was heard and done (`StatusTells`); is the device opened the one asked for (`DeviceAsAsked`)? | no; yes; yes |
| `keyword_decoder` | Five frames of all combinations of five kinds of row, a beam of six paths, a coarse tolerance. Until mass is lost, is the beam the CTC distribution, alignment by alignment (`BeamIsCtc`); can mass be invented (`BeamWithinCtc`) or an emission be false (`EmissionsFaithful`); is the answer one `KeywordSpotter` allows (`SpotterKept`)? | the distribution; neither; yes |
| `keyword_decoder_faint` | Is a repetition after a blank always followed with the shipped tolerance? | not after a few faint frames |

The bounds, and why they are enough:

* *MicInput*: hop 2, window 5, twelve samples captured, two starts. The window is not a multiple
  of the hop, so that the first one starts inside a chunk, which the shipped sizes (6400 and 32000)
  never do; several windows follow it, a restart happens at every stage, and the queue grows to
  several chunks.
* *VadDetector*: chunks of two samples with one of context and a silence of five, so that, as
  shipped (512, 64, 1600), the silence is not a whole number of chunks and takes several of them.
  Six chunks hold speech, a full silence, and speech again. 35 and 50 are the two limits themselves.
* *RunMicrophone*: hop 4 ticks and cooldown 15 as shipped; a window of three hops instead of five
  still overlaps its neighbours; nine hops hold seven windows, enough for two actions with the
  cooldown between them.
* *KeywordDecoder*: three frames spell a keyword of a repeated token with its blank; five leave two
  more in which it is heard again, cut or overtaken; five rows cover a pause, a tie, a clear token
  each and a frame without candidates.
* *KeywordConfiguration*: all lexicons of up to three lines out of seven hold a line that overrides
  another, an entry for a whole word beside one for its character, one without pieces and one with
  an unknown piece; the vocabulary lacks characters of every keyword, as the shipped one does.
* *KwsEngine*: two calls are what it takes for an answer to be replaced; the files hold both
  sections in either order, between other lines, twice, too short, too long, without their vector and
  with a word in it; the shapes are the one expected and one with each thing that can be wrong.
* *FeatureExtractor*: `LfrM` and `LfrN` as shipped; 30 samples give up to 13 frames, every remainder
  of both divisions, and rows that are clamped on one side, on both and on neither.
* *Program*: three words are an option with its value and one word more; the number of actions goes
  once round the locator's five directions; two devices, each with or without a microphone and with
  or without the name asked for, hold every case of a search for the first one.

`TypeOK` is checked where it says more than types (`mic_input`, `vad_detector`, `keyword_decoder`);
that of `RunMicrophone`, `KwsEngine` and `Program` is proved and in no run.

**Fairness.** `MicInput` and `RunMicrophone` assume that a thread inside a call keeps running (each
step it takes is finite: a library call, a critical section, a wait of at most 100 ms) and that a
callback which has begun ends. `Pa_StopStream` gets strong fairness: callbacks may come and go while
it waits, and the library does not put the stop off for ever. Nothing is assumed of the caller, of
signals, of spurious wake-ups, or of another callback ever coming: a stopped or silent microphone is
the case the liveness properties are about. The other modules are sequential, their
loops run over a fixed input, and they have no liveness worth stating.

**Deadlock** is checked in every run; where a component is really finished (`Gone`, `Exited`,
`Done`) it says so with a step that changes nothing.

## 4. Findings

Five runs are expected to end in a violation. Each checks what a comment or a header of the
repository says; `PROJECT.json` quotes it.

1. `vad_detector.cc:94`: low chunks that are not contiguous add up to the 100 ms that end speech.
2. `vad_detector.cc:95`: with a threshold up to 0.15 speech never ends.
3. `main.cc:214`: a loop slower than the cooldown acts on adjacent windows.
4. `mic_input.cc:175`: a signal before `Start`'s store is forgotten, and the program listens on.
5. `kws_engine.cc:311`: masses are never normalised, the tolerance is absolute, so repetitions after
   a blank are lost in long faint audio.

Two more observations have no run of their own. After a failed `Pa_OpenStream`, `Stop`
(`mic_input.cc:201`) uses the pointer unless it is null, while `portaudio.h:889-890` calls it invalid;
`NoHalfOpenDevice` shows that `Stop` releases everything with a library that leaves the pointer alone
and with one that refuses an invalid pointer, and nothing can be said of one that follows it. And
`main.cc:66` reports an option without its value but does not refuse it: `--wav` at the end of the
command line starts to listen to the microphone. `OptionsUsable` states which options may go on
without their value.

## 5. Proofs

All theorems hold for every value of the constants that satisfies the modules' assumptions:
`HopAssumption`, `OpenAssumption` and `BoundAssumption` (MicInput), `ThresholdAssumption` and
`SizeAssumption` (VadDetector), `TimeAssumption` (RunMicrophone), `SizeAssumption` and
`EngineAssumption` (FeatureExtractor, KwsEngine), `HardwareAssumption` and `ValueAssumption`
(InputDevice, Program), `TokenAssumption` and `NumberAssumption` (KeywordDecoder), `FileAssumption`
(KeywordConfiguration). The bounds are among those constants and may be as large as one likes.

*MicInputProofs.* `DeviceInv` describes, for each place of the owner, who holds what of PortAudio; it
is needed because neither `CallbackHasQueue` nor `NoHalfOpenDevice` is inductive (they say nothing
of the places inside `Start` and `Stop`). `CallbackSafe` and `DeviceReleased` follow from it at
once, and `WakeupNotLost` is inductive on top of it. `LateWindowBound` needs to know that a call past
its loop condition has delivered nothing yet (`LateInv`). `StreamInv` adds to `StreamIntact` how much
of the stream the buffer holds before and after the first window; from it follow `NothingLost` and
`WindowsKept`, the refinement of `WindowStream`, by lemmas about spans of the stream (joining two,
taking the last samples of one). `TypeCorrect` adds what no other invariant speaks of.

*VadDetectorProofs.* `TypeCorrect` is the type invariant, including that `silence_samples` stays
below the limit and counts only in speech; its strengthening adds the length of the context and the
position of `consumed`. `ResultsAgree` shows that `has_speech` and `max_probability` cannot disagree.
`GateImplemented` is the refinement of `SpeechGate`, on top of `GateInv`: while a call is in
progress, speech that is going on was carried over or heard in this call.

`SpeechActiveExact` speaks of the whole history and is not inductive: it does not tie
`silence_samples` to the history. `SpeechInv` does, in both directions, and `SpeechIsItsHistory`
follows; the steps count the low chunks behind the last high one.
`StreamIsHeard` rests on `HearInv`, which says the same as `ModelHearsStream` in a form that each
turn of `Feed` keeps: the inputs given, the context, and the part of `pending` still ahead are
windows of the one stream.

*RunMicrophoneProofs.* `KeywordNeedsSpeech`, `ExitOnRequest` and `LateActionBound` each have a small
invariant over the places of the loop. `GateHearsStream` rests on `StreamInv` (what has been fed is
everything up to the last window, or up to the one before while the last is still to be fed; what a
call that threw has kept is still there only when the program has ended).
`ActionsSpaced` and `QueueStaysShort` have an assumption of their own, `MaxBusy <= HopTicks` (the
loop keeps up): `PaceInv` relates the loop's clock to the microphone's, so that the age of a window is
the time spent on it, no window is overdue while the loop waits, and the time since the last action is
at most the age of that action's window. The run `run_microphone_slow` shows what happens without the
assumption. `TypeCorrect` uses `FlagInv` and `CountInv`.

*KwsEngineProofs.* `ObjectInv` says which objects exist at which place, and with it `OrderOfRelease`
and `TensorReadable` are short. `RowInv` follows the rows: each slot holds its source and a row exists
only if there is a frame; `FramesExist` and `FrameBeforeKeyword` follow. `WrittenInv` adds that the
slots written are exactly those before the loops' counters, until the network has been asked about
them, which gives `StacksOfFrames` by the arithmetic of the padding. `FileInv` (rows exist only behind an accepted CMVN file) gives
`RowsNormalised`, and `CountInv` the type invariant. `AudioReachesModel` has the assumption
`LfrN + left_pad <= LfrM`, which the shipped 5 and 3 just satisfy: a stack lies around every
`LfrN`-th frame and has to reach the frame before the next of these, also behind the last one. The
proof names, for every sample, a frame that holds it and a slot that holds the frame.

*ProgramProofs.* `ParseInv` follows the parser: a missing value is always that of the last word and
leaves an empty string where `main` will look for one, or has ended the program. `OptionsChecked`
follows, `StatusIsAnswer` with `HitInv` (nothing has been done before the mode is chosen, nothing but
the one action in WAV mode). `DeviceChosen` compares the search with its reference by the least
element of a set (`NumberLemmas`). `TypeCorrect` contains the round robin of the locator and the
range of the servo.

*KeywordDecoderProofs.* `UsedInv`: the frames that were not skipped are numbered in strictly
increasing order, so that a frame number names one row. `PathInv`: in both beams the emissions spell
the prefix, each is what some frame gave its token, their frames increase, and at most the last is
from the frame being worked on; while a frame is worked on, no path of the beam it expands has any
emission from it. That last part is what makes the property inductive: `ExpandRepeat` and
`ExpandNewToken` append an emission of the frame to a path of the last beam, and replace the last one
of a path of the new beam. `EmissionsHeard` follows. `KeywordsHeard` is the refinement of
`KeywordSpotter`: for the keyword `MatchKeywords` finds at its least place, the frames the emissions
came from are the witness that it was heard in time order with that product. `TypeCorrect` adds that
the beam and the candidates of a frame never exceed their limits.

`BeamIsTheCtcDistribution` and `NoMassInvented` compare the beam with the sums over all alignments,
which are exponentially many. The argument has two halves. The first is about alignments only:
`BlankMass` and `TokenMass` split the mass of a prefix by whether the alignment ends in the blank,
as `PathState` does, and `BlankRecurrence` and `TokenRecurrence` say what one frame more makes of
them: the alignments of `n + 1` frames are those of `n`, each with a token of the new frame
(`AlignmentsAppended`), such an alignment weighs that much more (`MassAppended`), and it collapses to
a prefix in exactly two ways, by staying on its last token or by entering it, after a blank if the
prefix ends in that token already (`CollapseToToken`). The second half is about the search. `BuildInv`
says that while a frame is worked on, the beam being built holds for every prefix what the turns
taken so far have given it (`BlankSoFar`, `StaySoFar`, `EntrySoFar`), whatever their order, and
nothing else; only three turns of a frame give a prefix anything (the blank and the repeat on itself,
its last token on the prefix before it), so that no sum over turns is needed. It uses `HeardInv`: no token is a candidate
of a frame twice, or a turn would be taken twice, and none has probability 0, or an alignment could
weigh nothing. When all turns are taken, `FrameCarried` puts the halves together: masses that were
at most (exactly) those of the frames before are at most (exactly) those of one frame more.
`BeamInv` carries this from frame to frame; it is needed because neither property says how a path's
mass is divided between its two endings, nor anything while a frame is worked on. Cutting the beam
keeps the bound, and the equality if nothing was cut. The sums are taken apart by the lemmas of
`NumberLemmas` on `SumFunctionOnSet` (`SumProperties`, `SumOfTwo`, `SumScaled`), which rest on
induction over subsets and over ranges, both derived from `LeastNumber`.

*KeywordConfigurationProofs.* `LexiconInv` says that the lexicon holds, of the words that are wanted,
the last line read; with it every keyword resolves as it would with the whole file, once it is known
that `FlattenSeq` makes a sequence of sequences (an induction written out by least counterexample).
`BuildInv` splits the keywords that can be detected into those done and those still to come, and says
that what is done is right and searched for. `LoadedAsWritten`, `ReadyForDecoder` and
`RefusalHasCause` follow. `VariantsShownAsMeant` needs to know what `ExpandKeywords` collects:
`ExpandTyped` shows, by the same kind of induction over the words, that each is a word asked for or
an alias of one, and that it is a word at all; the rest is the agreement of the two tables of
`common.cc` (`TablesAgree`). It holds for every value of `--keyword`: one that lists a variant itself
gets it shown as its word, which nobody need have asked for.

Every invariant of a run that passes is a theorem. Only model-checked: every liveness property (the
prover does not treat fairness and `ENABLED`), and what the runs expected to fail show, which are
counterexamples and not theorems.

The library's induction theorems and the facts about recursive functions cannot be cited here (they
take an operator as a parameter). Where an induction is needed it is written out as a set of numbers
or of subsets without a least element outside it, and a recursive function is the one that `StepsExist`
or `JoinExists` shows to exist.

## 6. What the models abstract

* Floating point: percentages and exact fractions stand for `float` and `double`. Rounding at a
  threshold, NaN from a network and underflow are not modelled.
* The contents of audio: samples are positions. `CallbackEnter` always has an input buffer; the null
  buffer that the callback ignores would be no step.
* The PortAudio device: its parameters. In `MicInput`, `FindDevice` is only success or failure;
  `Program` opens the microphone with `InputDevice`, where the choice is made.
* The callback's status flags: what the library loses before the callback changes no state here.
* In `KwsEngine` the options of the session, and what the decoder does with the logits:
  `KeywordDecoder` begins where `Decode` is one step.
* The contents of a WAV file: only what the header check sees and how many bytes there are.
* In `RunMicrophone` the inside of `ReadWindow` is two places (the loop condition, and a wait that
  ends with a window or by its timeout), which is what `MicInput` promises of it.
* Printing.

## 7. Not modelled

* *Headers of other projects.* `src/include` holds the headers of ONNX Runtime and PortAudio, some
  23,400 of the roughly 25,000 lines of C and C++ outside `third_party/`, that is 94 %. They declare
  interfaces and hold no code of this program and, but for inline wrappers that forward to a
  library, none at all.
  The models treat both libraries as external, as the program uses them, and name the constants and
  the sentence of the headers they depend on. The program's own code is some 1,500 lines; about half
  of them are named in the map, the rest being declarations, printing, parameter lists and includes.
* *kaldi-native-fbank*: numeric code, vendored. Only its count of frames is modelled.
* *The networks and ONNX Runtime's inside*: functions that answer or throw. A NaN as an answer of the
  voice activity network would compare false with both thresholds and is not among the answers
  modelled.
* *Bytes*: malformed UTF-8, and chunks of a WAV file other than the two expected. No text of the
  repository says what should happen to them.
* *Which keyword wins* when several are heard, and a limit for `--min-score`: nothing promises
  anything, so there is nothing to check the code against.

## 8. Plan

Done, in this order: `MicInput` with `WindowStream`, `VadDetector` with `SpeechGate`, `RunMicrophone`
on top, `KeywordDecoder`, then `KeywordConfiguration`, `FeatureExtractor` and `Program`; after them
`KwsEngine`, `InputDevice` and `KeywordSpotter`, and the proofs of all modules.

Left:

1. The liveness properties as theorems, with a prover that treats `ENABLED` and fairness.
2. `RunMicrophone` with `KwsEngine` in place of its engine, which answers freely today; `KwsEngine`
   with `KeywordSpotter` in place of its decoder.
3. A NaN from the networks, and the bytes of UTF-8 and of a WAV file, if a property about them is
   worth it.
