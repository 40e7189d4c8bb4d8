---------------------------- MODULE InputDevice -----------------------------
(***************************************************************************)
(* mic_input.cc, ResolveInputDevice and RequireInputDevice: which of the   *)
(* devices PortAudio found is meant by the word behind --device. Devices   *)
(* are numbered from 0; of a name counts which words occur in it.          *)
(***************************************************************************)
EXTENDS Integers, Sequences, FiniteSetsExt

CONSTANTS
  DigitWords, \* words of digits only
  Stoi,       \* the number of each of them that an int can hold
  Hardware    \* bound: what PortAudio may have found

paNoDevice == -1

Devices(hardware) == 0 .. Len(hardware.devices) - 1

Device(hardware, n) == hardware.devices[n + 1]

ASSUME HardwareAssumption ==
  /\ "" \notin DigitWords
  /\ DOMAIN Stoi \subseteq DigitWords /\ \A word \in DOMAIN Stoi : Stoi[word] \in Nat
  /\ \A hardware \in Hardware :
       /\ Len(hardware.devices) \in Nat
       /\ \A n \in Devices(hardware) : Device(hardware, n).inputs \in Nat
       /\ hardware.default \in Devices(hardware) \union {paNoDevice}

(* RequireInputDevice throws unless this holds.                            *)
IsInput(hardware, n) == n \in Devices(hardware) /\ Device(hardware, n).inputs > 0

Named(hardware, n, text) == text \in Device(hardware, n).texts

First(numbers) == IF numbers = {} THEN paNoDevice ELSE Min(numbers)

(* std::stoi throws for a number that is too large. *)
Resolvable(spec) == spec \in DigitWords => spec \in DOMAIN Stoi

(* Mutation: a device that only plays is found by its name as well.        *)
ResolveInputDevice_AnyDevice(hardware, spec) ==
  IF spec = "" THEN hardware.default
  ELSE IF spec \in DigitWords THEN Stoi[spec]
  ELSE First({n \in Devices(hardware) : Named(hardware, n, spec)})

ResolveInputDevice(hardware, spec) ==
  IF spec = "" THEN hardware.default
  ELSE IF spec \in DigitWords THEN Stoi[spec]
  ELSE First({n \in Devices(hardware) : IsInput(hardware, n) /\ Named(hardware, n, spec)})

(* The reference: the devices that are meant and have a microphone.        *)
Meant(hardware, spec) ==
  {n \in Devices(hardware) :
     /\ Device(hardware, n).inputs > 0
     /\ \/ spec = "" /\ n = hardware.default
        \/ spec \in DOMAIN Stoi /\ n = Stoi[spec]
        \/ spec \notin DigitWords \union {""} /\ Named(hardware, n, spec)}
=============================================================================
