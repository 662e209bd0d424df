------------------------------- MODULE Dht11 -------------------------------
(***************************************************************************)
(* The one-wire reading of the temperature sensor (src/app/driver/dht11.c).*)
(*                                                                         *)
(* The sensor sends a bit as a low and a high part; how long the high part *)
(* is makes it 0 or 1.  The driver counts microseconds from the end of its *)
(* last sample, waits for the line to rise and samples once more.  A       *)
(* signal is the sequence of its pulses; times begin with the first low    *)
(* part.  A line that never rises (no sensor, a reset of the watchdog) is  *)
(* left out, as is the time the instructions take.                         *)
(***************************************************************************)
EXTENDS Integers, Sequences, SequencesExt, FiniteSetsExt, Folds

\* The sensor keeps the line low once more behind the last bit.
LastLow == 50

Length(pulse) == pulse.low + pulse.high
Start(pulses, i) == FoldLeft(LAMBDA t, pulse : t + Length(pulse), 0, SubSeq(pulses, 1, i - 1))
End(pulses) == Start(pulses, Len(pulses) + 1)

\* GPIO_INPUT_GET at time t.
IsHigh(pulses, t) ==
  \/ \E i \in DOMAIN pulses :
       t >= Start(pulses, i) + pulses[i].low /\ t < Start(pulses, i + 1)
  \/ t >= End(pulses) + LastLow

\* The first rise at t or later.
Rise(pulses, t) == Min({u \in t..End(pulses) + LastLow + t : IsHigh(pulses, u)})

\* The second sample of the answer is taken 45 us before the first bit; the time
\* between is measured from an answer of 75 us low and 85 us high.
FirstSample == (40 + 35 + 45 + 45) - (75 + 85)

\* "delay", from the sample of a bit to the middle of the low part of the next.
Delay(bit) == IF bit = 1 THEN 25 + 27 ELSE 2

\* The loops of DHT11Refresh that read the bits.
ReadBits(pulses) ==
  LET Sample(s) ==
        LET at  == Rise(pulses, s.time) + 25 + 20
            bit == IF IsHigh(pulses, at) THEN 1 ELSE 0
        IN  [time |-> at + Delay(bit), bits |-> Append(s.bits, bit)]
  IN  FoldLeft(LAMBDA s, pulse : Sample(s), [time |-> FirstSample + 27, bits |-> <<>>], pulses).bits

SumOf(bytes) == FoldLeft(LAMBDA a, b : a + b, 0, bytes) % 256

\* DHT11Refresh: nothing is read without the answer of the sensor, low and then
\* high; the four bytes are kept when their sum is the fifth.
DHT11Refresh(cache, slaveAck, slaveStart, bytes, sumArea) ==
  IF slaveAck = 0 /\ slaveStart = 1 /\ SumOf(bytes) = sumArea THEN bytes ELSE cache

=============================================================================
