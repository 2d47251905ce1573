--------------------------- MODULE MCPulseEngine ---------------------------
(* Instances of PulseEngine for TLC: one of the emission of pulses in      *)
(* time, without encoders, and one of the movement of an encoder.          *)
EXTENDS PulseEngine

(* With Den = 2: a frequency that takes two ticks for a pulse, and one     *)
(* worth a pulse and a half per tick.                                      *)
TimeFreqs == {-1, 3}

(* Both directions; 2 is a pulse per tick.                                 *)
EncoderFreqs == {-2, 4}
EncoderPositions == {-3}

(* At first the encoder follows output 0 at a quarter of a revolution per  *)
(* pulse with the digital output as direction; then output 1 at half a     *)
(* revolution per pulse with the sign of the frequency.                    *)
EncoderMappings == {[enc |-> 0, link |-> 1, ppr |-> 2, dig |-> 1]}

(* The state without the histories, which no action reads and no property  *)
(* of encoders mentions.                                                   *)
Present == <<pwm, enc, out, host, last, dt, cur, inCallback>>
=============================================================================
