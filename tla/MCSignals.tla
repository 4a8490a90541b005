----------------------------- MODULE MCSignals -----------------------------
(* Instances of Signals for TLC: signal 9 cannot be masked, 11 is a        *)
(* processor exception.                                                    *)
EXTENDS Signals

Two == {1, 2, 9}
WithException == {1, 9, 11}
Cpu == {11}
Kill == {9}
=============================================================================
