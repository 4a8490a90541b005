------------------------------ MODULE MCUnwind ------------------------------
(* Instances of Unwind for TLC. *)
EXTENDS Unwind

Transfers == {{"protect", "handle", "return", "let"},
              {"catch", "handle"},
              {"catch", "return", "foreign"},
              {"protect", "return", "foreign", "menv"},
              {"handle", "foreign", "hook", "fail", "let", "menv"},
              {"catch", "foreign", "abscond"},
              {"protect", "return", "abscond", "capture"}}

One == {{"error"}}

=============================================================================
