------------------------- MODULE MCRecorderSignals -------------------------
(* Instances of RecorderSignals for TLC.                                   *)
EXTENDS RecorderSignals, TLC

CONSTANTS s1, s2        \* two signals, each with the thread that feeds it

SignalPair == {s1, s2}
SignalSymmetry == Permutations(SignalPair)

(* A signal the scalar handler records, and a CAN signal whose domain has no *)
(* type an SIE decoder can read: its handler's constructor throws.           *)
Linear == [domain |-> "linear", ruleParameters |-> TRUE, domainScalar |-> TRUE,
           valueExplicit |-> TRUE, sample |-> "scalar", dimensions |-> FALSE]
UnreadableCan == [Linear EXCEPT !.domain = "explicit", !.sample = "struct",
                                !.domainScalar = FALSE]

MCDescriptors == {Linear, UnreadableCan}
=============================================================================
