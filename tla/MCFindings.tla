----------------------------- MODULE MCFindings -----------------------------
(***************************************************************************)
(* A definition accepted by build() on which the engine does something     *)
(* else than its documents say.                                            *)
(***************************************************************************)
EXTENDS FlowEngineProperties, TLC

MCState == {"A", "B", "X", "Y", "Z"}

noError == [s \in MCState |-> None]

base(states, initial, terminal, transitions) ==
    [states |-> states, initial |-> initial, terminal |-> terminal, transitions |-> transitions,
     onError |-> noError, routes |-> <<>>, enterActions |-> {}, exitActions |-> {},
     maxGuardRetries |-> 1, ttl |-> 1, strictMode |-> FALSE,
     perpetual |-> FALSE, allowUnreachable |-> FALSE]

(* Three levels, the innermost waits.                                      *)
Innermost == base({"X", "Y"}, "X", {"Y"}, <<external("X", "Y", {}, {})>>)
Middle == base({"B", "Y"}, "B", {"Y"}, <<subFlow("B", "Waiting", [x \in {"Y"} |-> "Y"])>>)
EmbedsMiddle == base({"A", "Z"}, "A", {"Z"}, <<subFlow("A", "Middle", [x \in {"Y"} |-> "Z"])>>)

MCDef == [Waiting |-> Innermost, Middle |-> Middle, EmbedsMiddle |-> EmbedsMiddle]

MCInstanceOf == {<<"FlowError", "FlowError">>}
=============================================================================
