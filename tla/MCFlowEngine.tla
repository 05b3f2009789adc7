---------------------------- MODULE MCFlowEngine ----------------------------
(***************************************************************************)
(* Flow definitions for model checking, each one accepted by build().      *)
(***************************************************************************)
EXTENDS FlowEngineProperties, TLC

MCState == {"Created", "Quoted", "Pending", "Paid", "Review", "Shipped", "Cancelled", "Failed",
            "Apply", "Verify", "Opened", "Refused", "Ask", "Check", "Ok", "Rejected", "S0", "S1"}

MCKey == {"pay", "cancel", "quote", "token", "receipt"}

noError == [s \in MCState |-> None]

base(states, initial, terminal, transitions) ==
    [states |-> states, initial |-> initial, terminal |-> terminal, transitions |-> transitions,
     onError |-> noError, routes |-> <<>>, enterActions |-> {}, exitActions |-> {},
     maxGuardRetries |-> 2, ttl |-> 2, strictMode |-> FALSE,
     perpetual |-> FALSE, allowUnreachable |-> FALSE]

(* One level: auto, two externals told apart by what they require, a       *)
(* branch with and without a processor, externals with triggers, timeouts, *)
(* error routes to a terminal and to a waiting state, a typed route back   *)
(* to the same state, a throwing exit action, no route at all from Created *)
(* and Review.                                                             *)
Order ==
    [base({"Created", "Quoted", "Pending", "Paid", "Review", "Shipped", "Cancelled", "Failed"},
          "Created", {"Shipped", "Cancelled", "Failed"},
          <<auto("Created", "Quoted", {"quote"}),
            auto("Quoted", "Pending", {}),
            withTimeout(withProcessor(external("Pending", "Paid", {"pay"}, {"token"}), {"receipt"}), 1),
            external("Pending", "Cancelled", {"cancel"}, {}),
            withProcessor(branch("Paid", "Shipped", "yes"), {}),
            branch("Paid", "Review", "no"),
            externalOn("pay", "Review", "Shipped", {}, {}),
            externalOn("cancel", "Review", "Cancelled", {}, {})>>)
        EXCEPT !.onError = [noError EXCEPT !["Pending"] = "Failed", !["Paid"] = "Review"],
               !.routes = <<[from |-> "Pending", class |-> "Retryable", to |-> "Pending"]>>,
               !.enterActions = {"Paid", "Shipped"}, !.exitActions = {"Pending"},
               !.strictMode = TRUE]

(* Two levels, and a third that never waits: the sub-flow waits for an     *)
(* event, its own sub-flow, put in as a plugin, does not; one exit leads   *)
(* back to the state that starts the sub-flow again.                       *)
Account ==
    [base({"Apply", "Verify", "Opened", "Refused"}, "Apply", {"Opened", "Refused"},
          <<auto("Apply", "Verify", {"quote"}),
            subFlow("Verify", "Kyc", [x \in {"Ok", "Rejected"} |-> IF x = "Ok" THEN "Opened" ELSE "Verify"])>>)
        EXCEPT !.onError = [noError EXCEPT !["Apply"] = "Refused", !["Verify"] = "Refused"]]

Score == base({"S0", "S1"}, "S0", {"S1"}, <<auto("S0", "S1", {"receipt"})>>)

Kyc ==
    withPlugin(
        [base({"Ask", "Check", "Review", "Ok", "Rejected"}, "Ask", {"Ok", "Rejected"},
              <<external("Ask", "Check", {"pay"}, {"token"}),
                auto("Check", "Review", {"cancel"}),
                branch("Review", "Ok", "yes"),
                withProcessor(branch("Review", "Rejected", "no"), {"receipt"})>>)
            EXCEPT !.onError = [noError EXCEPT !["Check"] = "Rejected", !["Review"] = "Rejected"]],
        "Check", "Review", "Score", Score.terminal)

(* A sub-flow whose exit leads straight back: a chain without end that the *)
(* cycle check of build() accepts, since it only follows auto and branch   *)
(* transitions.                                                            *)
Spin ==
    [base({"Apply", "Refused"}, "Apply", {"Refused"},
          <<subFlow("Apply", "Score", [x \in {"S1"} |-> "Apply"])>>)
        EXCEPT !.onError = [noError EXCEPT !["Apply"] = "Refused"], !.enterActions = {"Apply"}]

(* For overlapping calls: two events that can be answered out of order, a  *)
(* self-transition, an automatic step that can send the flow back, and an  *)
(* enter action.                                                           *)
Ticket ==
    [base({"Pending", "Check", "Ok", "Failed"}, "Pending", {"Ok", "Failed"},
          <<withProcessor(external("Pending", "Check", {"pay"}, {}), {"receipt"}),
            external("Pending", "Pending", {"cancel"}, {}),
            auto("Check", "Ok", {})>>)
        EXCEPT !.onError = [noError EXCEPT !["Check"] = "Pending"], !.enterActions = {"Check"}]

MCDef == [Ticket |-> Ticket, Order |-> Order, Account |-> Account, Kyc |-> Kyc, Score |-> Score, Spin |-> Spin]

(* How far the chains of these definitions can still go, and that they     *)
(* meet the condition under which no flow is stranded; the chains of Spin  *)
(* have no end.                                                            *)
MCSteps ==
    [n \in DOMAIN MCDef |-> [s \in MCState |->
        CASE s \in {"Created", "Apply"}      -> 3
          [] s \in {"Quoted", "Check"}       -> 2
          [] s \in {"Paid", "Verify", "S0"}  -> 1
          [] n = "Kyc" /\ s = "Review"       -> 1
          [] OTHER -> 0]]

ASSUME DeliversAssumption == "Spin" \notin Root => Delivers(MCSteps)

(* The definition whose calls overlap meets the condition on error routes. *)
ASSUME RejectionsAssumption == Serialized \/ \A n \in Root : RejectionsEnd(Def[n])

MCInstanceOf == {<<"Retryable", "Retryable">>, <<"FlowError", "FlowError">>}

MCEvent == {{}, {"pay"}, {"cancel"}, {"pay", "cancel"}}
=============================================================================
