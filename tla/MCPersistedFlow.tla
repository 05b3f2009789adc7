--------------------------- MODULE MCPersistedFlow ---------------------------
(***************************************************************************)
(* A subscription: New -auto-> Mailed -external, processor-> Known, which  *)
(* branches to Done or to the sub-flow of Checked.  Mailed and Checked     *)
(* fail, but Mailed stays on an Outage; Known falls back to Mailed.  The   *)
(* actions that Known and Done enter with and Known is left with can throw.*)
(***************************************************************************)
EXTENDS PersistedFlow

MCState == {"New", "Mailed", "Known", "Checked", "Done", "Failed", "X", "Y"}

noError == [s \in MCState |-> None]

base(states, initial, terminal, transitions) ==
    [states |-> states, initial |-> initial, terminal |-> terminal, transitions |-> transitions,
     onError |-> noError, routes |-> <<>>, enterActions |-> {}, exitActions |-> {},
     maxGuardRetries |-> 2, ttl |-> 0, strictMode |-> FALSE,
     perpetual |-> FALSE, allowUnreachable |-> FALSE]

Waiting == base({"X", "Y"}, "X", {"Y"}, <<external("X", "Y", {}, {})>>)

Subscription ==
    [base({"New", "Mailed", "Known", "Checked", "Done", "Failed"}, "New", {"Done", "Failed"},
          <<auto("New", "Mailed", {}),
            withProcessor(external("Mailed", "Known", {}, {}), {}),
            branch("Known", "Checked", "yes"),
            branch("Known", "Done", "no"),
            subFlow("Checked", "Waiting", [x \in {"Y"} |-> "Done"])>>)
        EXCEPT !.onError = [noError EXCEPT !["Mailed"] = "Failed", !["Known"] = "Mailed", !["Checked"] = "Failed"],
               !.enterActions = {"Known", "Done"},
               !.exitActions = {"Known"},
               !.routes = <<[from |-> "Mailed", class |-> "Outage", to |-> "Mailed"]>>]

MCDef == [Subscription |-> Subscription, Waiting |-> Waiting]

MCInstanceOf == {<<"Outage", "Outage">>, <<"FlowError", "FlowError">>}
=============================================================================
