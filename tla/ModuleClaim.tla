---------------------------- MODULE ModuleClaim ----------------------------
(***************************************************************************)
(* What the module manager promises about a module, without saying how an  *)
(* operation does its work: an operation claims the module, works, and     *)
(* ends by publishing one outcome and giving the claim up in a single      *)
(* step. The published status never moves for any other reason, except     *)
(* that an install announces itself first.                                 *)
(***************************************************************************)

CONSTANTS
    Modules,
    Restarts   \* whether the platform may restart

VARIABLES
    state,   \* the published status of each module
    claim    \* who holds it: "free", or the operation under way

vars == <<state, claim>>

Init ==
    /\ state = [m \in Modules |-> "none"]
    /\ claim = [m \in Modules |-> "free"]

Claim(m) ==
    /\ claim[m] = "free"
    /\ \E o \in {"install", "enable", "disable", "uninstall"} :
        claim' = [claim EXCEPT ![m] = o]
    /\ UNCHANGED state

\* An install announces itself once, before it touches anything.
Announce(m) ==
    /\ claim[m] = "install"
    /\ claim' = [claim EXCEPT ![m] = "announced"]
    /\ state' = [state EXCEPT ![m] = "installing"]

\* The outcomes of an operation: an announced install must settle, and the
\* others either do what they are for or leave the status as it was.
Outcomes(m) ==
    CASE claim[m] = "announced" -> {"running", "error"}
      [] claim[m] = "install"   -> {state[m]}
      [] claim[m] = "uninstall" -> {state[m], "none"}
      [] claim[m] = "enable"    -> {state[m]} \union
                                   (IF state[m] = "none" THEN {} ELSE {"running"})
      [] claim[m] = "disable"   -> {state[m]} \union
                                   (IF state[m] = "none" THEN {} ELSE {"stopped"})

End(m) ==
    /\ claim[m] # "free"
    /\ claim' = [claim EXCEPT ![m] = "free"]
    /\ \E s \in Outcomes(m) : state' = [state EXCEPT ![m] = s]

\* A restart of the platform forgets every claim and no status.
Restart ==
    /\ Restarts
    /\ claim' = [m \in Modules |-> "free"]
    /\ UNCHANGED state

Next == Restart \/ \E m \in Modules : Claim(m) \/ Announce(m) \/ End(m)

Spec == Init /\ [][Next]_vars

=============================================================================
