---------------------------- MODULE GrantContract ----------------------------
(***************************************************************************)
(* What a runtime execution token promises: it is granted once, it lets the *)
(* connector act at most once, and once spent it is spent for good.         *)
(***************************************************************************)
EXTENDS Naturals

CONSTANT Key

VARIABLES phase, effects

vars == <<phase, effects>>

Init ==
  /\ phase = [k \in Key |-> "ungranted"]
  /\ effects = [k \in Key |-> 0]

Grant(k) ==
  /\ phase[k] = "ungranted"
  /\ phase' = [phase EXCEPT ![k] = "granted"]
  /\ UNCHANGED effects

\* The connector acts: the only effect the grant allows.
Perform(k) ==
  /\ phase[k] = "granted"
  /\ phase' = [phase EXCEPT ![k] = "performed"]
  /\ effects' = [effects EXCEPT ![k] = @ + 1]

\* A dry run spends a grant that was not performed.
Spend(k) ==
  /\ phase[k] \in {"granted", "performed"}
  /\ phase' = [phase EXCEPT ![k] = "spent"]
  /\ UNCHANGED effects

Next == \E k \in Key : Grant(k) \/ Perform(k) \/ Spend(k)

Spec == Init /\ [][Next]_vars
=============================================================================
