---------------------------- MODULE Propagation ----------------------------
(***************************************************************************)
(* What a configuration service and the loop behind it promise together,   *)
(* whatever either does meanwhile: the services work on one whole          *)
(* configuration, the wanted one, or are being changed over to it.  They   *)
(* never settle on a mixture or on an earlier configuration, and the wanted*)
(* one never changes under services that stay settled on another.          *)
(***************************************************************************)
VARIABLES
  wanted,  \* the configuration that is asked for
  active,  \* the configuration the services are given
  phase    \* whether they are settled on it

Init == phase = "changing"

\* Somebody asks for a configuration, the same or another one: settled services
\* begin to change over at this very step, others go on with that.
Ask ==
  /\ phase # "stopped"
  /\ phase' = "changing"

\* The change is complete.
Settle ==
  /\ phase = "changing"
  /\ phase' = "settled"
  /\ active' = wanted
  /\ UNCHANGED wanted

Stop ==
  /\ phase' = "stopped"
  /\ UNCHANGED wanted

Next == Ask \/ Settle \/ Stop

Spec == Init /\ [][Next]_<<wanted, active, phase>>

============================================================================
