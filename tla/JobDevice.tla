------------------------------ MODULE JobDevice ------------------------------
(***************************************************************************)
(* What a program sees of its virtual devices: a device takes one job at a *)
(* time, the job ends after a while, and only then may a flag say that the *)
(* result is final.  The flag goes with the next job and changes at no     *)
(* other moment.                                                           *)
(***************************************************************************)
CONSTANT Dev

VARIABLES
  busy,   (* the devices with a job            *)
  final   (* the devices whose result is final *)

vars == <<busy, final>>

Init ==
  /\ busy = {}
  /\ final = Dev

Submit(d) ==
  /\ d \notin busy
  /\ busy' = busy \cup {d}
  /\ final' = final \ {d}

Complete(d) ==
  /\ d \in busy
  /\ busy' = busy \ {d}
  /\ final' \in {final, final \cup {d}}

Next == \E d \in Dev : Submit(d) \/ Complete(d)

Spec == Init /\ [][Next]_vars

FairSpec == Spec /\ \A d \in Dev : WF_vars(Complete(d))
=============================================================================
