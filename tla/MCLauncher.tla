------------------------------ MODULE MCLauncher ------------------------------
(* The launcher for TLC.  A behaviour works either with the runtime and the
   preferences or with the profiles, whose steps do not read one another. *)
EXTENDS Launcher

CONSTANTS n1, n2

VARIABLE focus

MCInit == Init /\ focus \in {"runtime", "profiles"}

MCNext ==
  /\ UNCHANGED focus
  /\ Next
  /\ focus = "runtime" => UNCHANGED profileVars
  /\ focus = "profiles" => gui = "idle" /\ gui' = "idle" /\ UNCHANGED preferenceVars

MCSpec == MCInit /\ [][MCNext]_<<vars, focus>> /\ ProcessFairness
================================================================================
