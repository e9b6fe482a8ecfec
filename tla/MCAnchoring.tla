----------------------------- MODULE MCAnchoring -----------------------------
(* Small instances of Anchoring. *)
EXTENDS Anchoring, TLC

CONSTANTS a1, w1, w2, scheduler

Symmetry == Permutations(Jobs)

(* Two requests that overlap, or one beside a fault: w2 serves nobody from *)
(* the first fault on.  Outages may come at any time.                      *)
MCNext == Next /\ (faults' = 0 \/ Idle(w2)')

MCSpec == Init /\ [][MCNext]_vars /\ Fairness
=============================================================================
