--------------------------- MODULE MCFanControl ---------------------------
(* Instances of FanControl for TLC: two sources. *)
EXTENDS FanControl

MCSource ==
    << [t_start |-> 2, t_full |-> 4, t_crit |-> 5, weight |-> 100, ttl |-> 1, poll |-> 1],
       [t_start |-> 2, t_full |-> 4, t_crit |-> 5, weight |-> 120, ttl |-> 1, poll |-> 1] >>
=============================================================================
