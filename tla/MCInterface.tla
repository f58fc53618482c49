---------------------------- MODULE MCInterface ----------------------------
(***************************************************************************)
(* An instance of Interface for TLC: simulations of three and of two       *)
(* cycles, one of which changes the cache in its second and memory in its third.   *)
(***************************************************************************)
EXTENDS Interface

MCDefault == [single_state_mode |-> FALSE, ls_cache_set_entries_count |-> 1]

MCConfigs ==
  {MCDefault, [single_state_mode |-> TRUE, ls_cache_set_entries_count |-> 2]}

MCComponents == {"Memory", "LS_Cache"}

MCRecordings ==
  {[last |-> 3, memory |-> {1, 3},
    changes |-> [n \in MCComponents |-> IF n = "Memory" THEN {3} ELSE {2}]],
   [last |-> 2, memory |-> {1},
    changes |-> [n \in MCComponents |-> {}]]}
=============================================================================
