---------------------------- MODULE MCLiveStore ----------------------------
(* One policy per storage and activation, with budgets smaller and larger
   than the forward buffer. *)
EXTENDS LiveStore

MCPolicies ==
  { [storage |-> "off", activation |-> "always", units |-> 0, time |-> 0],
    [storage |-> "memory", activation |-> "always", units |-> 5, time |-> 6],
    [storage |-> "filesystem", activation |-> "always", units |-> 8, time |-> 6],
    [storage |-> "filesystem", activation |-> "on_pause", units |-> 5, time |-> 4],
    [storage |-> "memory", activation |-> "on_pause", units |-> 5, time |-> 6] }
============================================================================
