--------------------------- MODULE MCLoadBalancer ---------------------------
(* Instances of LoadBalancer for TLC. *)
EXTENDS LoadBalancer

MCRules ==
    {[policyName |-> "ROUND_ROBIN", hashKey |-> ""],
     [policyName |-> "RANDOM", hashKey |-> ""],
     [policyName |-> "CONSISTENT_HASH", hashKey |-> "HTTP_HEADER"],
     [policyName |-> "CONSISTENT_HASH", hashKey |-> "USER_SOURCE_IP"],
     [policyName |-> "", hashKey |-> ""]}

=============================================================================
