---------------------------- MODULE MCServiceSync ----------------------------
EXTENDS ServiceSync

Spec1(config, affinity, ttl) ==
    [ports |-> Ports, config |-> config, affinity |-> affinity, ttl |-> ttl, skip |-> FALSE]

(* Two configurations, of different session affinity.                      *)
MCServiceSpecs == {Spec1("a", "None", 0), Spec1("b", "ClientIP", 1)}

=============================================================================
