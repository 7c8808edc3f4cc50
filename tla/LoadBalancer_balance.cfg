SPECIFICATION FairSpec
CONSTANTS
    Names = {n1}
    Ports = {p1}
    Endpoints = {e1, e2}
    Clients = {c1, c2}
    Rules <- MCRules
    Ttls = {1}
    DefaultTtl = 2
    Nil = Nil
INVARIANTS
    EndpointsNeverStale
      RingMatchesEndpoints
    AnswerLive
    OrphansOverlooked
PROPERTIES
    EndpointsConverge
    PolicyConverges
