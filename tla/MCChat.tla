-------------------------------- MODULE MCChat --------------------------------
(***************************************************************************)
(* EventChat, RateLimiter and Pragyaan for TLC: two requests in flight,    *)
(* each mix the handlers of one of the modules.                            *)
(***************************************************************************)
EXTENDS EventChat, RateLimiter, Pragyaan

CONSTANTS ann, ben, home, faq

Authors == 1 :> ben @@ 2 :> ann

SomeMixes ==
    {{"open", "channels"}, {"send", "change"}, {"send", "react"}, {"send", "second", "connect", "restart"},
     {"send", "second", "reply"}, {"send", "second", "moderate"}, {"store", "restart"}, {"rate"},
     {home, faq, "sweep"}, {home, "ingest", "crash"}, {home, "sweep", "approve", "reject"},
     {home, "sweep", "retire"}, {"upload", "approve"}, {"upload", "reindex"}, {home, "sweep", "retention", "ask"}}

Symmetry == Permutations(Workers)

Init == RequestsInit /\ ChatInit /\ LimiterInit /\ PragyaanInit

Next ==
    \/ ChatNext /\ UNCHANGED <<limiter, knowledge, stirred>>
    \/ "rate" \in mix /\ LimiterNext /\ UNCHANGED <<chatVars, knowledge, stirred>>
    \/ KnowledgeNext /\ UNCHANGED <<chat, limiter>>

Spec == Init /\ [][Next]_<<chatVars, limiter, knowledge, stirred>>
=============================================================================
