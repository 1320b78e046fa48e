------------------------ MODULE MCProfileActivation ------------------------
EXTENDS ProfileActivation

\* Of one profile: a hold layer, a one-shot toggle with a timeout, the
\* persistent toggle and the persistent disable.
Bindings == [
    hold |-> [type |-> "enable", profile |-> "nav", ends |-> {"trigger_end"}, after |-> 0],
    once |-> [type |-> "toggle", profile |-> "nav", ends |-> {"timeout"}, after |-> 1],
    flip |-> [type |-> "toggle", profile |-> "nav", ends |-> {}, after |-> 0],
    off |-> [type |-> "disable", profile |-> "nav", ends |-> {}, after |-> 0]]
=============================================================================
