--------------------------- MODULE MCGrabbedDevice ---------------------------
(***************************************************************************)
(* Small instances of GrabbedDevice for TLC: two source keys, one or two   *)
(* keyboard targets.                                                       *)
(***************************************************************************)
EXTENDS GrabbedDevice

\* A mapping that sends every key to the same action.
Uniform(action) == [k \in Keys |-> action]

\* Every non-empty mapping that gives at most one key an action of its own,
\* and those in which both keys share a target.
SessionMappings ==
    {m \in [Keys -> Action] : Cardinality({k \in Keys : m[k] # NoAction}) = 1}
        \cup {Uniform(Keyboard(t)) : t \in Targets}

\* Nothing is mapped, all keys share one target, or all but one pass through.
SharedMappings ==
    LET mapped == CHOOSE k \in Keys : TRUE
    IN  {EmptyMapping} \cup {Uniform(Keyboard(t)) : t \in Targets}
          \cup {[Uniform(Passthrough) EXCEPT ![mapped] = Keyboard(t)] : t \in Targets}

\* The empty mapping, and both keys to one target.
RoutedMappings == {EmptyMapping} \cup {Uniform(Keyboard(t)) : t \in Targets}
=============================================================================
