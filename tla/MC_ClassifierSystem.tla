----------------------- MODULE MC_ClassifierSystem -----------------------
(* Model-checking instance of ClassifierSystem. *)
EXTENDS ClassifierSystem, TLC

CONSTANTS a1, a2

\* A TCP packet from port 1000 to port 80.
MC_Header == [protocol |-> 6, source_port |-> 1000, dest_port |-> 80]

Filter(proto, sl, sh, dl, dh) ==
    [protocol |-> proto, source_port_low |-> sl, source_port_high |-> sh,
     dest_port_low |-> dl, dest_port_high |-> dh]

\* Any protocol, any source port, destination port 80: matches MC_Header.
ToPort80 == Filter(0, 0, 0, 80, 80)

\* TCP to ports 81-90: the destination port is outside the range.
ToPorts81To90 == Filter(6, 0, 0, 81, 90)

\* TCP from ports 1000-2000, any destination port: matches MC_Header.
FromPorts1000To2000 == Filter(6, 1000, 2000, 0, 0)

\* A matching rule and a higher-priority one that does not match, so that a
\* modification can turn a matching rule into one that does not match.
MC_Inputs ==
    {[priority |-> 1, enabled |-> TRUE, filter |-> ToPort80, actions |-> a1],
     [priority |-> 2, enabled |-> TRUE, filter |-> ToPorts81To90, actions |-> a2]}

\* Two matching rules of different priorities and actions.
MC_MatchingInputs ==
    {[priority |-> 1, enabled |-> TRUE, filter |-> ToPort80, actions |-> a1],
     [priority |-> 2, enabled |-> TRUE, filter |-> FromPorts1000To2000, actions |-> a2]}

MC_Priorities == {1, 2}

ThreadSymmetry == Permutations(Threads)

=============================================================================
