------------------------------ MODULE MCPackets ------------------------------
EXTENDS PacketAssembly

\* Candidates of every category, some found twice, and experiences.

C(id, kind, from, to, priority, structural, score) ==
    [id |-> id, kind |-> kind, from |-> from, to |-> to, priority |-> priority,
     structural |-> structural, score |-> score]
MCCandidates ==
    {C(1, "state", 1, 2, 0, FALSE, 3), C(2, "state", 1, 3, 1, FALSE, 1),
     C(3, "code", 1, 3, 2, FALSE, 2), C(3, "code", 1, 3, 3, TRUE, 2),
     C(4, "code", 2, 3, 3, TRUE, 3), C(4, "code", 2, 3, 2, TRUE, 3),
     C(5, "event", 1, 1, 3, FALSE, 1), C(6, "event", 1, 2, 3, FALSE, 2),
     C(6, "event", 1, 2, 2, FALSE, 2), C(7, "memory", 1, 3, 3, FALSE, 3),
     C(8, "memory", 1, 4, 2, FALSE, 3), C(9, "code", 3, 6, 3, FALSE, 5)}
MCHistories ==
    {[id |-> 1, tokens |-> 2, members |-> {5}], [id |-> 2, tokens |-> 1, members |-> {5, 6}],
     [id |-> 3, tokens |-> 2, members |-> {6}]}
MCShare == [code |-> 50, structural |-> 20, memory |-> 15, event |-> 10, state |-> 5]
=============================================================================
