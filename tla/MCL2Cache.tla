----------------------------- MODULE MCL2Cache ------------------------------
(* Two beats to a line above one way; two sets above one way of one word.    *)
EXTENDS L2Cache

Geometry(cpus, sets, ways, words, port, lines, io, sticky, asks) ==
    [cpus |-> cpus, sets |-> sets, ways |-> ways, words |-> words, port |-> port, lines |-> lines,
     io |-> io, sticky |-> sticky, asks |-> asks]

MCShapes ==
    {Geometry(1, 1, 1, 2, 1, 2, FALSE, FALSE, 1),
     Geometry(1, 1, 1, 2, 2, 2, FALSE, TRUE, 1),
     Geometry(1, 2, 1, 1, 1, 3, FALSE, TRUE, 1),
     Geometry(1, 1, 1, 1, 1, 2, FALSE, TRUE, 2),
     Geometry(1, 1, 2, 1, 1, 3, FALSE, FALSE, 1),
     Geometry(2, 1, 1, 1, 1, 1, TRUE, TRUE, 2)}
=============================================================================
