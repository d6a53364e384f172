------------------------------- MODULE SfxFile -------------------------------
(***************************************************************************)
(* src/one/Loaders/AudioLoader.cpp, LoadFile on one file.  A file is the   *)
(* count in its header and the records that follow; of a record LoadFile   *)
(* looks at position and channel.  A record the file ends in the middle of *)
(* counts if it is there up to its channel.                                *)
(***************************************************************************)
EXTENDS Integers, Sequences

ChannelOf == <<"Square1", "Square2", "Triangle", "Noise">>

\* Never assigned in the loop that compares positions with it.
lastPos == -1

Readable(f, i) ==
    /\ i \in DOMAIN f.records
    /\ f.records[i].position >= lastPos
    /\ f.records[i].channel \in DOMAIN ChannelOf

Valid(f) == f.size >= 0 /\ \A i \in 1..f.size : Readable(f, i)

Samples(f) ==
    [i \in 1..f.size |-> [position |-> f.records[i].position,
                          channel |-> ChannelOf[f.records[i].channel]]]
=============================================================================
