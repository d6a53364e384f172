------------------------------- MODULE SaveFile -------------------------------
(***************************************************************************)
(* src/one/SQConnect/SQSaveFile.cpp and src/one/Core/BinaryFile.h: the     *)
(* SaveFile object of the scripts, an sf::Packet, with the calls the       *)
(* scripts of the repository make.  An integer is two bytes of ByteBase    *)
(* values instead of four of 256.                                          *)
(***************************************************************************)
EXTENDS Naturals, Sequences

CONSTANT ByteBase

ASSUME ByteBaseAssumption == ByteBase \in Nat \ {0, 1}

Numbers == 0..(ByteBase * ByteBase - 1)
IntSize == 2

\* Mutant: the bytes are written in the order of the machine, and read in that
\* of the network.
BytesSwapped(n) == <<n % ByteBase, n \div ByteBase>>

Bytes(n) == <<n \div ByteBase, n % ByteBase>>

\* sf::Packet: what was appended, how far it is read, whether all reads went well.
Packet == [data |-> <<>>, readPos |-> 0, valid |-> TRUE]

WriteInt(p, n) == [p EXCEPT !.data = @ \o Bytes(n)]

\* Load appends the file to what the packet holds already.
Load(p, bytes) == [p EXCEPT !.data = @ \o bytes]

CheckSize(p) == p.valid /\ p.readPos + IntSize <= Len(p.data)

\* A read past the end leaves the variable as it was, and SQFileReadInt does not
\* initialise it: the script gets what the memory held.
ReadInt(p, memory) ==
    IF CheckSize(p) THEN p.data[p.readPos + 1] * ByteBase + p.data[p.readPos + 2]
                    ELSE memory
=============================================================================
