--------------------------- MODULE MCAudioStreams ---------------------------
(* An instance of AudioStreams: streams and notes that meet every branch of  *)
(* SetNote and onGetData.                                                    *)
EXTENDS AudioStreams

\* The square and the noise stream differ in every respect the model keeps.
MCKind == <<"square", "noise">>

Note(f, v, l, p) == [freq |-> f, volume |-> v, length |-> l, priority |-> p]

\* Every priority a script may pass, one below the enum included; lengths below,
\* at and above the callback that is always rendered; a rest.
MCNotes ==
    {Note(1, 1, 2, Low), Note(1, 1, 1, High), Note(0, 0, 0, Low - 1), Note(1, 1, -2, Medium)}
=============================================================================
