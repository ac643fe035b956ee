---------------------------- MODULE MCImageAnalysis ----------------------------
(* The inputs for TLC: small, with the boundaries on both sides.             *)
EXTENDS ImageAnalysis

MCSizes == 1 .. 60
MCGreys == {0, 1}

\* Lengths and boxes about 16 and 64 bytes, brands in the major, the minor version's
\* and the compatible places, below and above the sniffer's 64 bytes.
MCFiles ==
    [magic : {"none", "jpeg"}, named : BOOLEAN, len : {0, 3, 20, 80, 81}, box : {0}, brands : {{}}]
    \cup [magic : {"ftyp"}, named : BOOLEAN, len : {12, 15, 16, 20, 64, 67, 68, 80, 81},
          box : {16, 20, 24, 64, 68, 80}, brands : SUBSET {2, 3, 4, 15, 16}]

\* Small faces across the middle and tall ones in the corners of a frame of 20.
MCFaces ==
    {[x |-> x, y |-> y, width |-> 3, height |-> h] :
        x \in {0, 8, 9, 16}, y \in {0, 8, 16}, h \in {2, 3, 4}}

=============================================================================
