--------------------------- MODULE MCLiveUpdates ---------------------------
(***************************************************************************)
(* Two old rows, pages of one row; charts of two slots.                    *)
(***************************************************************************)
EXTENDS LiveUpdates

CONSTANTS n1, n2

MCNames == {n1, n2}
MCExisting == <<[name |-> n1, time |-> -2], [name |-> n2, time |-> -1]>>

MCRanges == {"1h", "7d"}
MCSlotLength == [r \in MCRanges |-> IF r = "1h" THEN 1 ELSE 2]
MCSlotCount == [r \in MCRanges |-> 2]
==============================================================================
