---------------------------- MODULE MCSpdkBlocks ----------------------------
(* Instances of SpdkBlocks: two postings whose items tell their key.        *)
EXTENDS SpdkBlocks

MCKeys == 0..1
MCItems == {10, 11, 20, 21}

(* Puts of no block, of two and of a partly filled one; Merge then meets an *)
(* empty, a full and a partly filled last block, and the limit of a posting *)
MCPutValues == [k \in MCKeys |->
    IF k = 0 THEN {<<>>, <<10, 11, 10>>} ELSE {<<20>>}]
MCMergeValues == [k \in MCKeys |->
    IF k = 0 THEN {<<11>>, <<11, 10>>} ELSE {<<21>>}]

MCTwoCalls == [k \in MCKeys |-> 2]
=============================================================================
