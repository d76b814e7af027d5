------------------------------- MODULE MCLire -------------------------------
(* Small instances of Lire: two to five vectors, some of which the index is *)
(* built with; the postings they are in; one client and two workers.        *)
EXTENDS Lire, TLC
CONSTANTS v1, v2, v3, v4, v5, c1, w1, w2

MCFiveVids      == {v1, v2, v3, v4, v5}
MCThreeVids     == {v1, v2, v3}
MCTwoVids       == {v1, v2}
MCOneVid        == {v1}
MCNoVid         == {}
MCClients       == {c1}
MCWorkers       == {w1, w2}
MCSymmetry      == Permutations(MCWorkers)
MCSymmetryVids  == Permutations(MCWorkers) \cup Permutations({v3, v4, v5})

MCOnePosting    == << <<v1, v2>> >>
MCTwoPostings   == << <<v1>>, <<v2>> >>
MCThreePostings == << <<v1>>, <<v2>>, <<v1>> >>
MCReplicas      == << <<v1, v2>>, <<v2>> >>
MCTwice         == << <<v1>>, <<v1>> >>
MCUneven        == << <<v1>>, <<v1, v2>> >>

MCNoMerge  == -1
MCMergeOne == 1
=============================================================================
