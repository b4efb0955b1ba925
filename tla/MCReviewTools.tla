--------------------------- MODULE MCReviewTools ----------------------------
(***************************************************************************)
(* Two assets: one with two patterns, and one with a pattern of these; all *)
(* of them are recorded.                                                   *)
(***************************************************************************)
EXTENDS ReviewTools

MCRetrieved == [lock |-> <<"p1", "p2">>, cloud |-> <<"p1">>]
MCRecorded == {<<"lock", "p1">>, <<"lock", "p2">>, <<"cloud", "p1">>}
MCExpertise == {<<"cloud", "p1">>}
=============================================================================
