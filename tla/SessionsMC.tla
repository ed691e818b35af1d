----------------------------- MODULE SessionsMC -----------------------------
(* Small instances of ApiClient.                                           *)
EXTENDS ApiClient

CONSTANTS ann, bob, phone, tablet, q1, q2, q3

Ann == {ann}
AnnAndBob == {ann, bob}
Phone == {phone}
PhoneAndTablet == {phone, tablet}
TwoCalls == {q1, q2}
ThreeCalls == {q1, q2, q3}
AllOnPhone == [q \in Requests |-> phone]
=============================================================================
