------------------------- MODULE MCCampaignDialer -------------------------
(***************************************************************************)
(* Instances of CampaignDialer for TLC.  c1, c2, l1 to l3 and p1 to p3     *)
(* are model values; a configuration picks the sets and, among the functions   *)
(* below, which lead belongs to which campaign and phone.                  *)
(***************************************************************************)
EXTENDS CampaignDialer, TLC

CONSTANTS c1, c2, l1, l2, l3, p1, p2, p3

\* One campaign for every lead, or a campaign for each.
OneCampaign  == [l \in Leads |-> c1]
OwnCampaign  == [l \in Leads |-> IF l = l1 THEN c1 ELSE c2]

\* A phone for each lead, or the same person in both campaigns.
OwnPhone     == [l \in Leads |-> IF l = l1 THEN p1 ELSE IF l = l2 THEN p2 ELSE p3]
SharedPhone  == [l \in Leads |-> p1]

\* max_attempts and concurrency.
Once         == [c \in Campaigns |-> 1]
Twice        == [c \in Campaigns |-> 2]
OnceOrTwice  == [c \in Campaigns |-> IF c = c1 THEN 1 ELSE 2]

\* Nothing tells one call from another (for runs that check invariants only).
CallSymmetry == Permutations(Calls)
=============================================================================
