--------------------------- MODULE MCAccountPool ---------------------------
(* Instances of AccountPool for TLC.                                        *)
EXTENDS AccountPool, TLC

\* A record as Save writes it for a freshly imported account.
Fresh == [tok |-> 1, rt |-> 0, exp |-> 0, credits |-> 0, disabled |-> FALSE,
          until |-> 0, err |-> "none", auth |-> "valid"]

\* One whose access token has run out and has nothing to renew it with.
RanOut == [Fresh EXCEPT !.exp = 1]

FreshOnly == {Fresh}
FreshOrRanOut == {Fresh, RanOut}

RateLimit == [cooldown |-> 1, err |-> "other"]
Failures == {RateLimit}

Renewals == {[tok |-> 2, rt |-> 2, exp |-> 0]}

SameTokens == {[tok |-> 1, rt |-> 0, exp |-> 0]}

SlotCalls == {"MarkError", "SetDisabled", "Delete", "Save", "Restart"}
RotationCalls == {"SetDisabled", "UpdateCredits", "UpdateTokens", "Probe"}
DeleteCalls == {"Delete", "Save"}
UpdateCalls == {"SetDisabled", "UpdateTokens", "MarkError", "UpdateCredits"}

\* Leases, and callers, differ in nothing but their names.
Alike == Permutations(Leases) \union Permutations(Callers)
=============================================================================
