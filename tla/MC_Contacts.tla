---------------------------- MODULE MC_Contacts ----------------------------
(* Contacts on a small instance: a preteen with a parent, a teen and an adult. *)
EXTENDS Contacts, TLC

CONSTANTS Kid, Teen, Adult, Parent

MCTier == [u \in User |-> CASE u = Kid -> "preteen" [] u = Teen -> "teen"
                            [] OTHER -> "none"]
MCParentOf == [u \in User |-> IF u = Kid THEN Parent ELSE NoUser]
MCLimit == [t \in Tiers |-> 1]

RowSymmetry == Permutations(ContactId)
RowAndWorkerSymmetry == Permutations(ContactId) \cup Permutations(Worker)
=============================================================================
