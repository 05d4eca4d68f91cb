--------------------------- MODULE MC_Moderation ---------------------------
(* The moderation queue on a few pieces of content. *)
EXTENDS Moderation, TLC

CONSTANTS KidPost, TeenMessage

MCKind == [c \in Content |-> IF c = TeenMessage THEN "message" ELSE "post"]
MCTier == [c \in Content |-> IF c = TeenMessage THEN "teen" ELSE "preteen"]

Symmetry == Permutations(EntryId) \cup Permutations(AppealId)
              \cup Permutations(AssignmentId) \cup Permutations(Worker)
=============================================================================
