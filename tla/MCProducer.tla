----------------------------- MODULE MCProducer -----------------------------
(* The instances of Producer that TLC checks.                              *)
EXTENDS Producer, TLC

(* The slots of the semaphore are interchangeable.                         *)
SlotSymmetry == Permutations(Slots)
=============================================================================
