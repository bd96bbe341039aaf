---------------------------- MODULE MCMailVerify ----------------------------
(* The instances of MailVerify that TLC checks.                            *)
EXTENDS MailVerify, TLC

(* The workers are interchangeable.                                        *)
WorkerSymmetry == Permutations(Workers)

(* Once the service is started for the last time, every mailbox in the    *)
(* queue leaves it: what claims, deletions, aborted verifications, missed  *)
(* wake-ups and crashes left behind is taken up (Start, next and worker).  *)
LastStart == <>[](~stopping) /\ <>[][~Restart]_vars

DrainsAfterLastStart == LastStart => QueueDrains
=============================================================================
