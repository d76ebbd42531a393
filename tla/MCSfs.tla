------------------------------- MODULE MCSfs -------------------------------
(* Sfs for TLC.                                                            *)
EXTENDS Sfs, TLC

FilesAndFds == Permutations(File) \cup Permutations(Fd)

=============================================================================
