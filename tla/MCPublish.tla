------------------------------ MODULE MCPublish ------------------------------
(* Two status pages, or one where only the monitor's side is asked about.  *)
EXTENDS EnvPublish, TLC

CONSTANTS r1, r2

TwoReaders == {r1, r2}
OneReader == {r1}
ReaderSymmetry == Permutations(TwoReaders)
Anywhere == RefreshSteps
InTheLoop == RefreshSteps \ SetupSteps
AfterCreation == RefreshSteps \ {"setval"}
=============================================================================
