------------------------------ MODULE MCBackups ------------------------------
EXTENDS Backups

\* Beside a push that timed out or was sent twice the run ends where the disk is full.
OneLessBesideAPush ==
    built = MaxPackages => doubled = {} /\ \A o \in Ops : reply[o] = "prompt"
=============================================================================
