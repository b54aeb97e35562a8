---------------------------- MODULE MCInstaller ----------------------------
(***************************************************************************)
(* Instances of Installer small enough for TLC.                            *)
(***************************************************************************)
EXTENDS Installer, Naturals, Sequences, TLC

\* One path in every release, changed by the second; one that the second does
\* not ship and the third ships with other content.
MCPaths == {"kept", "moved"}
MCReleases == 1..3
MCPayload ==
  <<[kept |-> "k1", moved |-> "m1"],
    [kept |-> "k2", moved |-> Absent],
    [kept |-> "k2", moved |-> "m3"]>>
TwoReleases == 1..2
TwoPayloads == SubSeq(MCPayload, 1, 2)
=============================================================================
