----------------------------- MODULE MCHexLoad ------------------------------
EXTENDS HexLoad

\* network.conf at 0x20000000, then a kernel that crosses a 64 KiB boundary.
MCPayloads == << [ bytes |-> << 7 >>, base |-> 536870912 ],
                 [ bytes |-> << 1, 2, 3, 4, 5 >>, base |-> 131068 ] >>

\* The flasher 3 runs under 2 and 1, which also name it on their command
\* line; 4 was left behind by an earlier flash, 5 belongs to another user.
MCParent == << 0, 1, 2, 0, 0 >>
MCProcs0 == << "flasher", "other", "flasher", "flasher", "flasher" >>

\* The presuppositions of the promise hold here, but for the residual sum 5,
\* with which a refusal of some record reads like its acceptance.
ASSUME SoundHere == Sound <=> 5 \notin Residuals
=============================================================================
