---------------------------- MODULE MCDeviceSlots ----------------------------
(* Two workers, two slots, one or two backends; the workers submit without a *)
(* bound and ids are reused when nothing refers to them any more.            *)
EXTENDS DeviceSlots, TLC

CONSTANTS w1, w2, s1, s2, p1, p2, i1, i2, i3

MCWorkers == {w1, w2}
MCSlots == {s1, s2}
MCOneSlot == {s1}
MCPhases == {p1, p2}
MCOnePhase == {p1}
MCIds == {i1, i2, i3}
MCTwoIds == {i1, i2}
Symmetry == Permutations(MCWorkers) \cup Permutations(MCSlots)
            \cup Permutations(MCPhases) \cup Permutations(MCIds)
=============================================================================
