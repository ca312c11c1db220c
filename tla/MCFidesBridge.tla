--------------------------- MODULE MCFidesBridge ---------------------------
(***************************************************************************)
(* Three relayers, each of whom may approve rivals, and five updates: two  *)
(* rivals for the first number, one of which repeats the registry's root,  *)
(* two for the second, one of which was sent much earlier, and one for the *)
(* third, so that a ring of two roots wraps around.                        *)
(***************************************************************************)
EXTENDS FidesBridgeReceiver, TLC

CONSTANTS r1, r2, r3, chain, rootA, rootB

MCAccount == {r1, r2, r3}
MCSender == {chain}
MCRoot == {rootA, rootB, ZeroRoot}
Sent(root, timestamp, nonce) ==
  [sender |-> chain, root |-> root, timestamp |-> timestamp, nonce |-> nonce]

MCUpdate ==
  {Sent(rootA, 2, 1), Sent(rootB, 2, 1), Sent(rootA, 1, 2), Sent(rootA, 4, 2), Sent(rootB, 5, 3)}

Relabelling == Permutations(MCAccount \ {r1})
=============================================================================
