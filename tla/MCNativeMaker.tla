---------------------------- MODULE MCNativeMaker ----------------------------
(* A market for NativeMaker: two books a tick apart and a crossed one; five  *)
(* units of position move the quotes by one.                                 *)
EXTENDS NativeMaker

MCTicks == {<<10, 14>>, <<11, 15>>, <<14, 10>>}
MCDepthTargets == {<<9, 13>>}
==============================================================================
