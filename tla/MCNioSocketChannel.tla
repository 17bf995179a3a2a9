-------------------------- MODULE MCNioSocketChannel --------------------------
(***************************************************************************)
(* Small instances of NioSocketChannel.                                    *)
(***************************************************************************)
EXTENDS NioSocketChannel, TLC

(* The callers run the same code and no property tells them apart.         *)
CallerSymmetry == Permutations(Callers)
=============================================================================
