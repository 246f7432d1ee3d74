-------------------------- MODULE MCWriteTransport --------------------------
(* Small instances of WriteTransport for TLC.                              *)
EXTENDS WriteTransport

\* Two pieces, so that a sendmsg may end inside either or between them.
TwoPieces == {<<1, 2>>, <<2>>}

\* A piece may be empty.
EmptyPiece == {<<0>>, <<1, 0>>}
=============================================================================
