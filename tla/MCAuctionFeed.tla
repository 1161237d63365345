---------------------------- MODULE MCAuctionFeed ----------------------------
(***************************************************************************)
(* TLC instances of AuctionFeed.                                           *)
(***************************************************************************)
EXTENDS AuctionFeed

CONSTANTS p1, p2

=============================================================================
