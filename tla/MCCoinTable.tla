----------------------------- MODULE MCCoinTable -----------------------------
(* TLC instance of CoinTable: a table of two entries among three addresses.  *)
EXTENDS CoinTable
=============================================================================
