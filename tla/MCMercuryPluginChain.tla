------------------------ MODULE MCMercuryPluginChain ------------------------
(***************************************************************************)
(* A small instance of the plugin chain for TLC: one pixel, hit or not in  *)
(* each of two frames that make one period of the histograms.  No plugin   *)
(* of this chain looks at where a pixel is.                                *)
(***************************************************************************)
EXTENDS MercuryPluginChain

MCPixels == {1}
=============================================================================
