--------------------------- MODULE MCTmuxControl ---------------------------
(* An instance of TmuxControl for TLC: constants are set in the            *)
(* configurations MCTmuxControl.cfg and MCTmuxLag.cfg.                     *)
EXTENDS TmuxControl
=============================================================================
