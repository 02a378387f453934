----------------------------- MODULE MCDDManager -----------------------------
(* Small instances of DDManager. *)
EXTENDS DDManager, TLC

CONSTANTS h1, h2

TwoBdds == h1 :> "bdd" @@ h2 :> "bdd"
OneBdd == h1 :> "bdd"
OneQdd == h1 :> "qdd"
ZddAndUnreduced == h1 :> "zdd" @@ h2 :> "unreduced"
=============================================================================
