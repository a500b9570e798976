----------------------------- MODULE MCAtl1eRegs -----------------------------
(* Words for the runs: every word of the layout but TWSI_CTRL, whose two  *)
(* frequency fields share bit 24, and TWSI_CTRL alone.                    *)
EXTENDS Atl1eRegs

MCRegs == DOMAIN Layout \ {"TWSI_CTRL"}
MCRegsTwsi == {"TWSI_CTRL"}
====
