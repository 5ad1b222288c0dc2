----------------------------- MODULE MCStrelaApp -----------------------------
(* One accelerator line and, where a run asks for them, two lines of other  *)
(* devices.                                                                 *)
EXTENDS StrelaApp
NoOthers  == {}
TwoOthers == {"dma", "gpio"}
MCLines   == {"strela", "dma", "gpio"}
BothModes == {"poll", "intr"}
=============================================================================
