---------------------------- MODULE MCCsvControl ----------------------------
(***************************************************************************)
(* Two motors, a step counter that is due after two cycles and stops at    *)
(* three, and two upsets: a frame lost in the middle of a fault, a slave   *)
(* dropping out while another one is being enabled, and so on.             *)
(***************************************************************************)
EXTENDS CsvControl

MCCruiseSpeed == -2000
=============================================================================
