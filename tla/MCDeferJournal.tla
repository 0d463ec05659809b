--------------------------- MODULE MCDeferJournal ---------------------------
(* TLC instances of DeferJournal.                                          *)
EXTENDS DeferJournal
CONSTANTS NumUnits

MCUnits == 1..NumUnits
(* Unit 1 has a health check, the others have none.                        *)
MCHealthChecked == {1}
=============================================================================
