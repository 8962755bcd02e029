---------------------------- MODULE MC_Rst8Entry ----------------------------
(* Breakpoints and break-ins in the program, and at one place of the stub or *)
(* of the system at a time.                                                  *)
EXTENDS Rst8Entry

InProgram == {"program"}
AlsoInISR == {"program", "orig_rst38"}
AtDI      == {"program", "di"}
AtLoadSP  == {"program", "ld_sp"}
InEpilogueToo == {"program", "isr_epilogue"}
=============================================================================
