----------------------------- MODULE MCSvmIntr -----------------------------
(* Small instances of SvmIntr. *)
EXTENDS SvmIntr

\* The words a BIOS and an operating system write: cascaded, ICW4 follows.
MCIcw1Words == {[sngl |-> 0, ic4 |-> 1]}
MCMasks == {{}, {0}}
\* #GP without an error code, #PF with one.
MCExceptions == {[num |-> 13, valid |-> FALSE], [num |-> 14, valid |-> TRUE]}
=============================================================================
