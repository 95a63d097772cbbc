------------------------- MODULE MCClipboardHistory -------------------------
(* A task of the application and a run of the command line tool record; the  *)
(* interface and another task of the tool give commands.                     *)
EXTENDS ClipboardHistory, TLC

CONSTANTS app, tool, events, push, page, shell

MCProcessOf == [w \in {events, push, page, shell} |->
                    IF w \in {push, shell} THEN tool ELSE app]
MCSymmetry == Permutations(Images)
=============================================================================
