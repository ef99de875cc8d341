---------------------------- MODULE MCWorkSession ----------------------------
(* Instances of WorkSession: a note written three times over, a program, and a *)
(* call of no tool the registry knows, under permission modes as the code has  *)
(* them.  read_plan writes the note and asks about the program, so that a call *)
(* that runs comes before one that is asked about.                             *)
EXTENDS WorkSession, ModePermission

CONSTANTS program, wrong, note1, note2, note3

Notes == {note1, note2, note3}

AllModes == {"explore", "read_plan", "edit"}

ModePolicy ==
    [m \in Modes |-> [c \in Calls |->
        Evaluate(m, "write_file", IF c \in Notes THEN "text" ELSE "program")]]

Texts == [c \in Calls |-> IF c \in Notes THEN "note" ELSE c]

=============================================================================
