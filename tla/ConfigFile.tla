------------------------------ MODULE ConfigFile ------------------------------
(***************************************************************************)
(* ConfigFile and StateSaver (src/src/lib/file/ConfigFile.cpp,             *)
(* StateSaver.h) over a file that File::save() replaces as a whole or not  *)
(* at all (FileSave.tla), by a program that may end and begin again.       *)
(***************************************************************************)
EXTENDS Serialize, TLC

CONSTANTS Option, Setting, MaxSteps  \* names and values, as sequences of letters; a bound on the calls

VARIABLES
    config,  \* _config
    file,    \* the contents, NoFile if there is none
    saved,   \* history: the settings of the last save
    steps

vars == <<config, file, saved, steps>>

NoFile == <<"none">>
NoSettings == [o \in {} |-> <<>>]

Init == config = NoSettings /\ file = NoFile /\ saved = NoSettings /\ steps = 0

set(o, v) == config' = (o :> v) @@ config /\ UNCHANGED <<file, saved>>

\* One line for each option, in the map's order.
Contents(c) == FlattenSeq([i \in DOMAIN SetToSeq(DOMAIN c) |->
    LET o == SetToSeq(DOMAIN c)[i] IN o \o <<"=">> \o c[o] \o <<"LF">>])

\* save() fails with the file as it was, or with the new one (File::save() could not flush the directory).
Save ==
    /\ \/ file' = Contents(config) /\ saved' = config
       \/ UNCHANGED <<file, saved>>
    /\ UNCHANGED config

\* std::getline(): what is after the last end of line is a line if it is anything.
Lines(text) == LET all == split(text, "LF", FALSE) IN
    IF all # <<>> /\ Last(all) = <<>> THEN Front(all) ELSE all

loadLine(c, line) == LET tokens == split(line, "=", FALSE) IN
    IF Len(tokens) < 2 THEN c ELSE (tokens[1] :> tokens[2]) @@ c

\* load() adds to the settings there are.
Load == file # NoFile /\ config' = FoldLeft(loadLine, config, Lines(file)) /\ UNCHANGED <<file, saved>>

Restart == config' = NoSettings /\ UNCHANGED <<file, saved>>

Next ==
    /\ steps < MaxSteps /\ steps' = steps + 1
    /\ \/ \E o \in Option, v \in Setting : set(o, v)
       \/ Save \/ Load \/ Restart

UpToEquals(v) == LET i == SelectInSeq(v, LAMBDA c : c = "=") IN IF i = 0 THEN v ELSE SubSeq(v, 1, i - 1)

\* What is saved is loaded again, each value up to the first '=' in it.
SettingsKept ==
    file # NoFile =>
        FoldLeft(loadLine, NoSettings, Lines(file)) = [o \in DOMAIN saved |-> UpToEquals(saved[o])]

=============================================================================
