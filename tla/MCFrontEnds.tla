------------------------------ MODULE MCFrontEnds ------------------------------
(***************************************************************************)
(* TLC instance of the programs built on the library: each behaviour is    *)
(* the run of one of them, or one value of a conversion between texts, and *)
(* the others stand still.                                                 *)
(***************************************************************************)
EXTENDS StdinSplit, LinearExtract, MlarCommands, KeyFiles, TextForms, CBinding,
        PythonBinding

CONSTANTS A, B, N1, N2, N3, Bad, S1, P1, P2

\* "aab" is a separator whose prefixes overlap, and <<>> the empty one.
MCSeparators == {<<A, A, B>>, <<A, B, A, B>>, <<B>>, <<>>}
MCNameLists == {<<N1, N2, N3>>, <<N1>>, <<Bad>>, <<N1, N1>>, <<N1, Bad>>}
MCNamesInOrder == <<N1, N2, N3>>

\* NUL, '%', '.', '/', '2', 'a', a byte beyond ASCII, "AUX", '\' and 'f'.
MCWords ==
  {<<0>>, <<37>>, <<46>>, <<47>>, <<50>>, <<97>>, <<255>>, <<65, 85, 88>>, <<92>>, <<102>>}

vars == <<split, extract, cmd, keys, text, c, py>>

StdinStill == split = StdinIdle
ExtractStill == extract = ExtractIdle
CommandStill == cmd = CommandIdle
KeysStill == keys = KeysIdle
TextStill == text = <<>>
CStill == c = CIdle
PyStill == py = PyIdle

Init ==
  \/ StdinInit /\ ExtractStill /\ CommandStill /\ KeysStill /\ TextStill /\ CStill /\ PyStill
  \/ StdinStill /\ ExtractInit /\ CommandStill /\ KeysStill /\ TextStill /\ CStill /\ PyStill
  \/ StdinStill /\ ExtractStill /\ CommandInit /\ KeysStill /\ TextStill /\ CStill /\ PyStill
  \/ StdinStill /\ ExtractStill /\ CommandStill /\ KeysInit /\ TextStill /\ CStill /\ PyStill
  \/ StdinStill /\ ExtractStill /\ CommandStill /\ KeysStill /\ TextInit /\ CStill /\ PyStill
  \/ StdinStill /\ ExtractStill /\ CommandStill /\ KeysStill /\ TextStill /\ CInit /\ PyStill
  \/ StdinStill /\ ExtractStill /\ CommandStill /\ KeysStill /\ TextStill /\ CStill /\ PyInit

Next ==
  \/ StdinNext /\ UNCHANGED <<extract, cmd, keys, text, c, py>>
  \/ ExtractNext /\ UNCHANGED <<split, cmd, keys, text, c, py>>
  \/ CommandNext /\ UNCHANGED <<split, extract, keys, text, c, py>>
  \/ KeysNext /\ UNCHANGED <<split, extract, cmd, text, c, py>>
  \/ CNext /\ UNCHANGED <<split, extract, cmd, keys, text, py>>
  \/ PyNext /\ UNCHANGED <<split, extract, cmd, keys, text, c>>

Spec == Init /\ [][Next]_vars
===============================================================================
