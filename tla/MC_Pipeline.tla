---------------------------- MODULE MC_Pipeline -----------------------------
(* Two layouts of a pipeline: a sequential, a parallel (two workers) and a *)
(* sequential stage; and a parallel stage followed by a sequential one.    *)
EXTENDS Pipeline

(* workers 0 | 1 2 | 3 *)
SPS_StageOf == [w \in 0 .. 3 |-> <<0, 1, 1, 2>>[w + 1]]
SPS_FirstWid == [s \in 0 .. 2 |-> <<0, 1, 3>>[s + 1]]
SPS_Rep == [s \in 0 .. 2 |-> <<1, 2, 1>>[s + 1]]

(* workers 0 1 | 2 *)
PS_StageOf == [w \in 0 .. 2 |-> <<0, 0, 1>>[w + 1]]
PS_FirstWid == [s \in 0 .. 1 |-> <<0, 2>>[s + 1]]
PS_Rep == [s \in 0 .. 1 |-> <<2, 1>>[s + 1]]
=============================================================================
