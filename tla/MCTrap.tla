------------------------------- MODULE MCTrap -------------------------------
(***************************************************************************)
(* Two register files in which every register has a value of its own, so   *)
(* that a value that ends up in the wrong register shows.                  *)
(***************************************************************************)
EXTENDS Trap

Number == [ra |-> 1, sp |-> 2, gp |-> 3, fp |-> 4, s |-> 5,
           a0 |-> 6, a1 |-> 7, t |-> 8, t5 |-> 9, t6 |-> 10]

MCFiles == { [r \in Reg |-> Number[r]], [r \in Reg |-> 10 + Number[r]] }
MCVal == 0 .. 27
=============================================================================
