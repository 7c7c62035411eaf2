------------------------------ MODULE SysVSem ------------------------------
(***************************************************************************)
(* System V semaphores as server-rev1.c and client-rev1.c use them: sem_ini *)
(* (SETVAL), waits and signals (semop of -1 and +1, both with SEM_UNDO),    *)
(* and what the kernel undoes when a process ends.                          *)
(***************************************************************************)
EXTENDS Integers

CONSTANTS Sem,   \* the semaphores
          Proc   \* the processes that operate on them

VARIABLES semval,  \* semval[s]: the value of s
          semadj   \* semadj[p][s]: what the end of p adds to s

(* The result of semctl(s, 0, SETVAL, v): the kernel also forgets what any  *)
(* process would have undone on s.                                          *)
SetVal(s, v) ==
  /\ semval' = [semval EXCEPT ![s] = v]
  /\ semadj' = [p \in Proc |-> [semadj[p] EXCEPT ![s] = 0]]

Waits(p, s) ==
  /\ semval[s] > 0
  /\ semval' = [semval EXCEPT ![s] = @ - 1]
  /\ semadj' = [semadj EXCEPT ![p][s] = @ + 1]

Signals(p, s) ==
  /\ semval' = [semval EXCEPT ![s] = @ + 1]
  /\ semadj' = [semadj EXCEPT ![p][s] = @ - 1]

UndoForgotten(p) == UNCHANGED <<semval, semadj>>

(* The end of p; a value never becomes negative by it.                      *)
Undo(p) ==
  /\ semval' = [s \in Sem |-> IF semval[s] + semadj[p][s] > 0
                                THEN semval[s] + semadj[p][s] ELSE 0]
  /\ semadj' = [semadj EXCEPT ![p] = [s \in Sem |-> 0]]
=============================================================================
