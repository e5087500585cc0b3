---------------------------- MODULE AdmissionPool ----------------------------
(***************************************************************************)
(* What the worker pool promises: requests that find no free slot wait in  *)
(* order of arrival, and whatever frees a slot gives it to the longest     *)
(* waiting request in the same step.  A request that finds a slot free     *)
(* takes it without reserving it first, so that held may exceed Slots.     *)
(*                                                                         *)
(* held counts the slots in use or promised; admitted are the requests a   *)
(* slot is promised to.                                                    *)
(***************************************************************************)
EXTENDS Naturals, SequencesExt

CONSTANTS Session, Slots

VARIABLES waiting, held, admitted

poolVars == <<waiting, held, admitted>>

Free(h) == IF h < Slots THEN Slots - h ELSE 0

(* How many requests of w can be admitted when h slots are held.            *)
Fits(h, w) == IF Len(w) <= Free(h) THEN Len(w) ELSE Free(h)

(* The requests of w are admitted in order, A being admitted already.       *)
Admit(h, w, A) ==
  /\ held' = h + Fits(h, w)
  /\ waiting' = SubSeq(w, Fits(h, w) + 1, Len(w))
  /\ admitted' = A \cup {w[i] : i \in 1..Fits(h, w)}

(* A request has to wait.                                                   *)
Arrive(s) ==
  /\ Free(held) = 0
  /\ waiting' = Append(waiting, s)
  /\ UNCHANGED <<held, admitted>>

(* A waiting request times out or its client goes away.                     *)
Withdraw(s) == Admit(held, RemoveFirst(waiting, s), admitted)

(* A request that found a free slot has its worker.                         *)
Take ==
  /\ held' = held + 1
  /\ UNCHANGED <<waiting, admitted>>

(* An admitted request has its worker, which keeps the slot.                *)
Created(s) ==
  /\ s \in admitted
  /\ Admit(held, waiting, admitted \ {s})

(* An admitted request could not have its worker.                           *)
Failed(s) ==
  /\ s \in admitted /\ held > 0
  /\ Admit(held - 1, waiting, admitted \ {s})

(* A worker is removed.                                                     *)
Release ==
  /\ held > 0
  /\ Admit(held - 1, waiting, admitted)

(* The broker restarts and has forgotten its pool.                          *)
Restart ==
  /\ held' = 0
  /\ waiting' = <<>>
  /\ admitted' = {}

Init == held = 0 /\ waiting = <<>> /\ admitted = {}

Next ==
  \/ \E s \in Session : Arrive(s) \/ Withdraw(s) \/ Created(s) \/ Failed(s)
  \/ Take \/ Release \/ Restart

Spec == Init /\ [][Next]_poolVars

=============================================================================
