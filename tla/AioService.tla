----------------------------- MODULE AioService -----------------------------
(***************************************************************************)
(* What asynchronous I/O on host files promises to the block drivers that  *)
(* use it, whatever threads, signals and contexts it is made of.  Each     *)
(* request slot goes through one life after the other:                     *)
(*                                                                         *)
(*   free -> queued -> running -> served -> free      with a callback      *)
(*           queued -> free,      served -> free      cancelled            *)
(*                                                                         *)
(* The caller's buffer is used while the slot is "running" and only then,  *)
(* so a cancellation that returns has left the buffer to its owner, and a  *)
(* callback runs once, after the I/O.  PosixAio implements this module.    *)
(***************************************************************************)
CONSTANT Slots

VARIABLE life

Move(s, from, to) == life[s] = from /\ life' = [life EXCEPT ![s] = to]

Init == life = [s \in Slots |-> "free"]

Submit(s) == Move(s, "free", "queued")
Start(s) == Move(s, "queued", "running")
Finish(s) == Move(s, "running", "served")
Callback(s) == Move(s, "served", "free")
Cancel(s) == Move(s, "queued", "free") \/ Move(s, "served", "free")

\* What has been submitted moves on
Progress(s) == Start(s) \/ Finish(s) \/ Callback(s) \/ Cancel(s)

Next == \E s \in Slots : Submit(s) \/ Progress(s)

\* The order of a slot's life
Safety == Init /\ [][Next]_life

Spec == Safety /\ \A s \in Slots : WF_life(Progress(s))
=============================================================================
