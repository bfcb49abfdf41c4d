------------------------- MODULE AtomicRecordStore --------------------------
(***************************************************************************)
(* What a durable record store promises its callers: each create or        *)
(* compareAndSet takes effect at one instant, or not at all.  Revision 0   *)
(* stands for a record that does not exist, so create is the               *)
(* compare-and-set whose expected revision is 0.                           *)
(***************************************************************************)
EXTENDS Naturals

CONSTANTS Procs

VARIABLES
  revision,  \* of the stored record
  expected,  \* [Procs -> revision the caller loaded]
  call       \* [Procs -> stage of the call under way]

storeVars == <<revision, expected, call>>

Init ==
  /\ revision = 0
  /\ expected = [p \in Procs |-> 0]
  /\ call = [p \in Procs |-> "none"]

\* The caller loads the record, then asks to replace that revision.
Call(p) ==
  /\ call[p] = "none"
  /\ expected' = [expected EXCEPT ![p] = revision]
  /\ call' = [call EXCEPT ![p] = "called"]
  /\ UNCHANGED revision

Apply(p) ==
  /\ call[p] = "called" /\ expected[p] = revision
  /\ revision' = revision + 1
  /\ call' = [call EXCEPT ![p] = "applied"]
  /\ UNCHANGED expected

Refuse(p) ==
  /\ call[p] = "called" /\ expected[p] # revision
  /\ call' = [call EXCEPT ![p] = "refused"]
  /\ UNCHANGED <<revision, expected>>

\* The call returns, throws, or dies with its process: nothing is undone.
Return(p) ==
  /\ call[p] # "none"
  /\ call' = [call EXCEPT ![p] = "none"]
  /\ UNCHANGED <<revision, expected>>

Next == \E p \in Procs : Call(p) \/ Apply(p) \/ Refuse(p) \/ Return(p)

Spec == Init /\ [][Next]_storeVars
=============================================================================
