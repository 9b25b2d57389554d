-------------------------- MODULE FinalizerProtocol --------------------------
(***************************************************************************)
(* What a finalizer promises between an object and the controller that put *)
(* it there.  The object may be marked for deletion by anybody, but it     *)
(* goes away only when its controller lets go of it; and the controller    *)
(* provisions only on behalf of an object that exists and carries the      *)
(* finalizer, so that nothing is made after the cleanup that would outlive *)
(* the object.  Both controllers with a finalizer, of pipelines and of     *)
(* source discoveries, implement this specification.                       *)
(***************************************************************************)
EXTENDS Naturals

VARIABLES
    object,   \* Absent, or the object's uid and where it stands
    born,     \* how many objects of this name there have been
    work      \* uid the controller provisions for, 0 when for none

Absent == [uid |-> 0, state |-> "absent"]

Init == object = Absent /\ born = 0 /\ work = 0

Create ==
    /\ object = Absent
    /\ born' = born + 1
    /\ object' = [uid |-> born', state |-> "fresh"]
    /\ UNCHANGED work

\* The controller adds its finalizer and may start to provision at once.
Guard ==
    /\ object.state = "fresh" /\ work = 0
    /\ object' = [object EXCEPT !.state = "guarded"]
    /\ work' \in {0, object.uid}
    /\ UNCHANGED born

Start ==
    /\ object.state \in {"guarded", "ending"} /\ work = 0
    /\ work' = object.uid
    /\ UNCHANGED <<object, born>>

Stop ==
    /\ work # 0
    /\ work' = 0
    /\ UNCHANGED <<object, born>>

MarkDeleted ==
    /\ \/ object.state = "fresh" /\ object' = Absent
       \/ object.state = "guarded" /\ object' = [object EXCEPT !.state = "ending"]
    /\ UNCHANGED <<born, work>>

\* The controller removes its finalizer: the last thing it does for the object.
Release ==
    /\ object.state = "ending" /\ work = 0
    /\ object' = Absent
    /\ UNCHANGED <<born, work>>

Next == Create \/ Guard \/ Start \/ Stop \/ MarkDeleted \/ Release

Spec == Init /\ [][Next]_<<object, born, work>>
=============================================================================
