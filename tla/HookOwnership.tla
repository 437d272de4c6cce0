---------------------------- MODULE HookOwnership ----------------------------
(***************************************************************************)
(* What the loader promises the kernel, without how it does it: the        *)
(* process owns at most one loaded object at a time; it touches hooks only *)
(* while it owns one, one slot at a time, on the one interface it has      *)
(* settled on; and it only ever puts its own program there or empties the  *)
(* slot.  A program may outlive its owner (the hook keeps it alive), but   *)
(* nobody can bring a released program back.                               *)
(***************************************************************************)
CONSTANTS Objects, Interfaces, HookNames, None

VARIABLES owner,   \* the object the process holds, or None
          home,    \* the interface it has settled on, or None
          hooks    \* what every slot of the kernel runs

vars == <<owner, home, hooks>>

Slots == Interfaces \X HookNames

Init == /\ owner = None
        /\ home = None
        /\ hooks = [s \in Slots |-> None]

Unattached(o) == \A s \in Slots : hooks[s] # o

\* A fresh object: a program that still runs somewhere is never acquired.
Acquire(o) == /\ owner = None
              /\ Unattached(o)
              /\ owner' = o
              /\ UNCHANGED <<home, hooks>>

\* The interface may be chosen only while the program runs nowhere.
Settle(i) == /\ owner # None
             /\ Unattached(owner)
             /\ home' = i
             /\ UNCHANGED <<owner, hooks>>

Attach(h) == /\ owner # None
             /\ home \in Interfaces
             /\ hooks' = [hooks EXCEPT ![<<home, h>>] = owner]
             /\ UNCHANGED <<owner, home>>

Detach(h) == /\ owner # None
             /\ home \in Interfaces
             /\ hooks' = [hooks EXCEPT ![<<home, h>>] = None]
             /\ UNCHANGED <<owner, home>>

\* Giving the object up, by unloading it, by a failed load or by dying.
Release == /\ owner # None
           /\ owner' = None
           /\ home' \in Interfaces \cup {None}
           /\ UNCHANGED hooks

\* Without an object the interface means nothing and may be forgotten.
Forget == /\ owner = None
          /\ home' = None
          /\ UNCHANGED <<owner, hooks>>

Next == \/ \E o \in Objects : Acquire(o)
        \/ \E i \in Interfaces : Settle(i)
        \/ \E h \in HookNames : Attach(h) \/ Detach(h)
        \/ Release
        \/ Forget

Spec == Init /\ [][Next]_vars
=============================================================================
