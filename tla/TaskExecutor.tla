---------------------------- MODULE TaskExecutor ----------------------------
(***************************************************************************)
(* What an EventLoop promises the threads that hand it work: functions are *)
(* called one at a time, each exactly once, in the order they were handed  *)
(* over, and every one of them is called in the end.                       *)
(***************************************************************************)
EXTENDS Sequences

CONSTANTS Funcs,   \* the functions that can be handed over
          NoFunc   \* no function is being called, not one of them

VARIABLES pending,   \* functions handed over and not yet called, oldest first
          executing  \* the function being called, or NoFunc

vars == <<pending, executing>>

TypeOK == /\ pending \in Seq(Funcs)
          /\ executing \in Funcs \cup {NoFunc}

Init == /\ pending = <<>>
        /\ executing = NoFunc

Submit(f) == /\ pending' = Append(pending, f)
             /\ UNCHANGED executing

Begin == /\ executing = NoFunc
         /\ pending # <<>>
         /\ executing' = Head(pending)
         /\ pending' = Tail(pending)

End == /\ executing # NoFunc
       /\ executing' = NoFunc
       /\ UNCHANGED pending

Next == \/ \E f \in Funcs : Submit(f)
        \/ Begin
        \/ End

Safety == Init /\ [][Next]_vars

Spec == Safety /\ WF_vars(Begin) /\ WF_vars(End)

=============================================================================
