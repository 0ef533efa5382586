------------------------- MODULE ConnectionLifecycle -------------------------
(***************************************************************************)
(* What the server promises about each connection: it gets a descriptor    *)
(* nobody else has, is read only between its establishment and its close,  *)
(* and gives the descriptor back once, after the close.                    *)
(***************************************************************************)
CONSTANTS Conns,  \* the connections clients open
          Fds,    \* the descriptors
          NoFd    \* no descriptor, not one of them

VARIABLES phase,  \* phase[c]: how far connection c is
          owned   \* owned[c]: the open descriptor of c, or NoFd

vars == <<phase, owned>>

Phase == {"none", "accepted", "reading", "closed", "gone"}

Init == /\ phase = [c \in Conns |-> "none"]
        /\ owned = [c \in Conns |-> NoFd]

Advance(c, from, to) == /\ phase[c] = from
                        /\ phase' = [phase EXCEPT ![c] = to]

Accept(c) ==
  /\ phase[c] = "none"
  /\ \E f \in Fds, to \in {"accepted", "reading"} :
       /\ \A d \in Conns : owned[d] # f
       /\ phase' = [phase EXCEPT ![c] = to]
       /\ owned' = [owned EXCEPT ![c] = f]

Establish(c) == Advance(c, "accepted", "reading") /\ UNCHANGED owned

Close(c) == Advance(c, "reading", "closed") /\ UNCHANGED owned

\* The references to several connections may be dropped by one step.
Destroy(S) ==
  /\ S # {}
  /\ \A c \in S : phase[c] = "closed"
  /\ phase' = [c \in Conns |-> IF c \in S THEN "gone" ELSE phase[c]]
  /\ owned' = [c \in Conns |-> IF c \in S THEN NoFd ELSE owned[c]]

Next == \/ \E c \in Conns : Accept(c) \/ Establish(c) \/ Close(c)
        \/ \E S \in SUBSET Conns : Destroy(S)

Spec == Init /\ [][Next]_vars

=============================================================================
