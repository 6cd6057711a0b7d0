----------------------------- MODULE CallService -----------------------------
(***************************************************************************)
(* What the UI's calls promise whoever makes them: a call waits, and gets one *)
(* outcome, which is an error or its own answer; a window that an answer       *)
(* names is that of no other call.                                            *)
(***************************************************************************)
EXTENDS Naturals, Sequences

CONSTANT FirstId      \* the id of the first call

VARIABLE calls        \* the calls made, in the order of their ids

Waits == [state |-> "waits", of |-> 0, window |-> 0]
Error == [state |-> "error", of |-> 0, window |-> 0]
Answer(id, window) == [state |-> "ok", of |-> id, window |-> window]

Waiting == {c \in DOMAIN calls : calls[c] = Waits}
Windows == {calls[c].window : c \in DOMAIN calls} \ {0}

Init == calls = <<>>

(* A call is made, and may fail at once. *)
Ask == calls' = Append(calls, Waits) \/ calls' = Append(calls, Error)

(* One call fails, or many do. *)
Fail == \E failed \in SUBSET Waiting :
            calls' = [c \in DOMAIN calls |-> IF c \in failed THEN Error ELSE calls[c]]

Succeed == \E c \in Waiting :
    /\ calls'[c].window \notin Windows
    /\ calls' = [calls EXCEPT ![c] = Answer(c + FirstId - 1, calls'[c].window)]

Next == Ask \/ Fail \/ Succeed

Spec == Init /\ [][Next]_calls
=============================================================================
