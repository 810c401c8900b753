---------------------------- MODULE ResponseStream ----------------------------
(***************************************************************************)
(* What a connection promises its peer: the answers the server makes reach *)
(* it in the order they were made, each once and with none skipped; once   *)
(* the stream has ended nothing more is sent; and after an answer that     *)
(* announces the end no request is answered any more (only an error may    *)
(* follow).  Module Connection is shown to implement this.                 *)
(***************************************************************************)
EXTENDS Integers, Sequences

VARIABLES
    made,   \* the answers made so far: [by: "route" or "error", close]
    sent,   \* how many of them, from the first on, were sent entirely
    ended   \* the connection is being closed

vars == <<made, sent, ended>>

Answer == [by : {"route", "error"}, close : BOOLEAN]

Init == made = <<>> /\ sent = 0 /\ ended = FALSE

Announced == made # <<>> /\ made[Len(made)].close

(* An answer is made.  It may be sent at once if nothing is ahead of it; it *)
(* may instead break the connection, which then ends there.                 *)
Make(a) ==
    /\ Announced => a.by = "error"
    /\ made' = Append(made, a)
    /\ \/ sent' = sent /\ (ended => ended') /\ ended' \in BOOLEAN
       \/ ~ended /\ sent = Len(made) /\ sent' = sent + 1 /\ UNCHANGED ended

Transmit ==
    /\ ~ended /\ sent < Len(made)
    /\ sent' = sent + 1
    /\ UNCHANGED <<made, ended>>

End == ~ended /\ ended' = TRUE /\ UNCHANGED <<made, sent>>

Next == (\E a \in Answer : Make(a)) \/ Transmit \/ End

Spec == Init /\ [][Next]_vars
===============================================================================
