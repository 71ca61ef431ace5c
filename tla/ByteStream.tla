----------------------------- MODULE ByteStream -----------------------------
(***************************************************************************)
(* What a pipe promises: a bounded queue of bytes that come out in the order *)
(* in which they went in, each at most once, and an end of file that is seen *)
(* only when the queue is empty and can never be filled again.               *)
(***************************************************************************)
EXTENDS Naturals, Sequences

CONSTANTS Bytes, Capacity, EOF

VARIABLES queue,  \* the bytes in the pipe, oldest first
          wopen,  \* some process can still write
          got     \* what the latest read took out, or EOF

Init == queue = <<>> /\ wopen = TRUE /\ got = EOF

Write == /\ wopen /\ Len(queue) < Capacity
         /\ \E b \in Bytes : queue' = Append(queue, b)
         /\ UNCHANGED <<wopen, got>>

Read == /\ queue # <<>>
        /\ got' = Head(queue) /\ queue' = Tail(queue)
        /\ UNCHANGED wopen

End == /\ queue = <<>> /\ ~wopen
       /\ got' = EOF
       /\ UNCHANGED <<queue, wopen>>

Close == wopen' = FALSE /\ UNCHANGED <<queue, got>>

Spec == Init /\ [][Write \/ Read \/ End \/ Close]_<<queue, wopen, got>>
=============================================================================
