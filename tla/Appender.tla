------------------------------ MODULE Appender ------------------------------
(***************************************************************************)
(* What one logging process promises about the log directory, and all that *)
(* the modules about the cluster and about readers assume of it: records   *)
(* are accepted while it is open, reach the files in the order they were   *)
(* accepted, a whole batch at a time, each in the file that was current    *)
(* when the batch was written; switching files and stopping write out      *)
(* whatever is still pending.  Timers, the high water mark, failing writes *)
(* and file descriptors are Logger's business: Logger implements this      *)
(* specification.                                                          *)
(*                                                                         *)
(* One thing it cannot promise: when the file system takes only a part of  *)
(* a batch, a torn block stands where the batch should be.                 *)
(***************************************************************************)
EXTENDS Sequences, Naturals

CONSTANTS Files,     \* the files the process may be told to write to
          Records,   \* the records it may be given
          Torn       \* a batch of which only a part was written

VARIABLES current,   \* the file records go to, or Stopped
          pending,   \* records accepted and not yet written
          written    \* the records each file holds

vars == <<current, pending, written>>

Stopped == 0

Init == /\ current \in Files
        /\ pending = <<>>
        /\ written = [f \in Files |-> <<>>]

WriteOut(batch) ==
  \/ written' = [written EXCEPT ![current] = @ \o batch]
  \/ written' = [written EXCEPT ![current] = Append(@, Torn)]

Accept(r) == /\ current # Stopped
             /\ pending' = Append(pending, r)
             /\ UNCHANGED <<current, written>>

AcceptAndWrite(r) == /\ current # Stopped
                     /\ WriteOut(Append(pending, r))
                     /\ pending' = <<>>
                     /\ UNCHANGED current

Write == /\ current # Stopped
         /\ WriteOut(pending)
         /\ pending' = <<>>
         /\ UNCHANGED current

Switch(f) == /\ current # Stopped
             /\ WriteOut(pending)
             /\ pending' = <<>>
             /\ current' = f

Stop == /\ current # Stopped
        /\ WriteOut(pending)
        /\ pending' = <<>>
        /\ current' = Stopped

Next == \/ \E r \in Records : Accept(r) \/ AcceptAndWrite(r)
        \/ \E f \in Files : Switch(f)
        \/ Write
        \/ Stop

Spec == Init /\ [][Next]_vars
=============================================================================
