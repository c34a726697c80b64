------------------------------ MODULE BoundedFifo ------------------------------
(***************************************************************************)
(* What a LimitQueue promises: a queue that forgets its oldest element when*)
(* a push makes it longer than maxSize.                                    *)
(***************************************************************************)
EXTENDS Naturals, Sequences

CONSTANTS Values,    \* what is pushed
          maxSize

VARIABLES content,   \* the elements, the oldest first
          result     \* what the last call returned

FifoInit == content = <<>> /\ result = <<>>

FifoPush(value) ==
  LET longer == Append(content, value)
  IN /\ content' = IF Len(longer) > maxSize THEN Tail(longer) ELSE longer
     /\ result' = <<>>

FifoShift ==
  IF content = <<>>
    THEN content' = content /\ result' = <<>>
    ELSE content' = Tail(content) /\ result' = <<Head(content)>>

FifoDrain == content' = <<>> /\ result' = content

FifoNext == (\E value \in Values : FifoPush(value)) \/ FifoShift \/ FifoDrain

FifoSpec == FifoInit /\ [][FifoNext]_<<content, result>>
=============================================================================
