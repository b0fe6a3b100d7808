------------------------- MODULE ProducerValidation -------------------------
(***************************************************************************)
(* The idempotent-producer rules that every server of the repository       *)
(* applies before an append or a close: epochs fence, sequence numbers     *)
(* deduplicate.  The in-memory and the file-backed store share this logic  *)
(* line by line; both of their modules use these operators.                *)
(*                                                                         *)
(* A producer's state is its epoch and its highest accepted sequence       *)
(* number; "no state" (the producer is not in stream.producers) is the     *)
(* record with epoch -1.                                                   *)
(***************************************************************************)
EXTENDS Integers

NoProducerState == [epoch |-> -1, lastSeq |-> -1]

\* ProducerState of types.ts: an entry of stream.producers.
ProducerState == [epoch : Int, lastSeq : Int]

\* Mutant: the last accepted sequence number is accepted again.
ValidateOffByOne(st, epoch, seq) ==
    CASE st.epoch = -1            -> IF seq = 0 THEN "accepted" ELSE "sequence_gap"
      [] epoch < st.epoch         -> "stale_epoch"
      [] epoch > st.epoch         -> IF seq = 0 THEN "accepted"
                                     ELSE "invalid_epoch_seq"
      [] seq < st.lastSeq         -> "duplicate"
      [] seq \in {st.lastSeq, st.lastSeq + 1} -> "accepted"
      [] OTHER                    -> "sequence_gap"

\* validateProducer: the answer to <<epoch, seq>> of a producer whose state is
\* st.  Only "accepted" lets the caller go on; the state is not changed here.
ValidateProducer(st, epoch, seq) ==
    CASE st.epoch = -1 /\ seq = 0 -> "accepted"
      [] st.epoch = -1 /\ seq # 0 -> "sequence_gap"
      [] st.epoch # -1 /\ epoch < st.epoch -> "stale_epoch"
      [] st.epoch # -1 /\ epoch > st.epoch ->
            IF seq = 0 THEN "accepted" ELSE "invalid_epoch_seq"
      [] st.epoch # -1 /\ epoch = st.epoch ->
            IF seq <= st.lastSeq THEN "duplicate"
            ELSE IF seq = st.lastSeq + 1 THEN "accepted"
            ELSE "sequence_gap"

\* proposedState of an accepted request: what commitProducerState stores.
ProposedState(epoch, seq) == [epoch |-> epoch, lastSeq |-> seq]
=============================================================================
