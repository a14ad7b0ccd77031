------------------------------ MODULE MCCodec -------------------------------
(***************************************************************************)
(* A record of any kind and shape is written, and its reader is handed the *)
(* bytes that have arrived: too few of them, all of them, or one too many. *)
(***************************************************************************)
EXTENDS DurableState, StateFile

\* Instances of the limits and of the decoders' literals; the bounds differ where the code's do.
SmallLimits ==
    [max_participants_per_ensemble |-> 2, max_stages_per_ensemble |-> 2,
     max_parallel_branches |-> 1, max_role_quota_entries |-> 2,
     max_candidates_per_execution |-> 2, max_evaluations_per_execution |-> 1,
     max_fallback_depth |-> 1, max_candidate_payload_bytes |-> 2,
     max_evaluation_payload_bytes |-> 1, max_metadata_bytes |-> 1, max_frame_bytes |-> 3,
     max_records_per_snapshot |-> 2, max_retained_results |-> 1, max_retained_commits |-> 2,
     max_explanation_entries |-> 1, max_label_bytes |-> 2]
SmallWire == [text |-> 2, request |-> 1, payload |-> 3, spec |-> 3, result |-> 3, report |-> 3,
              evidence |-> 1]

CONSTANT Lengths        \* lengths of the variable parts of a record

VARIABLES kind,         \* which record
          shape,        \* how its variable parts look
          tape          \* its encoding, <<>> before it is written

vars == <<kind, shape, tape>>

Layouts == [k \in DOMAIN MessageLayouts \cup DOMAIN StateLayouts |->
               IF k \in DOMAIN MessageLayouts THEN MessageLayouts[k] ELSE StateLayouts[k]]
Kinds == DOMAIN Layouts
Shapes == [len : Lengths, high : BOOLEAN, present : BOOLEAN]
Record == ValueOf(Layouts[kind][1], <<>>, shape)

Init == kind \in Kinds /\ shape \in Shapes /\ tape = <<>>
Write == tape = <<>> /\ tape' = Encode(Layouts[kind][1], Record) /\ UNCHANGED <<kind, shape>>
Next == Write
Spec == Init /\ [][Next]_vars

\* What the reader makes of the bytes it is given.
Read(input) == Decode(Layouts[kind][2], input, 0)

-----------------------------------------------------------------------------
(* Properties. *)

\* Whatever a record contains, its reader hands back exactly the fields its writer put in, each
\* in its place, and stops at its last byte: the put and get functions agree on the order, the
\* width and the presence of every field, and no reader bound or enumeration check refuses what
\* the program may write.
RoundTrip == tape # <<>> => Read(tape) = [ok |-> TRUE, at |-> Len(tape), value |-> Record]

\* persistence.hpp: "a truncated or oversized payload never yields a partial object".  No strict
\* prefix of an encoded record is accepted, wherever it is cut, and where the reader asks for it
\* no byte may follow (have, require_exhausted).
NoPartialObject ==
    tape # <<>> =>
        /\ \A n \in 0..(Len(tape) - 1) : ~Read(SubSeq(tape, 1, n)).ok
        /\ kind \in ExhaustedMessages \cup ExhaustedRecords =>
              LET longer == Append(tape, <<Garbage, 1>>)
              IN ~require_exhausted(Read(longer), longer)

\* Damage to the state file never goes unnoticed and never costs an intact state: the state
\* that fills the file to its limit is loaded, and no file that was cut, extended or
\* damaged in one place is (write_state_file, read_state_file).
StateFileSealed ==
    tape # <<>> /\ kind = "state" =>
        Sealed(tape, 1, Len(tape), limits.max_records_per_snapshot, {Garbage})

\* README.md: "A recovered coordinator [...] preserves committed results exactly".  Whatever
\* definition validate_spec has accepted and whatever state the engine reached under it,
\* recover_state reads back what save_state wrote.
AcceptedIsRecoverable ==
    kind \in {"spec", "stage_spec", "evidence_requirement"} => RoundTrip
=============================================================================
