--------------------------- MODULE AdasDeserializer ---------------------------
(***************************************************************************)
(* The recording reader of mini-adas                                      *)
(* (src/examples/rust/mini-adas/src/bin/adas_deserializer.rs): it reads   *)
(* rec.bin and repeatedly takes a postcard-encoded Record from the front. *)
(* A DataDescription record is followed by the encoded message it         *)
(* describes, data_size bytes long: if its type_name is one of the         *)
(* message types the tool knows, the message is decoded (the decoder      *)
(* decides how many bytes it takes); otherwise data_size bytes are         *)
(* skipped.  Every decoding failure is an expect, i.e. a panic.            *)
(*                                                                         *)
(* Bytes are abstracted to tokens: a record header is two tokens, so that *)
(* a file can end inside it, and a message is one token per byte.  The    *)
(* file is what the recorder wrote, possibly cut short (the recording      *)
(* process was killed).                                                    *)
(***************************************************************************)
EXTENDS Naturals, Sequences, SequencesExt

CONSTANTS
    Types,      \* type names found in recordings
    Known,      \* the message types the tool tries (CameraImage, ...)
    MaxRecords, \* bound on the records in a recording
    MaxSize     \* bound on data_size

ASSUME Known \subseteq Types /\ MaxRecords \in Nat /\ MaxSize \in Nat

\* A Record: a DataDescription (type_name, data_size) or any other variant.
Records == [kind : {"desc"}, type : Types, size : 0..MaxSize]
           \cup [kind : {"other"}, type : {"none"}, size : {0}]

\* The bytes the recorder writes for record i of recording rec.
RecordBytes(rec, i) ==
    <<[k |-> "hdr1", r |-> i], [k |-> "hdr2", r |-> i]>>
    \o (IF rec[i].kind = "desc"
        THEN [j \in 1..rec[i].size |-> [k |-> "dat", r |-> i]]
        ELSE <<>>)

FileBytes(rec) == FlattenSeq([i \in DOMAIN rec |-> RecordBytes(rec, i)])

\* What the tool prints for a complete recording: each record, and after a
\* description of a known type the message it describes.
PrintedFor(r) ==
    <<[what |-> "record", rec |-> r]>>
    \o (IF r.kind = "desc" /\ r.type \in Known
        THEN <<[what |-> "message", rec |-> r]>>
        ELSE <<>>)

Expected(rec) == FlattenSeq([i \in DOMAIN rec |-> PrintedFor(rec[i])])

Recordings == UNION {[1..n -> Records] : n \in 0..MaxRecords}

VARIABLES
    recording,  \* what the recorder wrote (history, for the properties)
    fileLen,    \* how much of it made it into rec.bin
    rem,        \* remaining_bytes
    out,        \* what the tool has printed
    st          \* "loop", "done" (the while loop ended) or "panic"

vars == <<recording, fileLen, rem, out, st>>

-----------------------------------------------------------------------------

\* postcard::take_from_bytes::<Record>: a whole header decodes to the record
\* the recorder wrote; a cut header fails; bytes that are not a header
\* decode to some record or fail, depending on their value.
TakeRecord(bytes) ==
    IF bytes[1].k = "hdr1"
    THEN IF Len(bytes) >= 2
         THEN {<<recording[bytes[1].r], Tail(Tail(bytes))>>}
         ELSE {}
    ELSE {<<r, Tail(bytes)>> : r \in Records}

\* try_deserialization_as_a for the matching type: the message the recorder
\* wrote decodes from its data_size bytes; a cut message fails.
TakeMessage(r, bytes) ==
    IF Len(bytes) >= r.size
    THEN {SubSeq(bytes, r.size + 1, Len(bytes))}
    ELSE {}

PrintRecord(r) == out' = Append(out, [what |-> "record", rec |-> r])

\* The Record cannot be decoded: expect("deserializing failed").  A cut
\* header always fails; other bytes may.
RecordFails ==
    /\ TakeRecord(rem) = {} \/ rem[1].k # "hdr1"
    /\ st' = "panic"
    /\ UNCHANGED <<rem, out>>

\* Mutant: the bytes of a decoded message are not consumed.
KnownMessage_NoAdvance(r, after) ==
    /\ r.kind = "desc" /\ r.type \in Known
    /\ rem' = after
    /\ out' = out \o PrintedFor(r)
    /\ UNCHANGED st

\* The record describes a known type: the message is decoded and printed,
\* or the expect in try_deserialization_as_a panics.
KnownMessage(r, after) ==
    /\ r.kind = "desc" /\ r.type \in Known
    /\ \/ /\ TakeMessage(r, after) = {}
          /\ PrintRecord(r)
          /\ st' = "panic"
          /\ rem' = after
       \/ /\ rem' \in TakeMessage(r, after)
          /\ out' = out \o PrintedFor(r)
          /\ UNCHANGED st

\* Mutant: an unknown message is not skipped.
SkipUnknown_NoAdvance(r, after) ==
    /\ r.kind = "desc" /\ r.type \notin Known
    /\ PrintRecord(r)
    /\ rem' = after
    /\ UNCHANGED st

\* No known type matches: skip remaining_bytes[data_size..], which panics
\* when data_size is beyond the end.
SkipUnknown(r, after) ==
    /\ r.kind = "desc" /\ r.type \notin Known
    /\ PrintRecord(r)
    /\ \/ /\ r.size > Len(after)
          /\ st' = "panic"
          /\ rem' = after
       \/ /\ r.size <= Len(after)
          /\ rem' = SubSeq(after, r.size + 1, Len(after))
          /\ UNCHANGED st

\* Any other record is only printed.
OtherRecord(r, after) ==
    /\ r.kind = "other"
    /\ PrintRecord(r)
    /\ rem' = after
    /\ UNCHANGED st

\* One iteration of the while loop.
Iteration ==
    /\ st = "loop"
    /\ rem # <<>>
    /\ \/ RecordFails
       \/ \E taken \in TakeRecord(rem) :
            \/ KnownMessage(taken[1], taken[2])
            \/ SkipUnknown(taken[1], taken[2])
            \/ OtherRecord(taken[1], taken[2])
    /\ UNCHANGED <<recording, fileLen>>

\* The while condition fails: all bytes consumed.
Finish ==
    /\ st = "loop"
    /\ rem = <<>>
    /\ st' = "done"
    /\ UNCHANGED <<recording, fileLen, rem, out>>

\* The file read by read_to_end: any recording, cut at any byte.
Init ==
    /\ recording \in Recordings
    /\ fileLen \in 0..Len(FileBytes(recording))
    /\ rem = SubSeq(FileBytes(recording), 1, fileLen)
    /\ out = <<>>
    /\ st = "loop"

Next == Iteration \/ Finish

Spec == Init /\ [][Next]_vars /\ WF_vars(Next)

-----------------------------------------------------------------------------

Complete == fileLen = Len(FileBytes(recording))

\* The tool never prints anything the recorder did not write: whatever it
\* prints, also from a cut file, is a prefix of the faithful rendering.
OutputIsPrefix == IsPrefix(out, Expected(recording))

\* A complete recording is read to the end without a panic, and every
\* record and every message of a known type is printed, in order.
CompleteFileFullyDecoded ==
    Complete => /\ st # "panic"
                /\ st = "done" => out = Expected(recording)

====
