----------------------------- MODULE StateFile ------------------------------
(***************************************************************************)
(* The container of the state file (persistence.cpp: write_state_file and  *)
(* read_state_file): a header of nine words, the last one its checksum,    *)
(* and the payload.  A checksum or a digest is the tuple of what it covers:*)
(* no two contents share one.  write_state_file is what it writes when it  *)
(* does not refuse the payload for exceeding max_persistence_bytes.        *)
(***************************************************************************)
EXTENDS Integers, Sequences

persistence_magic == <<"magic">>
persistence_format_version == <<"version", 1>>
header_words == 9

Crc(words) == <<"crc", words>>
Digest(words) == <<"digest", words>>
Words32(n) == <<"number", n>>

\* The header without its checksum.
Header(payload, record_count) ==
    <<persistence_magic, persistence_format_version, <<"flags", 0>>, Words32(Len(payload)),
      Crc(payload), Words32(record_count), Digest(payload), <<"reserved", 0>>>>

write_state_file(payload, record_count) ==
    Header(payload, record_count) \o <<Crc(Header(payload, record_count))>> \o payload

\* Mutant: the checksum of the header is not compared.
read_unchecked_header(file, max_bytes, max_records) ==
    LET payload == SubSeq(file, header_words + 1, Len(file))
    IN [ok |-> /\ Len(file) >= header_words
               /\ file[1] = persistence_magic
               /\ file[2] = persistence_format_version
               /\ Crc(payload) = file[5]
               /\ Digest(payload) = file[7],
        payload |-> payload]

\* [ok, payload], the checks in the code's order; max_bytes and max_records are the limits.
read_state_file(file, max_bytes, max_records) ==
    LET header == SubSeq(file, 1, header_words - 1)
        payload == SubSeq(file, header_words + 1, Len(file))
    IN [ok |-> /\ Len(file) >= header_words
               /\ Len(file) <= header_words + max_bytes
               /\ file[1] = persistence_magic
               /\ file[2] = persistence_format_version
               /\ file[header_words] = Crc(header)
               /\ file[4][2] <= max_bytes
               /\ Len(file) = header_words + file[4][2]
               /\ file[6][2] <= max_records
               /\ Crc(payload) = file[5]
               /\ Digest(payload) = file[7],
        payload |-> payload]

-----------------------------------------------------------------------------
(* What the container promises of a payload within its limits: it is read back, and no file   *)
(* that was cut, extended by one of these words or damaged by one of them in one place is.    *)

Sealed(payload, record_count, max_bytes, max_records, words) ==
    LET file == write_state_file(payload, record_count)
        Loaded(f) == read_state_file(f, max_bytes, max_records)
    IN /\ Loaded(file) = [ok |-> TRUE, payload |-> payload]
       /\ \A n \in 0..(Len(file) - 1) : ~Loaded(SubSeq(file, 1, n)).ok
       /\ \A w \in words : ~Loaded(Append(file, w)).ok
       /\ \A w \in words, i \in DOMAIN file :
             w # file[i] => ~Loaded([file EXCEPT ![i] = w]).ok
=============================================================================
