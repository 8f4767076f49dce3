----------------------------- MODULE SeriesFiles -----------------------------
(***************************************************************************)
(* Time series in Parquet files (infra/tsstore.py): the file is written in *)
(* place, in steps, and hashed when it is closed; who reads it opens it    *)
(* once to hash it and once to read it.  Writers of one path and a reader  *)
(* in any order; a writer may be killed between two of its steps.          *)
(***************************************************************************)
EXTENDS Integers, Sequences, FiniteSets

CONSTANTS
  SeriesTables,  \* what writers may write: kind and rows
  Writers,
  Kinds,         \* TS_KINDS
  Resolutions,   \* ALLOWED_ROW_COUNTS
  None

VARIABLES
  given,   \* the table of every writer
  made,    \* by writer: step, and the checksum that was returned
  file,    \* None, or the table in it and whether it is whole
  reader   \* step, checksum expected, what was read, whether nobody wrote meanwhile

fileVars == <<given, made, file, reader>>

\* compute_checksum: equal for equal bytes only.
ComputeChecksum(f) == f
Writable(table) == table.kind \in Kinds /\ table.rows \in Resolutions
Writing(w) == made[w].step = "writing"
\* The reader that has hashed and not yet read notices that a writer moves.
Disturb == reader' = [reader EXCEPT !.quiet = FALSE]

Init ==
  /\ given \in [Writers -> SeriesTables]
  /\ made = [w \in Writers |-> [step |-> "asked", checksum |-> None]]
  /\ file = None
  /\ reader = [step |-> "idle", expected |-> None, table |-> None, quiet |-> TRUE]

\* write_series
Refuse(w) ==
  /\ made[w].step = "asked" /\ ~Writable(given[w])
  /\ made' = [made EXCEPT ![w].step = "refused"] /\ UNCHANGED <<given, file, reader>>
StartWriting(w) ==
  /\ made[w].step = "asked" /\ Writable(given[w])
  /\ file' = [table |-> given[w], whole |-> FALSE]
  /\ made' = [made EXCEPT ![w].step = "writing"] /\ Disturb /\ UNCHANGED given
\* Two writers at once may leave a mixture.
FinishWriting(w) ==
  /\ Writing(w)
  /\ \E whole \in {TRUE} \cup {\A v \in Writers \ {w} : ~Writing(v)} :
       file' = [table |-> given[w], whole |-> whole]
  /\ made' = [made EXCEPT ![w].step = "written"] /\ Disturb /\ UNCHANGED given
ReturnChecksum(w) ==
  /\ made[w].step = "written"
  /\ made' = [made EXCEPT ![w] = [step |-> "returned", checksum |-> ComputeChecksum(file)]]
  /\ UNCHANGED <<given, file, reader>>
Kill(w) ==
  /\ made[w].step \in {"writing", "written"}
  /\ made' = [made EXCEPT ![w].step = "killed"] /\ UNCHANGED <<given, file, reader>>

\* read_series, with the checksum some writer was given, or without
Checksums == {made[w].checksum : w \in Writers} \cup {None}
Ask ==
  /\ reader.step = "idle" /\ file # None
  /\ \E c \in Checksums : reader' = [reader EXCEPT !.step = "asked", !.expected = c]
  /\ UNCHANGED <<given, made, file>>
Verify ==
  /\ reader.step = "asked"
  /\ reader' = [reader EXCEPT !.step = IF reader.expected \in {None, ComputeChecksum(file)} THEN "verified" ELSE "damaged",
                              !.quiet = TRUE]
  /\ UNCHANGED <<given, made, file>>
Read ==
  /\ reader.step = "verified"
  /\ reader' = [reader EXCEPT !.step = "read", !.table = file]
  /\ UNCHANGED <<given, made, file>>

Next ==
  \/ \E w \in Writers : Refuse(w) \/ StartWriting(w) \/ FinishWriting(w) \/ ReturnChecksum(w) \/ Kill(w)
  \/ Ask \/ Verify \/ Read

-----------------------------------------------------------------------------
(***************************************************************************)
(* "What is read is what was written": a reader that is given the checksum *)
(* of a writer, and whom no writer disturbs between its two openings of    *)
(* the file, gets the table that checksum was returned for, also after     *)
(* another writer was killed halfway or wrote another table before it; and *)
(* a writer that wrote without another beside it was returned the checksum *)
(* of its own, whole table (read_series, write_series).                    *)
(***************************************************************************)
Together(w) == \E v \in Writers \ {w} : made[v].step \notin {"asked", "refused"}
ReadIsWritten ==
  /\ reader.step = "read" /\ reader.expected # None /\ reader.quiet =>
       reader.table = reader.expected /\ Writable(reader.table.table)
  /\ \A w \in Writers : made[w].step = "returned" /\ ~Together(w) =>
       made[w].checksum = [table |-> given[w], whole |-> TRUE]
=============================================================================
