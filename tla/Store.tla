------------------------------- MODULE Store -------------------------------
(***************************************************************************)
(* core/store.js: the append-only event file, its in-memory copy, and the  *)
(* group commit between them.  Records queued by append() are written,     *)
(* fsynced and applied by one drain(); a crash or a write error can leave  *)
(* any part of that write in the file.                                     *)
(*                                                                         *)
(* The file is a sequence of lines, a line a record or Garbage (anything   *)
(* load skips).  `unended` says that its last line has no newline: the     *)
(* next write then runs on from it, and the two make one malformed line.   *)
(***************************************************************************)
EXTENDS Folding, SequencesExt

CONSTANT Garbage       \* a line that does not parse as a record

VARIABLES
  file,      \* the lines of the event file
  unended,   \* the last line has no newline
  events,    \* events(): what the process has loaded or committed
  queue,     \* append() calls waiting for the next drain: [by, records]
  up         \* the process runs

storeVars == <<file, unended, events, queue, up>>

StoreInit ==
  /\ file = <<>> /\ unended = FALSE
  /\ events = <<>> /\ queue = <<>>
  /\ up = TRUE

\* What the load loop makes of the file; mostly there is nothing to skip.
load(lines) ==
  IF \A i \in DOMAIN lines : lines[i] # Garbage THEN lines
  ELSE fold(LAMBDA es, line : IF line = Garbage THEN es ELSE Append(es, line), <<>>, lines)

\* The data of one drain: the records of every queued append, in order.
batch == fold(LAMBDA records, q : records \o q.records, <<>>, queue)

\* The lines of the file after the lines `more` are written to it.
written(more) ==
  IF more = <<>> THEN file
  ELSE IF unended THEN Front(file) \o <<Garbage>> \o Tail(more)
  ELSE file \o more

(***************************************************************************)
(* The ways a write of the batch can end up in the file: the first n       *)
(* lines of it, the last of them complete, complete but for its newline,   *)
(* or followed by a piece of the next.                                     *)
(***************************************************************************)
Leaves(n, cut) ==
  LET kept == SubSeq(batch, 1, n)
  IN  /\ n \in 0..Len(batch)
      /\ \/ /\ cut = "whole"
            /\ file' = written(kept)
            /\ unended' = (unended /\ n = 0)
         \/ /\ cut = "no newline" /\ n > 0
            /\ file' = written(kept)
            /\ unended' = TRUE
         \/ /\ cut = "piece" /\ n < Len(batch)
            /\ file' = written(Append(kept, Garbage))
            /\ unended' = TRUE

Cuts == {"whole", "no newline", "piece"}

\* append(): nothing is acknowledged yet.
Enqueue(by, records) == queue' = Append(queue, [by |-> by, records |-> records])

\* Mutant: only the first append of the batch is written before all resolve.
CommitFirst ==
  /\ up /\ queue # <<>>
  /\ file' = written(Head(queue).records)
  /\ unended' = FALSE
  /\ events' = events \o batch
  /\ queue' = <<>>
  /\ UNCHANGED up

\* drain(): write, fsync, apply to memory; the appends resolve.
Commit ==
  /\ up /\ queue # <<>>
  /\ file' = written(batch)
  /\ unended' = FALSE
  /\ events' = events \o batch
  /\ queue' = <<>>
  /\ UNCHANGED up

\* Mutant: memory is updated before the write and not put back.
CommitFailsApplied(n, cut) ==
  /\ up /\ queue # <<>>
  /\ Leaves(n, cut)
  /\ events' = events \o batch
  /\ queue' = <<>>
  /\ UNCHANGED up

\* drain() when the write or the fsync throws: the appends reject and nothing
\* is applied to memory, whatever has reached the file.
CommitFails(n, cut) ==
  /\ up /\ queue # <<>>
  /\ Leaves(n, cut)
  /\ queue' = <<>>
  /\ UNCHANGED <<events, up>>

\* The machine stops; a drain in progress leaves what it leaves.
Halt(n, cut) ==
  /\ up
  /\ Leaves(n, cut)
  /\ events' = <<>> /\ queue' = <<>>
  /\ up' = FALSE

\* The process dies: one write call is in the file or it is not.
Kill == Halt(0, "whole") \/ Halt(Len(batch), "whole")

\* makeStore(): read the file back.
Load ==
  /\ ~up
  /\ up' = TRUE
  /\ events' = load(file)
  /\ UNCHANGED <<file, unended, queue>>
=============================================================================
