-------------------------------- MODULE Sse --------------------------------
(***************************************************************************)
(* Server-sent events on the wire (crates/gateway/src/adapter/sse.rs and   *)
(* the UsageScanner of relay.rs).  A line is its payload cut into pieces,  *)
(* the last one followed by a newline; a chunk of bytes is any run of      *)
(* pieces and newlines, whatever lines it cuts.                            *)
(***************************************************************************)
EXTENDS Integers, Sequences, SequencesExt, Folds

CONSTANTS
  None,
  MaxBuf      \* MAX_BUF, in pieces

NL == None

\* The elements of a sequence that are in a set, in their order.
Among(seq, set) ==
  FoldLeft(LAMBDA kept, e : IF e \in set THEN Append(kept, e) ELSE kept, <<>>, seq)

\* A payload as n pieces of a line.
Line(payload, n) == [k \in 1..n |-> [payload |-> payload, part |-> k, of |-> n]] \o <<NL>>

\* The payload of a whole line; nothing for a blank line or for the rest of a
\* line whose beginning is lost, which is no JSON.
sse_data_payload(line) ==
  IF line # <<>> /\ line = [k \in 1..line[1].of |-> [line[1] EXCEPT !.part = k]]
  THEN line[1].payload ELSE None

split(bytes) ==
  FoldLeft(LAMBDA acc, b : IF b = NL THEN [buf |-> <<>>, lines |-> Append(acc.lines, acc.buf)]
                           ELSE [acc EXCEPT !.buf = Append(@, b)],
           [buf |-> <<>>, lines |-> <<>>], bytes)

\* Slip: nothing is kept of an unfinished line.
lines_of_chunk(buf, bytes) == split(bytes)

\* Past the limit the unfinished line is dropped; a chunk that is longer than
\* the limit by itself is skipped.
take_lines(buf, bytes) ==
  LET kept == IF Len(buf) + Len(bytes) > MaxBuf THEN <<>> ELSE buf
  IN IF Len(bytes) > MaxBuf THEN [buf |-> <<>>, lines |-> <<>>]
     ELSE split(kept \o bytes)

payloads(lines) ==
  SelectSeq([i \in DOMAIN lines |-> sse_data_payload(lines[i])], LAMBDA p : p # None)

\* An OpenAI frame is a line and a blank line.
Frame(kind, index, usage, reason) ==
  [kind |-> kind, index |-> index, usage |-> usage, reason |-> reason]
sse_frame(frame) == Line(frame, 1) \o <<NL>>
sse_done == Frame("done", None, None, None)

\* The latest usage that is not null.
latest_usage(usage, frames) ==
  FoldLeft(LAMBDA u, f : IF f.usage = None THEN u ELSE f.usage, usage, frames)

\* UsageScanner: [buf, usage].
feed(scanner, bytes) ==
  LET taken == take_lines(scanner.buf, bytes)
  IN [buf |-> taken.buf, usage |-> latest_usage(scanner.usage, payloads(taken.lines))]

=============================================================================
