------------------------------- MODULE Redact -------------------------------
(***************************************************************************)
(* Redaction of a proxied response (internal/redact/redact.go): the        *)
(* Upstream's bytes come in writes of any size, and every match of a form  *)
(* of the Secret (a needle) is masked, also one that is split over writes. *)
(***************************************************************************)
EXTENDS Naturals, Sequences, SequencesExt

CONSTANTS
  Bytes,       \* what a response is made of
  MaskBytes,   \* the bytes a mask may be made of, in order of preference
  NeedleSets,  \* the forms of the Secret one request may carry
  MaxLength    \* bound: the length of the response

ASSUME RedactAssumption ==
  /\ MaxLength \in Nat
  /\ MaskBytes # <<>>
  /\ \A needles \in NeedleSets : \A n \in needles : n \in Seq(Bytes) /\ n # <<>>

VARIABLES
  needles,   \* w.needles
  written,   \* history: what was written so far
  output,    \* what the underlying writer was given
  held,      \* w.buf[:w.pending]: raw bytes held back
  marked,    \* w.masked[:w.pending]
  state      \* "open", "closed", or "broken" by a write that failed

redactVars == <<needles, written, output, held, marked, state>>

OccursAt(s, n, at) ==
  at + Len(n) - 1 <= Len(s) /\ SubSeq(s, at, at + Len(n) - 1) = n

\* Byte i of s is part of a match.
Matched(s, i) ==
  \E n \in needles : \E at \in 1 .. i : at + Len(n) > i /\ OccursAt(s, n, at)

containsAny(s) == \E n \in needles : \E at \in DOMAIN s : OccursAt(s, n, at)

holds(n, m) == \E i \in DOMAIN n : n[i] = m

\* maskFor: a byte no needle contains, or the first when there is none.
maskFor ==
  LET free == {i \in DOMAIN MaskBytes : \A n \in needles : ~holds(n, MaskBytes[i])}
  IN  MaskBytes[IF free = {} THEN 1 ELSE Min(free)]

\* A partial match is found only when the whole buffer is one.
BadpartialMatch(s) ==
  IF \E n \in needles : Len(s) < Len(n) /\ SubSeq(n, 1, Len(s)) = s THEN Len(s) ELSE 0

\* The whole tail of the longest needle's length is held.
BadpartialMatchLong(s) == Min({Len(s), Max({0} \cup {Len(n) : n \in needles})})

\* partialMatch: the longest suffix of s that is a proper prefix of a needle.
partialMatch(s) ==
  Max({0} \cup {k \in 1 .. Len(s) :
                  \E n \in needles : k < Len(n)
                                     /\ SubSeq(s, Len(s) - k + 1, Len(s)) = SubSeq(n, 1, k)})

applyMask(s, marks) == [i \in DOMAIN s |-> IF marks[i] THEN maskFor ELSE s[i]]

RedactInit ==
  /\ needles \in NeedleSets
  /\ written = <<>> /\ output = <<>> /\ held = <<>> /\ marked = <<>> /\ state = "open"

\* What becomes of a buffer and its marks: all but a partial match is sent.
sent(buf, marks) ==
  LET send == Len(buf) - partialMatch(buf)
  IN  applyMask(SubSeq(buf, 1, send), SubSeq(marks, 1, send))

Keep(buf, marks) ==
  LET send == Len(buf) - partialMatch(buf)
  IN  /\ held' = SubSeq(buf, send + 1, Len(buf))
      /\ marked' = SubSeq(marks, send + 1, Len(buf))

\* The marks of held bytes are found again, not kept.
BadmarkMatches(buf) == [i \in DOMAIN buf |-> Matched(buf, i)]

\* markMatches, on a buffer whose first bytes may already be marked.
markMatches(buf) ==
  [i \in DOMAIN buf |-> Matched(buf, i) \/ (i <= Len(marked) /\ marked[i])]

\* With nothing held and nothing to mask the bytes pass as they are.
marksFor(p) ==
  IF held = <<>> /\ ~containsAny(p) THEN [i \in DOMAIN p |-> FALSE]
                                    ELSE markMatches(held \o p)

Write(p) ==
  /\ state = "open" /\ written' = written \o p
  /\ output' = output \o sent(held \o p, marksFor(p))
  /\ Keep(held \o p, marksFor(p))
  /\ UNCHANGED <<needles, state>>

\* The underlying writer fails, having taken any part of what it was given.  The
\* Delivery is then aborted: the Writer is neither written to nor closed.
WriteFails(p) ==
  /\ state = "open" /\ written' = written \o p
  /\ \E part \in Prefixes(sent(held \o p, marksFor(p))) : output' = output \o part
  /\ state' = "broken"
  /\ UNCHANGED <<needles, held, marked>>

Close ==
  /\ state = "open" /\ state' = "closed"
  /\ output' = output \o applyMask(held, marked)
  /\ held' = <<>> /\ marked' = <<>>
  /\ UNCHANGED <<needles, written>>

CloseFails ==
  /\ state = "open" /\ held # <<>> /\ state' = "broken"
  /\ \E part \in Prefixes(applyMask(held, marked)) : output' = output \o part
  /\ held' = <<>> /\ marked' = <<>>
  /\ UNCHANGED <<needles, written>>

RedactNext ==
  \/ \E k \in 1 .. MaxLength - Len(written) : \E p \in [1 .. k -> Bytes] :
       Write(p) \/ WriteFails(p)
  \/ Close \/ CloseFails

RedactSpec == RedactInit /\ [][RedactNext]_redactVars

-----------------------------------------------------------------------------
\* String: the response with every match masked, as if it came in one piece.
String(s) == applyMask(s, [i \in DOMAIN s |-> Matched(s, i)])

\* What the Agent gets does not depend on how the Upstream's bytes were cut into
\* writes: it is the whole response with every match masked, overlapping and
\* split ones included, and of the same length unless a write failed, and then a
\* prefix of it; and a stream is delayed by less than the longest needle (Write, Close).
MaskedAsAWhole ==
  /\ output = SubSeq(String(written), 1, Len(output))
  /\ state = "closed" => Len(output) = Len(written)
  /\ state = "open" => /\ Len(output) + Len(held) = Len(written)
                       /\ held = <<>> \/ \E n \in needles : Len(held) < Len(n)

\* Nothing the Agent gets contains a form of the Secret, as long as there is a
\* byte to mask with that is in none.
NoNeedleGetsOut ==
  (\A n \in needles : ~holds(n, maskFor)) =>
    ~containsAny(output)
=============================================================================
